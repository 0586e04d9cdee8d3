----------------------------- MODULE MultiPaxos -----------------------------
(***************************************************************************)
(* The consensus protocol: the acceptors and the proposers of all nodes    *)
(* over the network, in an environment that                                *)
(*   - changes a proposer's leader at any time, to any node (the failure   *)
(*     detectors are only eventually right),                               *)
(*   - hands any client value to a proposer at any time,                   *)
(*   - counts slots as decided at any time, and                            *)
(*   - takes learns off the network                                        *)
(* (what the learner and the server really do is in Cluster, whose steps   *)
(* are steps of this module).                                              *)
(***************************************************************************)
EXTENDS Acceptor, Proposer

CONSTANTS
    Proposing,  \* the nodes whose proposer takes part,
    Listener,   \* and whose learner does: what is sent to the others is lost
    Reach       \* the acceptors that a proposer's messages reach: the same

ASSUME ActiveAssumption ==
    /\ Proposing \subseteq Node /\ Listener \subseteq Node
    /\ Reach \in [Node -> SUBSET Node]

vars == <<acceptorVars, proposerVars, netVars>>

Init == AcceptorInit /\ ProposerInit /\ NetInit

AcceptorStep(a) ==
    /\ \/ \E m \in Waiting(a, "PREPARE") : a \in Reach[m.From] /\ handlePrepare(a, m)
       \/ \E m \in Waiting(a, "ACCEPT") : a \in Reach[m.From] /\ handleAccept(a, m)
    /\ UNCHANGED proposerVars

ProposerStep(p) ==
    /\ \/ \E m \in Waiting(p, "PROMISE") : HandlePromise(p, m)
       \/ \E v \in Request[p] : ClientValue(p, v)
       \/ PhaseOneProgressTick(p)
       \/ \E l \in Trusted[p] : Trust(p, l)
    /\ UNCHANGED acceptorVars

\* A majority voted in one round for the slot: a learner decides it.
Decided(s) ==
    \E l \in Sent("LEARN") :
        /\ l.Slot = s
        /\ IsQuorum({m.From : m \in {k \in Sent("LEARN") :
                                        k.Slot = s /\ k.Rnd = l.Rnd}})

SlotDecided(p) ==
    /\ IncrementAllDecidedUpTo(p)
    /\ UNCHANGED acceptorVars

\* The learner of n takes a learn off the network.
TakeLearn(n) ==
    /\ \E m \in Waiting(n, "LEARN") : Exchange({<<n, m>>}, {}, {})
    /\ UNCHANGED <<acceptorVars, proposerVars>>

Steps ==
    \/ \E a \in Node : AcceptorStep(a)
    \/ \E p \in Proposing : ProposerStep(p)
    \/ \E n \in Proposing \cup Listener : SlotDecided(n)

Next == Steps \/ \E n \in Listener : TakeLearn(n)

Spec == Init /\ [][Next]_vars

\* The same where no learner takes part.
UnheardSpec == Init /\ [][Steps]_vars

-----------------------------------------------------------------------------
TypeOK ==
    /\ AcceptorTypeOK
    /\ crnd \in [Node -> Round]
    /\ adu \in [Node -> SlotID]
    /\ nextSlot \in [Node -> 0 .. MaxSlot + 1]
    /\ promises \in [Node -> [Node -> Round \cup {NoRound}]]
    /\ promiseCount \in [Node -> Nat]
    /\ phaseOneDone \in [Node -> BOOLEAN]
    /\ acceptsOut \in [Node -> Seq(Accept)]
    /\ requestsIn \in [Node -> Seq(Value)]
    /\ leader \in [Node -> Node \cup {NoLeader}]
    /\ promise_slots \in [Node -> SUBSET PromiseSlot]
    /\ min_slot \in [Node -> SlotID]
    /\ sync_promise \in [Node -> BOOLEAN]
    /\ irregular \subseteq Round

Voters(s, r, v) ==
    {l.From : l \in {k \in Sent("LEARN") : k.Slot = s /\ k.Rnd = r /\ k.Val = v}}

Chosen(s, r, v) == IsQuorum(Voters(s, r, v))

\* Two majorities never choose differently in one slot, as long as no proposer
\* ended a phase one twice or skipped a slot when it ended it (README: the
\* Multi-Paxos protocol's agreement, under what the code does not exclude).
Agreement ==
    irregular = {} =>
        \A l, m \in Sent("LEARN") :
            l.Slot = m.Slot /\ l.Val # m.Val =>
                ~ (Chosen(l.Slot, l.Rnd, l.Val) /\ Chosen(m.Slot, m.Rnd, m.Val))

\* In one round a slot is proposed with one value only (nextSlot and the
\* queues of proposer.go:229-270, under the same proviso).
OneValuePerRound ==
    irregular = {} =>
        \A c, d \in Sent("ACCEPT") :
            c.Slot = d.Slot /\ c.Rnd = d.Rnd => c.Val = d.Val

\* Nobody proposes without a majority of promises for exactly its round, with
\* irregular rounds or without (proposer.go:184-207).
AcceptsHaveMajority ==
    \A c \in Sent("ACCEPT") :
        IsQuorum({p.From : p \in {q \in Sent("PROMISE") :
                                    q.To = c.From /\ q.Rnd = c.Rnd}})

\* When a value is proposed in a slot, no other value can be chosen there in a
\* lower round any more: every majority holds an acceptor that left that round
\* without such a vote (create_accept_message and the acceptors).
ProposalsAreSafe ==
    irregular = {} =>
        LET otherVoters(c, k) ==
                {l.From : l \in {m \in Sent("LEARN") :
                    m.Slot = c.Slot /\ m.Rnd = k /\ m.Val # c.Val}}
        IN  \A c \in Sent("ACCEPT") : \A k \in 0 .. (c.Rnd - 1) :
                ~ IsQuorum(otherVoters(c, k) \cup {a \in Node : accepted_rounds[a] <= k})

-----------------------------------------------------------------------------
(***************************************************************************)
(* What the documentation and the comments say without the proviso, and    *)
(* the code does not do.                                                   *)
(***************************************************************************)

\* "The Paxos protocol ensure that the same value will be decided for the same
\* slot" (lab6/README.md:240-241).
SameValueDecided ==
    \A l, m \in Sent("LEARN") :
        l.Slot = m.Slot /\ l.Val # m.Val =>
            ~ (Chosen(l.Slot, l.Rnd, l.Val) /\ Chosen(m.Slot, m.Rnd, m.Val))

\* "accs should contain a slice of accept message for the slots the Proposer is
\* bound in" (lab6/README.md:217-219): when phase one is done, every slot above
\* adu that a counted promise reported has its accept, sent or waiting.
BoundSlotsProposed ==
    \A p \in Node : phaseOneDone[p] =>
        \A m \in Sent("PROMISE") :
            m.To = p /\ m.Rnd = crnd[p] /\ promises[p][m.From] = m.Rnd =>
                \A e \in m.Slots : e.ID > adu[p] =>
                    \/ \E c \in Sent("ACCEPT") :
                          c.From = p /\ c.Rnd = crnd[p] /\ c.Slot = e.ID
                    \/ \E i \in DOMAIN acceptsOut[p] : acceptsOut[p][i].Slot = e.ID
=============================================================================
