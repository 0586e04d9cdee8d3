------------------------------ MODULE Cluster -------------------------------
(***************************************************************************)
(* The nodes of the application: the protocol of MultiPaxos with, on every *)
(* node, the learner that hears the votes and the server that applies what *)
(* is decided and tells the proposer so (start_application.go wires them). *)
(* A slot is counted as decided only by that path here.                    *)
(***************************************************************************)
EXTENDS MultiPaxos, Server

clusterVars == <<vars, learnerVars, serverVars>>

ClusterInit == Init /\ LearnerInit /\ ServerInit

ProtocolStep ==
    /\ \/ \E a \in Node : AcceptorStep(a)
       \/ \E p \in Proposing : ProposerStep(p)
    /\ UNCHANGED <<learnerVars, serverVars>>

LearnArrives(n) ==
    /\ \E m \in Waiting(n, "LEARN") : handleLearn(n, m)
    /\ UNCHANGED <<acceptorVars, proposerVars, serverVars>>

ValueDecided(n) == TakeDecidedValue(n) /\ UNCHANGED vars

\* Mutant: the acceptor forgets its votes up to the decided slot.
Incremented_pruning(n) ==
    /\ AfterIncrement(n)
    /\ IncrementAllDecidedUpTo(n)
    /\ slots' = [slots EXCEPT ![n] = {e \in @ : e.ID > adu[n] + 1}]
    /\ UNCHANGED accepted_rounds

\* Mutant: the proposer's counter moves by itself, and nothing is proposed.
Incremented_quiet(n) ==
    /\ AfterIncrement(n)
    /\ adu' = [adu EXCEPT ![n] = @ + 1]
    /\ UNCHANGED <<acceptorVars, netVars, crnd, nextSlot, promises, promiseCount, phaseOneDone,
                   acceptsOut, requestsIn, leader, promise_slots, min_slot, sync_promise, irregular>>

\* The rendezvous of the server with the proposer's loop.
Incremented(n) ==
    /\ AfterIncrement(n)
    /\ IncrementAllDecidedUpTo(n)
    /\ UNCHANGED acceptorVars

ClusterNext ==
    \/ ProtocolStep
    \/ \E n \in Listener : LearnArrives(n) \/ ValueDecided(n) \/ Incremented(n)

ClusterSpec == ClusterInit /\ [][ClusterNext]_clusterVars

-----------------------------------------------------------------------------
ClusterTypeOK ==
    /\ TypeOK
    /\ learns \in [Node -> SUBSET Sent("LEARN")]
    /\ chosenValOut \in [Node -> Seq(DecidedValue)]
    /\ srvAdu \in [Node -> Nat]
    /\ dcdValInList \in [Node -> Seq(DecidedValue)]
    /\ srvPc \in [Node -> {"loop", "inc"}]
    /\ applied \in [Node -> Seq(DecidedValue)]

\* Two nodes that applied no slot twice applied the same values in the same
\* order as far as both got, as long as no round was irregular.
ReplicasAgree ==
    irregular = {} =>
        \A n, m \in Node : ~ Repeats(n) /\ ~ Repeats(m) =>
            \A i \in DOMAIN applied[n] \cap DOMAIN applied[m] :
                applied[n][i] = applied[m][i]

\* Every decision had its majority, as long as no round was irregular.
RegularDecisionsHaveMajority == irregular = {} => DecisionsHaveMajority

\* A node that applied no slot twice counts only slots that a majority voted
\* for, as long as no round was irregular.
CountsDecidedSlots ==
    irregular = {} =>
        \A n \in Node : ~ Repeats(n) => \A s \in 1 .. srvAdu[n] : Decided(s)

\* The proposer never proposes beyond the slot after the last one its server
\* applied, as long as no round was irregular (proposer.go:231-243).
ProposesAfterApplied ==
    irregular = {} =>
        \A c \in Sent("ACCEPT") : c.Slot <= srvAdu[c.From] + 1

\* A slot is proposed only after a majority voted for the one before it, by a
\* node that applied no slot twice and as long as no round was irregular
\* (proposer.go:235-244 with alpha = 1, and the reset of nextSlot, 113).
ProposesAfterDecided ==
    irregular = {} =>
        \A c \in Sent("ACCEPT") :
            c.Slot > 1 /\ ~ Repeats(c.From) => Decided(c.Slot - 1)

\* Whatever learners and servers do, the acceptors and the proposers take steps
\* of MultiPaxos: what holds there holds in the application.
ImplementsMultiPaxos == Spec
=============================================================================
