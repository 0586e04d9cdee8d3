------------------------------ MODULE Replica -------------------------------
(***************************************************************************)
(* The learners and servers of some nodes, cut off until the acceptors     *)
(* have voted: their learns then arrive late, in any order, or never.      *)
(* What the acceptors can vote is the subject of MultiPaxos; here `sent'   *)
(* is one of Histories from the start, each the votes of some execution of *)
(* it whose rounds are regular: the slots count from 1, a round has one    *)
(* value per slot, and no two majorities are for different values there.   *)
(***************************************************************************)
EXTENDS Server

CONSTANTS
    Late,       \* the nodes the learns reach late
    Histories   \* sets of learns, each what the acceptors sent

\* A majority sent learns of this value in this slot and round.
Majority(votes, s, r, v) ==
    IsQuorum({l.From : l \in {k \in votes : k.Slot = s /\ k.Rnd = r /\ k.Val = v}})

ASSUME LateAssumption == Late \subseteq Node
ASSUME HistoriesAssumption ==
    /\ Histories \subseteq SUBSET Learn
    /\ \A votes \in Histories : \A l \in votes : l.Slot > 0
    /\ \A votes \in Histories : \A l, m \in votes :
          l.Slot = m.Slot /\ l.Rnd = m.Rnd => l.Val = m.Val
    /\ \A votes \in Histories : \A l, m \in votes :
          /\ l.Slot = m.Slot
          /\ Majority(votes, l.Slot, l.Rnd, l.Val)
          /\ Majority(votes, m.Slot, m.Rnd, m.Val)
          => l.Val = m.Val

vars == <<serverVars, learnerVars, netVars>>

Init ==
    /\ ServerInit /\ LearnerInit
    /\ sent \in Histories
    /\ net = Late \X sent

LearnArrives(n, m) ==
    /\ m \in Waiting(n, "LEARN")
    /\ handleLearn(n, m)
    /\ UNCHANGED serverVars

ValueDecided(n) == TakeDecidedValue(n) /\ UNCHANGED netVars

Incremented(n) == AfterIncrement(n) /\ UNCHANGED netVars

AnyLearn == UNION Histories

SomeLearnArrives(n) == \E m \in AnyLearn : LearnArrives(n, m)

Next == \E n \in Late : SomeLearnArrives(n) \/ ValueDecided(n) \/ Incremented(n)

Spec == Init /\ [][Next]_vars

Fairness ==
    \A n \in Late :
        /\ WF_vars(ValueDecided(n))
        /\ WF_vars(Incremented(n))
        /\ WF_vars(SomeLearnArrives(n))

\* No learn is lost, and the goroutines of the nodes run: a learner that has
\* room takes one learn after the other, until none is on its way.
FairSpec == Spec /\ Fairness

-----------------------------------------------------------------------------
TypeOK ==
    /\ learns \in [Node -> SUBSET Learn]
    /\ chosenValOut \in [Node -> Seq(DecidedValue)]
    /\ srvAdu \in [Node -> Nat]
    /\ dcdValInList \in [Node -> Seq(DecidedValue)]
    /\ srvPc \in [Node -> {"loop", "inc"}]
    /\ applied \in [Node -> Seq(DecidedValue)]

\* A node that applied no slot twice applied the slots 1, 2, 3, ... in order,
\* each with the value a majority voted for there (lab6/README.md:474, "Apply
\* bank transactions in correct order as they are decided").
AppliedInOrder ==
    \A n \in Node : ~ Repeats(n) =>
        \A i \in DOMAIN applied[n] :
            /\ applied[n][i].SlotID = i
            /\ \E r \in Round : Majority(sent, i, r, applied[n][i].Value)

ChosenTwice ==
    \E l, m \in sent :
        /\ l.Slot = m.Slot /\ l.Rnd < m.Rnd
        /\ Majority(sent, l.Slot, l.Rnd, l.Val)
        /\ Majority(sent, m.Slot, m.Rnd, m.Val)

\* As long as every slot has its majority in one round only, no slot is applied
\* twice, however many learns come after the decision (learner.go:141-145).
ChosenOnceAppliedOnce == ~ ChosenTwice => \A n \in Node : ~ Repeats(n)

\* Of every decided slot the server has the value in the channel, pending, or
\* applied: none is dropped between the learner and the accounts, the value
\* whose turn has not come included (server.go:191-194 and 219-223).
DecisionsKept ==
    \A n \in Node : \A d \in decisions[n] :
        LET val == [SlotID |-> d.Slot, Value |-> d.Val]
        IN  \E q \in {chosenValOut[n], dcdValInList[n], applied[n]} :
                \E i \in DOMAIN q : q[i] = val

\* When every learn arrives in the end and at most two slots are chosen, so that
\* one value at most waits for its turn, both are applied in the end
\* (learner.go:103-154, server.go:191-223).
EverythingApplied ==
    \A n \in Late : \A s \in 1 .. 2 :
        /\ \E l \in sent : l.Slot = s /\ Majority(sent, s, l.Rnd, l.Val)
        /\ \A m \in sent : m.Slot <= 2
        ~> \E i \in DOMAIN applied[n] : applied[n][i].SlotID = s

-----------------------------------------------------------------------------
(***************************************************************************)
(* What the documentation says and the code does not do.                   *)
(***************************************************************************)

\* No slot is applied twice (lab6/README.md:517-518, the server applies values
\* "only ... when it has consecutive sequence of decided slots").
AppliedOnce == \A n \in Node : ~ Repeats(n)
=============================================================================
