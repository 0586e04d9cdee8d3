------------------------------ MODULE Acceptor ------------------------------
(***************************************************************************)
(* The acceptors of all nodes (lab6/multipaxos/acceptor.go).  One action   *)
(* per handler of the run loop; the branch that answers nothing changes    *)
(* nothing but the message it drops, and a dropped message is one that     *)
(* stays in `net'.  The fields prev_voted_val, prev_voted_round, slot_id   *)
(* and prev_slot_id are written and read within one handler only.          *)
(***************************************************************************)
EXTENDS Messages

VARIABLES
    accepted_rounds,    \* the highest round promised or voted in
    slots               \* the last vote per slot, a set of PromiseSlot

acceptorVars == <<accepted_rounds, slots>>

AcceptorInit ==
    /\ accepted_rounds = [a \in Node |-> NoRound]
    /\ slots = [a \in Node |-> {}]

\* Mutant: the promise leaves out the vote of the prepare's own slot.
handlePrepare_above(a, m) ==
    /\ m.Crnd > accepted_rounds[a]
    /\ accepted_rounds' = [accepted_rounds EXCEPT ![a] = m.Crnd]
    /\ Exchange({<<a, m>>}, {m.From},
                {[type |-> "PROMISE", To |-> m.From, From |-> a, Rnd |-> m.Crnd,
                  Slots |-> {e \in slots[a] : e.ID > m.Slot}]})
    /\ UNCHANGED slots

\* The promise carries the votes from the slot of the prepare on.
handlePrepare(a, m) ==
    /\ m.Crnd > accepted_rounds[a]
    /\ accepted_rounds' = [accepted_rounds EXCEPT ![a] = m.Crnd]
    /\ Exchange({<<a, m>>}, {m.From},
                {[type |-> "PROMISE", To |-> m.From, From |-> a, Rnd |-> m.Crnd,
                  Slots |-> {e \in slots[a] : e.ID >= m.Slot}]})
    /\ UNCHANGED slots

\* A vote replaces the slot's entry only when its round is higher.
Recorded(S, vote) ==
    IF \E e \in S : e.ID = vote.ID /\ e.Vrnd >= vote.Vrnd
    THEN S
    ELSE {e \in S : e.ID # vote.ID} \cup {vote}

\* The learn is sent for every accept of a round not overtaken, also for
\* one that leaves the slot's entry as it is.
handleAccept(a, m) ==
    /\ m.Rnd >= accepted_rounds[a]
    /\ accepted_rounds' = [accepted_rounds EXCEPT ![a] = m.Rnd]
    /\ slots' = [slots EXCEPT ![a] =
           Recorded(slots[a], [ID |-> m.Slot, Vrnd |-> m.Rnd, Vval |-> m.Val])]
    /\ Exchange({<<a, m>>}, Node,
                {[type |-> "LEARN", From |-> a, Slot |-> m.Slot, Rnd |-> m.Rnd,
                  Val |-> m.Val]})

AcceptorNext ==
    \E a \in Node :
        \/ \E m \in Waiting(a, "PREPARE") : handlePrepare(a, m)
        \/ \E m \in Waiting(a, "ACCEPT") : handleAccept(a, m)

\* Whatever the rest of the system and the network do: prepares and accepts
\* of any proposer appear, and messages are lost, delayed or repeated.
Environment ==
    /\ UNCHANGED acceptorVars
    /\ sent \subseteq sent'
    /\ sent' \ sent \subseteq Prepare \cup Accept
    /\ net' \subseteq Node \X sent'

acceptorSystem == <<acceptorVars, netVars>>

\* The acceptors among arbitrary proposers.
AcceptorSpec ==
    AcceptorInit /\ NetInit /\ [][Environment \/ AcceptorNext]_acceptorSystem

-----------------------------------------------------------------------------
AcceptorTypeOK ==
    /\ accepted_rounds \in [Node -> Round \cup {NoRound}]
    /\ slots \in [Node -> SUBSET PromiseSlot]
    /\ sent \subseteq Prepare \cup Promise \cup Accept \cup Learn
    /\ net \subseteq Node \X sent

\* What a promise is worth to the proposer that counts it (acceptor.go:115-141
\* with 155-170): it reports, for every slot of the prepare's range, a vote at
\* least as late as any vote its acceptor ever casts below the promised round,
\* the votes cast after the promise was sent included.
PromiseReportsVotes ==
    \A p \in Sent("PROMISE") :
        \E q \in Sent("PREPARE") :
            /\ q.From = p.To /\ q.Crnd = p.Rnd
            /\ \A l \in Sent("LEARN") :
                  l.From = p.From /\ l.Rnd < p.Rnd /\ l.Slot >= q.Slot
                    => \E e \in p.Slots : e.ID = l.Slot /\ e.Vrnd >= l.Rnd

\* A promise reports only votes its acceptor cast below the promised round, at
\* most one per slot (the slots map of acceptor.go:16 and its overwrite, 164-170).
ReportedVotesWereCast ==
    \A p \in Sent("PROMISE") :
        /\ PerSlot(p.Slots)
        /\ \A e \in p.Slots :
              /\ e.Vrnd < p.Rnd
              /\ \E l \in Sent("LEARN") :
                    /\ l.From = p.From
                    /\ l.Slot = e.ID /\ l.Rnd = e.Vrnd /\ l.Val = e.Vval

\* The acceptor's map keeps, per slot, a vote of the highest round it voted in
\* there, and no vote or promise is later than accepted_rounds.
SlotsHoldLastVote ==
    /\ \A a \in Node :
          /\ PerSlot(slots[a])
          /\ \A e \in slots[a] : \E l \in Sent("LEARN") :
                /\ l.From = a
                /\ l.Slot = e.ID /\ l.Rnd = e.Vrnd /\ l.Val = e.Vval
    /\ \A l \in Sent("LEARN") :
          /\ l.Rnd <= accepted_rounds[l.From]
          /\ \E e \in slots[l.From] : e.ID = l.Slot /\ e.Vrnd >= l.Rnd
    /\ \A p \in Sent("PROMISE") : p.Rnd <= accepted_rounds[p.From]

\* A vote answers an accept of the same slot, round and value.
VotesAnswerAccepts ==
    \A l \in Sent("LEARN") : \E c \in Sent("ACCEPT") :
        l.Slot = c.Slot /\ l.Rnd = c.Rnd /\ l.Val = c.Val
=============================================================================
