------------------------------ MODULE Proposer ------------------------------
(***************************************************************************)
(* The proposers of all nodes (lab6/multipaxos/proposer.go): one action    *)
(* per branch of the run loop.  Every branch that ends in sendAccept does  *)
(* so in the same step.  A client value for a node that is not the leader  *)
(* and a promise of another round, or of a round that is done, leave the   *)
(* proposer as it is and have no action.                                   *)
(***************************************************************************)
EXTENDS Messages, SequencesExt

CONSTANTS
    Trusted,        \* what the leader detector of each node may publish
    Request,        \* the commands that clients bring to each node
    MaxBrought      \* bound: how often a command is brought to one node

ASSUME TrustedAssumption == 
    Trusted \in [Node -> SUBSET (Node \cup {NoLeader})]
ASSUME RequestAssumption == Request \in [Node -> SUBSET Value]
ASSUME MaxBroughtAssumption == MaxBrought \in Nat

VARIABLES
    crnd, adu, nextSlot,
    promises,       \* the round of the promise counted per node, or NoRound
    promiseCount,
    phaseOneDone,
    acceptsOut, requestsIn,
    leader,
    promise_slots,  \* the highest vote reported per slot, over all rounds
    min_slot,       \* the first slot of the first report, never reset
    sync_promise,   \* set when a round has its majority
    irregular       \* history: the rounds whose phase one ended a second
                    \* time, or with accepts that leave out slots above adu

phaseOneVars == <<crnd, promises, promiseCount>>
reportVars   == <<promise_slots, min_slot, irregular>>
queueVars    == <<nextSlot, acceptsOut, requestsIn>>
proposerVars == <<phaseOneVars, reportVars, queueVars,
                  adu, phaseOneDone, leader, sync_promise>>

ProposerInit ==
    /\ crnd = [p \in Node |-> p]
    /\ adu = [p \in Node |-> 0]
    /\ nextSlot = [p \in Node |-> 0]
    /\ promises = [p \in Node |-> [a \in Node |-> NoRound]]
    /\ promiseCount = [p \in Node |-> 0]
    /\ phaseOneDone = [p \in Node |-> FALSE]
    /\ acceptsOut = [p \in Node |-> <<>>]
    /\ requestsIn = [p \in Node |-> <<>>]
    /\ leader = [p \in Node |-> N - 1]      \* ld.Leader(): the highest id
    /\ promise_slots = [p \in Node |-> {}]
    /\ min_slot = [p \in Node |-> 0]
    /\ sync_promise = [p \in Node |-> FALSE]
    /\ irregular = {}

-----------------------------------------------------------------------------
\* sendAccept at p with this adu, nextSlot and these queues, in a step that
\* also takes the messages in `taken'.
alpha_pipelined == 2   \* Mutant: the slot after the undecided one is proposed too.
alpha == 1

sendAccept(p, taken, upTo, next, accs, reqs) ==
    LET may == next <= upTo + alpha /\ next <= MaxSlot
        send(c, accs1, reqs1) ==
            /\ nextSlot' = [nextSlot EXCEPT ![p] = next + 1]
            /\ acceptsOut' = [acceptsOut EXCEPT ![p] = accs1]
            /\ requestsIn' = [requestsIn EXCEPT ![p] = reqs1]
            /\ Exchange(taken, Node, {c})
    IN  \/ /\ may /\ accs # <<>>
           /\ send(Head(accs), Tail(accs), reqs)
        \/ /\ may /\ accs = <<>> /\ reqs # <<>>
           /\ send([type |-> "ACCEPT", From |-> p, Slot |-> next,
                    Rnd |-> crnd[p], Val |-> Head(reqs)], accs, Tail(reqs))
        \/ /\ ~may \/ (accs = <<>> /\ reqs = <<>>)
           /\ nextSlot' = [nextSlot EXCEPT ![p] = next]
           /\ acceptsOut' = [acceptsOut EXCEPT ![p] = accs]
           /\ requestsIn' = [requestsIn EXCEPT ![p] = reqs]
           /\ Exchange(taken, Node, {})

\* Mutant: the promises counted in the round before still count.
startPhaseOne_counting(p) ==
    /\ crnd[p] + N <= MaxRound
    /\ crnd' = [crnd EXCEPT ![p] = @ + N]
    /\ phaseOneDone' = [phaseOneDone EXCEPT ![p] = FALSE]
    /\ promises' = [promises EXCEPT ![p] = [a \in Node |-> NoRound]]
    /\ UNCHANGED promiseCount
    /\ Exchange({}, Node, {[type |-> "PREPARE", From |-> p, Slot |-> adu[p],
                            Crnd |-> crnd[p] + N]})

\* startPhaseOne at p: a new round, and a prepare from the current adu on.
startPhaseOne(p) ==
    /\ crnd[p] + N <= MaxRound
    /\ crnd' = [crnd EXCEPT ![p] = @ + N]
    /\ phaseOneDone' = [phaseOneDone EXCEPT ![p] = FALSE]
    /\ promises' = [promises EXCEPT ![p] = [a \in Node |-> NoRound]]
    /\ promiseCount' = [promiseCount EXCEPT ![p] = 0]
    /\ Exchange({}, Node, {[type |-> "PREPARE", From |-> p, Slot |-> adu[p],
                            Crnd |-> crnd[p] + N]})

\* Mutant: the first vote reported for a slot is kept.
update_promise_slots_first(held, reported) ==
    held \cup {f \in reported : \A e \in held : f.ID # e.ID}

\* update_promise_slots: a later vote replaces the one held for its slot.
update_promise_slots(held, reported) ==
    {e \in held : \A f \in reported : f.ID = e.ID => f.Vrnd <= e.Vrnd}
    \cup {f \in reported : \A e \in held : f.ID = e.ID => e.Vrnd < f.Vrnd}

\* The reports come sorted, so the first one of all has the lowest slot.
first_min_slot(held, reported, min) ==
    IF held = {} /\ reported # {} THEN Min({f.ID : f \in reported}) ELSE min

max_slot(held) == Max({0} \cup {e.ID : e \in held})

\* Mutant: the no-op is a Value{} that does not say it is one.
boundValue_zero(held, s) ==
    IF \E e \in held : e.ID = s
    THEN (CHOOSE e \in held : e.ID = s).Vval
    ELSE "Value{}"

boundValue(held, s) ==
    IF \E e \in held : e.ID = s
    THEN (CHOOSE e \in held : e.ID = s).Vval
    ELSE Noop

\* Mutant: only the slots that were reported get an accept.
create_accept_message_noGaps(p, held, min) ==
    LET bound == SetToSortSeq({e.ID : e \in {f \in held : f.ID > adu[p]}}, <)
    IN  [i \in DOMAIN bound |->
            [type |-> "ACCEPT", From |-> p, Slot |-> bound[i],
             Rnd |-> crnd[p], Val |-> boundValue(held, bound[i])]]

\* create_accept_message: one accept per slot above adu, in slot order, from
\* the lower to the upper end of the reported range; a slot nobody reported
\* gets a no-op.
create_accept_message(p, held, min) ==
    LET below == Max({min - 1, adu[p]})
    IN  [i \in 1 .. max_slot(held) - below |->
            [type |-> "ACCEPT", From |-> p, Slot |-> below + i,
             Rnd |-> crnd[p], Val |-> boundValue(held, below + i)]]

-----------------------------------------------------------------------------
\* case prm := <-p.promiseIn, with handlePromise.  It asks neither who the
\* leader is nor whether the round has had its majority before: sync_promise
\* is its only guard.
HandlePromise(p, m) ==
    LET prev  == promises[p][m.From]
        fresh == prev < m.Rnd
        held  == IF fresh THEN update_promise_slots(promise_slots[p], m.Slots)
                          ELSE promise_slots[p]
        min   == IF fresh THEN first_min_slot(promise_slots[p], m.Slots, min_slot[p])
                          ELSE min_slot[p]
        count == IF prev = NoRound THEN promiseCount[p] + 1 ELSE promiseCount[p]
        accs  == create_accept_message(p, held, min)
    IN  /\ m.Rnd = crnd[p]
        /\ ~sync_promise[p]
        /\ promises' = [promises EXCEPT ![p][m.From] = m.Rnd]
        /\ promiseCount' = [promiseCount EXCEPT ![p] = count]
        /\ promise_slots' = [promise_slots EXCEPT ![p] = held]
        /\ min_slot' = [min_slot EXCEPT ![p] = min]
        /\ \/ /\ count < quorum
              /\ Exchange({<<p, m>>}, {}, {})
              /\ UNCHANGED <<queueVars, phaseOneDone, sync_promise, irregular>>
           \/ /\ count >= quorum
              /\ sync_promise' = [sync_promise EXCEPT ![p] = TRUE]
              /\ phaseOneDone' = [phaseOneDone EXCEPT ![p] = TRUE]
              /\ irregular' = irregular \cup
                    (IF phaseOneDone[p] \/ (accs # <<>> /\ accs[1].Slot > adu[p] + 1)
                     THEN {crnd[p]} ELSE {})
              /\ sendAccept(p, {<<p, m>>}, adu[p], adu[p] + 1, accs, requestsIn[p])
        /\ UNCHANGED <<crnd, adu, leader>>

\* For the bound: how often v waits at p or was proposed by p.  The code has no
\* such count, it takes whatever cvalIn brings.
brought(p, v) ==
    Cardinality({i \in DOMAIN requestsIn[p] : requestsIn[p][i] = v})
    + Cardinality({c \in Sent("ACCEPT") : c.From = p /\ c.Val = v})

\* case cval := <-p.cvalIn, at the leader.
ClientValue(p, v) ==
    /\ leader[p] = p
    /\ brought(p, v) < MaxBrought
    /\ \/ /\ phaseOneDone[p]
          /\ sendAccept(p, {}, adu[p], nextSlot[p], acceptsOut[p],
                        Append(requestsIn[p], v))
       \/ /\ ~phaseOneDone[p]
          /\ requestsIn' = [requestsIn EXCEPT ![p] = Append(@, v)]
          /\ UNCHANGED <<nextSlot, acceptsOut, netVars>>
    /\ UNCHANGED <<phaseOneVars, reportVars, adu, phaseOneDone, leader, sync_promise>>

\* case <-p.incDcd: the server has processed one more decided value.
IncrementAllDecidedUpTo(p) ==
    /\ adu[p] < MaxSlot
    /\ adu' = [adu EXCEPT ![p] = @ + 1]
    /\ \/ /\ leader[p] = p /\ phaseOneDone[p]
          /\ sendAccept(p, {}, adu[p] + 1, nextSlot[p], acceptsOut[p], requestsIn[p])
       \/ /\ leader[p] # p \/ ~phaseOneDone[p]
          /\ UNCHANGED <<queueVars, netVars>>
    /\ UNCHANGED <<phaseOneVars, reportVars, phaseOneDone, leader, sync_promise>>

\* case <-p.phaseOneProgressTicker.C, when it starts the phase again.
PhaseOneProgressTick(p) ==
    /\ leader[p] = p /\ ~phaseOneDone[p]
    /\ startPhaseOne(p)
    /\ UNCHANGED <<reportVars, queueVars, adu, leader, sync_promise>>

\* case leader := <-trustMsgs: the leader detector publishes changes only.
Trust(p, l) ==
    /\ l # leader[p]
    /\ leader' = [leader EXCEPT ![p] = l]
    /\ sync_promise' = [sync_promise EXCEPT ![p] = FALSE]
    /\ \/ l = p /\ startPhaseOne(p)
       \/ l # p /\ UNCHANGED <<phaseOneVars, phaseOneDone, netVars>>
    /\ UNCHANGED <<reportVars, queueVars, adu>>
=============================================================================
