------------------------------ MODULE Learner -------------------------------
(***************************************************************************)
(* The learners of all nodes (lab6/multipaxos/learner.go).                 *)
(***************************************************************************)
EXTENDS Messages, Sequences

VARIABLES
    learns,         \* the values of the learns map: one Learn per key
    chosenValOut,   \* the channel to the server, and the value in the hand
                    \* of a learner that waits for room in it
    decisions       \* history: what was decided, with the round it was decided in

learnerVars == <<learns, chosenValOut, decisions>>

DecidedValue == [SlotID : SlotID, Value : AnyValue]

ChosenValCap == 1   \* start_application.go:26

LearnerInit ==
    /\ learns = [n \in Node |-> {}]
    /\ chosenValOut = [n \in Node |-> <<>>]
    /\ decisions = [n \in Node |-> {}]

\* string(i) of an int is the one character with that code point; what is no
\* code point (a surrogate, or too large) becomes U+FFFD.
runeOf(i) == IF i < 55296 \/ (57343 < i /\ i < 1114112) THEN i ELSE 65533

keyOf(l) == <<runeOf(l.From), runeOf(l.Slot)>>

\* A learn replaces the one under its key only when its round is higher.
store(S, l) ==
    LET held == {k \in S : keyOf(k) = keyOf(l)}
    IN  IF \A k \in held : l.Rnd > k.Rnd THEN (S \ held) \cup {l} ELSE S

\* Mutant: the rounds are not told apart (no check_if_maj_round).
majorities_anyRound(S) ==
    {D \in {{k \in S : k.Slot = l.Slot} : l \in S} : IsQuorum(D)}

\* The learns of a slot and round that a majority of nodes sent.
majorities(S) ==
    {D \in {{k \in S : k.Rnd = l.Rnd /\ k.Slot = l.Slot} : l \in S} : IsQuorum(D)}

remove_learn_none(S, D) == S   \* Mutant: the learns stay when they decided.
remove_learn(S, D) == S \ D

\* round_slot_val: the value last met under the characters of round and slot.
valuesFor(S, l) ==
    {k.Val : k \in {j \in S : /\ runeOf(j.Rnd) = runeOf(l.Rnd)
                              /\ runeOf(j.Slot) = runeOf(l.Slot)}}

\* handleLearn, and the blocking send of its result: a map is walked in any
\* order, the learns of the decided slot and round are removed, and no other.
handleLearn(n, m) ==
    LET S == store(learns[n], m)
    IN  /\ Len(chosenValOut[n]) <= ChosenValCap
        /\ Exchange({<<n, m>>}, {}, {})
        /\ \/ /\ majorities(S) = {}
              /\ learns' = [learns EXCEPT ![n] = S]
              /\ UNCHANGED <<chosenValOut, decisions>>
           \/ \E D \in majorities(S), l \in S :
                /\ l \in D
                /\ learns' = [learns EXCEPT ![n] = remove_learn(S, D)]
                /\ \E val \in valuesFor(S, l) :
                      /\ chosenValOut' = [chosenValOut EXCEPT ![n] =
                             Append(@, [SlotID |-> l.Slot, Value |-> val])]
                      /\ decisions' = [decisions EXCEPT ![n] =
                             @ \cup {[Slot |-> l.Slot, Rnd |-> l.Rnd, Val |-> val]}]

-----------------------------------------------------------------------------
\* What a learner reports as the decided value of a slot was voted for by a
\* majority, in that slot and in one round (learner.go:98-102, "sid the id for
\* the slot that was decided and val contain the decided value").
DecisionsHaveMajority ==
    \A n \in Node : \A d \in decisions[n] :
        IsQuorum({l.From : l \in {k \in Sent("LEARN") :
                      k.Slot = d.Slot /\ k.Rnd = d.Rnd /\ k.Val = d.Val}})
=============================================================================
