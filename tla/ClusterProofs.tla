--------------------------- MODULE ClusterProofs ----------------------------
(***************************************************************************)
(* The protocol and the application, for every number of nodes, every set  *)
(* of commands and all bounds.  Of the protocol (Spec): what the acceptors *)
(* guarantee among arbitrary proposers and on any network; then, with the  *)
(* proposers, the types, that the acceptors are those of AcceptorSpec and  *)
(* the majorities of promises behind every proposal; and, as long as no    *)
(* round is irregular, that a slot is proposed with one value per round,   *)
(* that a proposal rules out every other choice of the rounds below it,    *)
(* that no two majorities disagree and that the chosen values are a        *)
(* growing log.  Of the application (ClusterSpec): that it implements the  *)
(* protocol whatever the learners and the servers do, so that all of this  *)
(* holds of it, and what holds of protocol, learners and servers together. *)
(***************************************************************************)
EXTENDS Cluster, ServerProofs

-----------------------------------------------------------------------------
\* The acceptors among arbitrary proposers.
AcceptorInv ==
    /\ AcceptorTypeOK
    /\ SlotsHoldLastVote
    /\ VotesAnswerAccepts
    /\ ReportedVotesWereCast
    /\ PromiseReportsVotes

Vote(m) == [ID |-> m.Slot, Vrnd |-> m.Rnd, Vval |-> m.Val]

PromiseFor(a, m) ==
    [type |-> "PROMISE", To |-> m.From, From |-> a, Rnd |-> m.Crnd,
     Slots |-> {e \in slots[a] : e.ID >= m.Slot}]

LearnFor(a, m) ==
    [type |-> "LEARN", From |-> a, Slot |-> m.Slot, Rnd |-> m.Rnd, Val |-> m.Val]

-----------------------------------------------------------------------------
\* The kind of a message tells which set it is in.
LEMMA KindOfMessage ==
    ASSUME AcceptorTypeOK, NEW m \in sent
    PROVE  /\ m.type = "PREPARE" => m \in Prepare
           /\ m.type = "PROMISE" => m \in Promise
           /\ m.type = "ACCEPT" => m \in Accept
           /\ m.type = "LEARN" => m \in Learn
BY DEF AcceptorTypeOK, Prepare, Promise, Accept, Learn

\* Recording a vote keeps one vote per slot, keeps or betters what is known of
\* every slot, and brings in no vote but the new one.
LEMMA RecordedVotes ==
    ASSUME NEW S, PerSlot(S), S \subseteq PromiseSlot, NEW vote \in PromiseSlot
    PROVE  /\ PerSlot(Recorded(S, vote))
           /\ Recorded(S, vote) \subseteq S \cup {vote}
           /\ \A e \in S : \E f \in Recorded(S, vote) : f.ID = e.ID /\ f.Vrnd >= e.Vrnd
           /\ \E f \in Recorded(S, vote) : f.ID = vote.ID /\ f.Vrnd >= vote.Vrnd
BY DEF Recorded, PerSlot, PromiseSlot, Round, SlotID

LEMMA InitInv == AcceptorInit /\ NetInit => AcceptorInv
BY DEF AcceptorInit, NetInit, AcceptorInv, AcceptorTypeOK, SlotsHoldLastVote,
       VotesAnswerAccepts, ReportedVotesWereCast, PromiseReportsVotes, Sent,
       PerSlot, NoRound

-----------------------------------------------------------------------------
\* A prepare that is answered.
LEMMA PrepareStep ==
    ASSUME AcceptorInv, NEW a \in Node, NEW m \in Waiting(a, "PREPARE"),
           handlePrepare(a, m)
    PROVE  AcceptorInv'
<1> DEFINE p == PromiseFor(a, m)
<1> USE DEF AcceptorInv
<1>1. m \in Prepare /\ m \in sent /\ m.type = "PREPARE"
  BY KindOfMessage DEF Waiting
<1>2. /\ m.Crnd \in Round /\ m.Slot \in SlotID /\ m.From \in Node
      /\ accepted_rounds[a] < m.Crnd
      /\ accepted_rounds \in [Node -> Round \cup {NoRound}]
      /\ slots \in [Node -> SUBSET PromiseSlot]
  BY <1>1 DEF Prepare, handlePrepare, AcceptorTypeOK
<1>3. /\ accepted_rounds' = [accepted_rounds EXCEPT ![a] = m.Crnd]
      /\ slots' = slots
      /\ sent' = sent \cup {p}
      /\ net' = (net \ {<<a, m>>}) \cup ({m.From} \X {p})
  BY DEF handlePrepare, Exchange, PromiseFor
<1>4. p \in Promise /\ p.type = "PROMISE" /\ p.To = m.From /\ p.From = a
      /\ p.Rnd = m.Crnd /\ p.Slots = {e \in slots[a] : e.ID >= m.Slot}
  BY <1>2 DEF PromiseFor, Promise
<1>5. /\ Sent("LEARN")' = Sent("LEARN")
      /\ Sent("ACCEPT")' = Sent("ACCEPT")
      /\ Sent("PREPARE")' = Sent("PREPARE")
      /\ Sent("PROMISE")' = Sent("PROMISE") \cup {p}
  BY <1>3, <1>4 DEF Sent
<1>6. AcceptorTypeOK'
  BY <1>2, <1>3, <1>4 DEF AcceptorTypeOK
<1>7. VotesAnswerAccepts'
  BY <1>5 DEF VotesAnswerAccepts
<1>8. /\ \A l \in Sent("LEARN") : l \in Learn
      /\ \A q \in Sent("PROMISE") : q \in Promise
  BY KindOfMessage DEF Sent
<1>9. SlotsHoldLastVote'
  <2>1. \A l \in Sent("LEARN") : l.Rnd <= accepted_rounds'[l.From]
    BY <1>2, <1>3, <1>8 DEF SlotsHoldLastVote, Learn, Round, NoRound
  <2>2. \A q \in Sent("PROMISE") \cup {p} : q.Rnd <= accepted_rounds'[q.From]
    BY <1>2, <1>3, <1>4, <1>8 DEF SlotsHoldLastVote, Promise, Round, NoRound
  <2> QED BY <1>3, <1>5, <2>1, <2>2 DEF SlotsHoldLastVote
<1>10. ReportedVotesWereCast'
  <2>1. PerSlot(p.Slots)
    BY <1>4 DEF SlotsHoldLastVote, PerSlot
  <2>2. ASSUME NEW e \in p.Slots
        PROVE  /\ e.Vrnd < p.Rnd
               /\ \E l \in Sent("LEARN") :
                    /\ l.From = p.From
                    /\ l.Slot = e.ID /\ l.Rnd = e.Vrnd /\ l.Val = e.Vval
    <3>1. PICK l \in Sent("LEARN") :
             l.From = a /\ l.Slot = e.ID /\ l.Rnd = e.Vrnd /\ l.Val = e.Vval
      BY <1>4 DEF SlotsHoldLastVote
    <3>2. l.Rnd <= accepted_rounds[a] /\ l.Rnd \in Round
      BY <1>8, <3>1 DEF SlotsHoldLastVote, Learn
    <3> QED BY <1>2, <1>4, <3>1, <3>2 DEF Round, NoRound
  <2> QED BY <1>5, <2>1, <2>2 DEF ReportedVotesWereCast
<1>11. PromiseReportsVotes'
  <2>1. m \in Sent("PREPARE")
    BY <1>1 DEF Sent
  <2>2. ASSUME NEW l \in Sent("LEARN"), l.From = a, l.Slot >= m.Slot
        PROVE  \E e \in p.Slots : e.ID = l.Slot /\ e.Vrnd >= l.Rnd
    BY <1>4, <2>2 DEF SlotsHoldLastVote
  <2> QED BY <1>4, <1>5, <2>1, <2>2 DEF PromiseReportsVotes
<1> QED BY <1>6, <1>7, <1>9, <1>10, <1>11

\* An accept that is voted for.
LEMMA AcceptStep ==
    ASSUME AcceptorInv, NEW a \in Node, NEW m \in Waiting(a, "ACCEPT"),
           handleAccept(a, m)
    PROVE  AcceptorInv'
<1> DEFINE k == LearnFor(a, m)
<1> USE DEF AcceptorInv
<1>1. m \in Accept /\ m \in sent /\ m.type = "ACCEPT"
  BY KindOfMessage DEF Waiting
<1>2. /\ m.Rnd \in Round /\ m.Slot \in SlotID /\ m.Val \in AnyValue
      /\ accepted_rounds[a] <= m.Rnd
      /\ accepted_rounds \in [Node -> Round \cup {NoRound}]
      /\ slots \in [Node -> SUBSET PromiseSlot]
      /\ Vote(m) \in PromiseSlot
  BY <1>1 DEF Accept, handleAccept, AcceptorTypeOK, Vote, PromiseSlot
<1>3. /\ accepted_rounds' = [accepted_rounds EXCEPT ![a] = m.Rnd]
      /\ slots' = [slots EXCEPT ![a] = Recorded(slots[a], Vote(m))]
      /\ sent' = sent \cup {k}
      /\ net' = (net \ {<<a, m>>}) \cup (Node \X {k})
  BY DEF handleAccept, Exchange, LearnFor, Vote
<1>4. k \in Learn /\ k.type = "LEARN" /\ k.From = a /\ k.Slot = m.Slot
      /\ k.Rnd = m.Rnd /\ k.Val = m.Val
  BY <1>2 DEF LearnFor, Learn
<1>5. /\ Sent("LEARN")' = Sent("LEARN") \cup {k}
      /\ Sent("ACCEPT")' = Sent("ACCEPT")
      /\ Sent("PREPARE")' = Sent("PREPARE")
      /\ Sent("PROMISE")' = Sent("PROMISE")
  BY <1>3, <1>4 DEF Sent
<1>6. /\ PerSlot(Recorded(slots[a], Vote(m)))
      /\ Recorded(slots[a], Vote(m)) \subseteq slots[a] \cup {Vote(m)}
      /\ \A e \in slots[a] : \E f \in Recorded(slots[a], Vote(m)) :
             f.ID = e.ID /\ f.Vrnd >= e.Vrnd
      /\ \E f \in Recorded(slots[a], Vote(m)) : f.ID = m.Slot /\ f.Vrnd >= m.Rnd
  <2>1. PerSlot(slots[a]) /\ slots[a] \subseteq PromiseSlot
    BY <1>2 DEF SlotsHoldLastVote
  <2>2. Vote(m).ID = m.Slot /\ Vote(m).Vrnd = m.Rnd
    BY DEF Vote
  <2> QED BY <1>2, <2>1, <2>2, RecordedVotes
<1>7. AcceptorTypeOK'
  BY <1>2, <1>3, <1>4, <1>6 DEF AcceptorTypeOK
<1>8. /\ \A l \in Sent("LEARN") : l \in Learn
      /\ \A q \in Sent("PROMISE") : q \in Promise
  BY KindOfMessage DEF Sent
<1>9. VotesAnswerAccepts'
  BY <1>1, <1>4, <1>5 DEF VotesAnswerAccepts, Sent
<1>10. SlotsHoldLastVote'
  <2>1. ASSUME NEW b \in Node
        PROVE  /\ PerSlot(slots'[b])
               /\ \A e \in slots'[b] : \E l \in Sent("LEARN")' : l.From = b
                     /\ l.Slot = e.ID /\ l.Rnd = e.Vrnd /\ l.Val = e.Vval
    <3>1. CASE b # a
      BY <1>2, <1>3, <1>5, <3>1 DEF SlotsHoldLastVote
    <3>2. CASE b = a
      <4>1. slots'[a] \subseteq slots[a] \cup {Vote(m)} /\ PerSlot(slots'[a])
        BY <1>2, <1>3, <1>6
      <4>2. \A e \in slots[a] : \E l \in Sent("LEARN") : l.From = a
                     /\ l.Slot = e.ID /\ l.Rnd = e.Vrnd /\ l.Val = e.Vval
        BY DEF SlotsHoldLastVote
      <4>3. k \in Sent("LEARN")' /\ k.Slot = Vote(m).ID /\ k.Rnd = Vote(m).Vrnd
            /\ k.Val = Vote(m).Vval
        BY <1>4, <1>5 DEF Vote
      <4> QED BY <1>4, <1>5, <3>2, <4>1, <4>2, <4>3
    <3> QED BY <3>1, <3>2
  <2>2. ASSUME NEW l \in Sent("LEARN")'
        PROVE  /\ l.Rnd <= accepted_rounds'[l.From]
               /\ \E e \in slots'[l.From] : e.ID = l.Slot /\ e.Vrnd >= l.Rnd
    <3>1. CASE l = k
      BY <1>2, <1>3, <1>4, <1>6, <3>1 DEF Round
    <3>2. CASE l \in Sent("LEARN")
      <4>1. l \in Learn /\ l.Rnd <= accepted_rounds[l.From]
        BY <1>8, <3>2 DEF SlotsHoldLastVote
      <4>2. PICK e \in slots[l.From] : e.ID = l.Slot /\ e.Vrnd >= l.Rnd
        BY <3>2 DEF SlotsHoldLastVote
      <4>3. e \in PromiseSlot
        BY <1>2, <4>1, <4>2 DEF Learn
      <4>4. l.Rnd <= accepted_rounds'[l.From]
        BY <1>2, <1>3, <4>1 DEF Learn, Round, NoRound
      <4>5. CASE l.From # a
        BY <1>2, <1>3, <4>1, <4>2, <4>4, <4>5 DEF Learn
      <4>6. CASE l.From = a
        <5>1. PICK f \in Recorded(slots[a], Vote(m)) : f.ID = e.ID /\ f.Vrnd >= e.Vrnd
          BY <1>6, <4>2, <4>6
        <5>2. f \in PromiseSlot /\ f \in slots'[a]
          BY <1>2, <1>3, <1>6, <5>1
        <5> QED BY <4>1, <4>2, <4>3, <4>4, <4>6, <5>1, <5>2
                DEF Learn, PromiseSlot, Round
      <4> QED BY <4>5, <4>6
    <3> QED BY <1>5, <3>1, <3>2
  <2>3. \A q \in Sent("PROMISE") : q.Rnd <= accepted_rounds'[q.From]
    BY <1>2, <1>3, <1>8 DEF SlotsHoldLastVote, Promise, Round, NoRound
  <2> QED BY <1>5, <2>1, <2>2, <2>3 DEF SlotsHoldLastVote
<1>11. ReportedVotesWereCast'
  BY <1>5 DEF ReportedVotesWereCast
<1>12. PromiseReportsVotes'
  <2>1. ASSUME NEW q \in Sent("PROMISE"), q.From = a
        PROVE  ~ (m.Rnd < q.Rnd)
    <3>1. q \in Promise /\ q.Rnd <= accepted_rounds[a]
      BY <1>8, <2>1 DEF SlotsHoldLastVote
    <3> QED BY <1>2, <3>1 DEF Promise, Round, NoRound
  <2> QED BY <1>4, <1>5, <2>1 DEF PromiseReportsVotes
<1> QED BY <1>7, <1>9, <1>10, <1>11, <1>12

\* Whatever proposers and the network do.
LEMMA EnvironmentStep ==
    ASSUME AcceptorInv, Environment
    PROVE  AcceptorInv'
<1> USE DEF AcceptorInv, Environment, acceptorVars
<1>1. /\ Sent("LEARN")' = Sent("LEARN")
      /\ Sent("PROMISE")' = Sent("PROMISE")
      /\ Sent("ACCEPT") \subseteq Sent("ACCEPT")'
      /\ Sent("PREPARE") \subseteq Sent("PREPARE")'
  BY DEF Sent, Prepare, Accept
<1>2. AcceptorTypeOK'
  BY DEF AcceptorTypeOK
<1>3. SlotsHoldLastVote'
  BY <1>1 DEF SlotsHoldLastVote
<1>4. VotesAnswerAccepts'
  BY <1>1 DEF VotesAnswerAccepts
<1>5. ReportedVotesWereCast'
  BY <1>1 DEF ReportedVotesWereCast
<1>6. PromiseReportsVotes'
  BY <1>1 DEF PromiseReportsVotes
<1> QED BY <1>2, <1>3, <1>4, <1>5, <1>6

-----------------------------------------------------------------------------
\* The invariant holds in every behaviour of the acceptors.
THEOREM AcceptorInvariance == AcceptorSpec => []AcceptorInv
<1>1. AcceptorInit /\ NetInit => AcceptorInv
  BY InitInv
<1>2. AcceptorInv /\ [Environment \/ AcceptorNext]_acceptorSystem => AcceptorInv'
  <2> SUFFICES ASSUME AcceptorInv, [Environment \/ AcceptorNext]_acceptorSystem
               PROVE  AcceptorInv'
    OBVIOUS
  <2>1. CASE AcceptorNext
    BY <2>1, PrepareStep, AcceptStep DEF AcceptorNext
  <2>2. CASE Environment
    BY <2>2, EnvironmentStep
  <2>3. CASE UNCHANGED acceptorSystem
    BY <2>3 DEF acceptorSystem, acceptorVars, netVars, AcceptorInv, AcceptorTypeOK,
            SlotsHoldLastVote, VotesAnswerAccepts, ReportedVotesWereCast,
            PromiseReportsVotes, Sent
  <2> QED BY <2>1, <2>2, <2>3
<1> QED BY <1>1, <1>2, PTL DEF AcceptorSpec

\* Acceptors, promises and votes have the types of defs.go (acceptor.go).
THEOREM AcceptorTypes == AcceptorSpec => []AcceptorTypeOK
BY AcceptorInvariance, PTL DEF AcceptorInv

\* A promise reports the votes it has to, cast before it or after, whatever the
\* proposers and the network do.
THEOREM PromisesReport == AcceptorSpec => []PromiseReportsVotes
BY AcceptorInvariance, PTL DEF AcceptorInv

\* What a promise reports was voted for, below the promised round.
THEOREM ReportsAreTrue == AcceptorSpec => []ReportedVotesWereCast
BY AcceptorInvariance, PTL DEF AcceptorInv

-----------------------------------------------------------------------------
\* Acceptors and proposers.
ProposerTypeOK ==
    /\ crnd \in [Node -> Round]
    /\ adu \in [Node -> SlotID]
    /\ nextSlot \in [Node -> 0 .. MaxSlot + 1]
    /\ promises \in [Node -> [Node -> Round \cup {NoRound}]]
    /\ promiseCount \in [Node -> Nat]
    /\ phaseOneDone \in [Node -> BOOLEAN]
    /\ acceptsOut \in [Node -> Seq(Accept)]
    /\ requestsIn \in [Node -> Seq(Value)]
    /\ leader \in [Node -> Node \cup {NoLeader}]
    /\ promise_slots \in [Node -> SUBSET PromiseSlot]
    /\ min_slot \in [Node -> SlotID]
    /\ sync_promise \in [Node -> BOOLEAN]
    /\ irregular \subseteq Round

\* What a proposer does to the messages: it adds prepares and accepts.
Proposes ==
    /\ sent \subseteq sent'
    /\ sent' \ sent \subseteq Prepare \cup Accept
    /\ net' \subseteq Node \X sent'
    /\ net' \ net \subseteq Node \X (Prepare \cup Accept)

-----------------------------------------------------------------------------
\* Least and greatest elements: of naturals, of a bounded set, of two numbers.
Less == {ss \in Nat \X Nat : ss[1] < ss[2]}

LEMMA LessIsWellFounded == IsWellFoundedOn(Less, Nat)
BY NatLessThanWellFounded DEF OpToRel, Less

LEMMA LeastOf ==
    ASSUME NEW S, S \subseteq Nat, S # {}
    PROVE  Min(S) \in S /\ \A y \in S : Min(S) <= y
<1>1. PICK x \in S : \A y \in S : ~ (<<y, x>> \in Less)
  BY WFMin, LessIsWellFounded
<1>2. \A y \in S : x <= y
  <2>1. \A y \in S : ~ (y < x)
    BY <1>1 DEF Less
  <2> QED BY <2>1
<1> QED BY <1>2 DEF Min

LEMMA GreatestOf ==
    ASSUME NEW n \in Nat, NEW S, S \subseteq 0 .. n, S # {}
    PROVE  Max(S) \in S /\ \A y \in S : Max(S) >= y
<1> DEFINE T == {n - s : s \in S}
<1>1. T \subseteq Nat
  BY SMT
<1>2. T # {}
  OBVIOUS
<1>3. Min(T) \in T /\ \A u \in T : Min(T) <= u
  <2> HIDE DEF T
  <2> QED BY <1>1, <1>2, LeastOf
<1>4. PICK x \in S : Min(T) = n - x
  BY <1>3
<1>5. \A y \in S : x >= y
  <2> TAKE y \in S
  <2>1. n - x <= n - y
    BY <1>3, <1>4
  <2>2. x \in Nat /\ y \in Nat
    OBVIOUS
  <2> QED BY <2>1, <2>2
<1> QED BY <1>5 DEF Max

LEMMA GreaterOfTwo ==
    ASSUME NEW a \in Int, NEW b \in Int, NEW S, S = {a, b}
    PROVE  Max(S) \in Int /\ Max(S) >= a /\ Max(S) >= b
<1>1. \E x \in S : \A y \in S : x >= y
  OBVIOUS
<1>2. Max(S) \in S /\ \A y \in S : Max(S) >= y
  BY <1>1 DEF Max
<1> QED BY <1>2

-----------------------------------------------------------------------------
\* The reports a proposer holds, and the accepts it makes of them.
LEMMA HeldReports ==
    ASSUME NEW held \in SUBSET PromiseSlot, NEW reported \in SUBSET PromiseSlot,
           NEW min \in SlotID
    PROVE  /\ update_promise_slots(held, reported) \in SUBSET PromiseSlot
           /\ first_min_slot(held, reported, min) \in SlotID
<1>1. update_promise_slots(held, reported) \in SUBSET PromiseSlot
  BY DEF update_promise_slots
<1>2. first_min_slot(held, reported, min) \in SlotID
  <2>1. CASE held = {} /\ reported # {}
    <3> DEFINE S == {f.ID : f \in reported}
    <3>1. S \subseteq SlotID /\ S # {}
      BY <2>1 DEF PromiseSlot
    <3>2. S \subseteq Nat
      BY <3>1, BoundAssumption DEF SlotID
    <3>3. Min(S) \in S
      <4> HIDE DEF S
      <4> QED BY <3>1, <3>2, LeastOf
    <3> QED BY <2>1, <3>1, <3>3 DEF first_min_slot
  <2> QED BY <2>1 DEF first_min_slot
<1> QED BY <1>1, <1>2

LEMMA BoundAccepts ==
    ASSUME NEW p \in Node, NEW held \in SUBSET PromiseSlot, NEW min \in SlotID,
           crnd[p] \in Round, adu[p] \in SlotID
    PROVE  /\ create_accept_message(p, held, min) \in Seq(Accept)
           /\ \A i \in DOMAIN create_accept_message(p, held, min) :
                 LET c == create_accept_message(p, held, min)[i]
                 IN  c.From = p /\ c.Rnd = crnd[p]
<1> DEFINE S == {0} \cup {e.ID : e \in held}
           below == Max({min - 1, adu[p]})
           len == max_slot(held) - below
           acc(i) == [type |-> "ACCEPT", From |-> p, Slot |-> below + i,
                      Rnd |-> crnd[p], Val |-> boundValue(held, below + i)]
<1>1. max_slot(held) \in SlotID
  <2>1. S \subseteq 0 .. MaxSlot /\ S # {} /\ MaxSlot \in Nat
    BY BoundAssumption DEF PromiseSlot, SlotID
  <2> QED BY <2>1, GreatestOf DEF max_slot, SlotID
<1>2. below \in Int /\ below >= 0
  <2> DEFINE low == min - 1
             Two == {low, adu[p]}
  <2>1. low \in Int /\ adu[p] \in Int /\ adu[p] >= 0
    BY DEF SlotID
  <2>2. below = Max(Two)
    OBVIOUS
  <2> HIDE DEF low
  <2>3. Max(Two) \in Int /\ Max(Two) >= adu[p]
    <3>1. Two = {low, adu[p]}
      OBVIOUS
    <3> HIDE DEF Two
    <3> QED BY <2>1, <3>1, GreaterOfTwo
  <2> HIDE DEF Two, below
  <2> QED BY <2>1, <2>2, <2>3
<1>3. create_accept_message(p, held, min) = [i \in 1 .. len |-> acc(i)]
  BY DEF create_accept_message
<1> HIDE DEF below
<1>4. ASSUME NEW i \in 1 .. len
      PROVE  acc(i) \in Accept
  <2>1. below + i \in SlotID
    <3>1. i \in Int /\ 1 <= i /\ i <= max_slot(held) - below
      BY <1>1, <1>2 DEF SlotID
    <3> QED BY <1>1, <1>2, <3>1, BoundAssumption DEF SlotID
  <2>2. boundValue(held, below + i) \in AnyValue
    BY DEF boundValue, PromiseSlot, AnyValue
  <2> QED BY <2>1, <2>2 DEF Accept
<1> HIDE DEF acc
<1>5. [i \in 1 .. len |-> acc(i)] \in Seq(Accept)
  <2>1. PICK n \in Nat : 1 .. len = 1 .. n
    <3>1. len \in Int
      BY <1>1, <1>2 DEF SlotID
    <3> HIDE DEF len
    <3>2. CASE len >= 0
      BY <3>1, <3>2
    <3>3. CASE len < 0
      <4>1. 1 .. len = 1 .. 0
        BY <3>1, <3>3
      <4> QED BY <4>1
    <3> QED BY <3>1, <3>2, <3>3
  <2>2. [i \in 1 .. len |-> acc(i)] \in [1 .. n -> Accept]
    BY <1>4, <2>1
  <2>3. Seq(Accept) = UNION {[1 .. k -> Accept] : k \in Nat}
    BY SeqDef
  <2> QED BY <2>2, <2>3, Zenon
<1>6. \A i \in 1 .. len : acc(i).From = p /\ acc(i).Rnd = crnd[p]
  BY DEF acc
<1> HIDE DEF len
<1> QED BY <1>3, <1>5, <1>6

\* An outcome of sendAccept: what it sends, and the queues and slot it leaves.
Sends(p, taken, accs, M, rest, left, up) ==
    /\ nextSlot' = [nextSlot EXCEPT ![p] = up] /\ up \in 0 .. MaxSlot + 1
    /\ acceptsOut' = [acceptsOut EXCEPT ![p] = rest]
    /\ rest \in Seq(Accept) /\ rest \in {accs, Tail(accs)}
    /\ requestsIn' = [requestsIn EXCEPT ![p] = left] /\ left \in Seq(Value)
    /\ Exchange(taken, Node, M)
    /\ M \in SUBSET Accept
    /\ \A c \in M :
          \/ c.From = p /\ c.Rnd = crnd[p]
          \/ accs # << >> /\ c = Head(accs)

LEMMA SendAcceptOutcome ==
    ASSUME NEW p \in Node, crnd[p] \in Round, NEW taken, NEW upTo,
           NEW next \in 0 .. MaxSlot + 1, NEW accs \in Seq(Accept),
           NEW reqs \in Seq(Value), sendAccept(p, taken, upTo, next, accs, reqs)
    PROVE  \E M, rest, left, up : Sends(p, taken, accs, M, rest, left, up)
<1> DEFINE new == [type |-> "ACCEPT", From |-> p, Slot |-> next,
                   Rnd |-> crnd[p], Val |-> Head(reqs)]
<1>0. next <= MaxSlot => next + 1 \in 0 .. MaxSlot + 1 /\ next \in SlotID
  BY BoundAssumption DEF SlotID
<1>1. CASE /\ next <= MaxSlot /\ accs # << >>
           /\ nextSlot' = [nextSlot EXCEPT ![p] = next + 1]
           /\ acceptsOut' = [acceptsOut EXCEPT ![p] = Tail(accs)]
           /\ requestsIn' = [requestsIn EXCEPT ![p] = reqs]
           /\ Exchange(taken, Node, {Head(accs)})
  <2>1. Head(accs) \in Accept /\ Tail(accs) \in Seq(Accept)
    BY <1>1, HeadTailProperties
  <2>2. Sends(p, taken, accs, {Head(accs)}, Tail(accs), reqs, next + 1)
    BY <1>0, <1>1, <2>1 DEF Sends
  <2> QED BY <2>2
<1>2. CASE /\ next <= MaxSlot /\ reqs # << >>
           /\ nextSlot' = [nextSlot EXCEPT ![p] = next + 1]
           /\ acceptsOut' = [acceptsOut EXCEPT ![p] = accs]
           /\ requestsIn' = [requestsIn EXCEPT ![p] = Tail(reqs)]
           /\ Exchange(taken, Node, {new})
  <2>1. Head(reqs) \in Value /\ Tail(reqs) \in Seq(Value)
    BY <1>2, HeadTailProperties
  <2>2. new \in Accept /\ new.From = p /\ new.Rnd = crnd[p]
    BY <1>0, <1>2, <2>1 DEF Accept, AnyValue
  <2> HIDE DEF new
  <2>3. {new} \in SUBSET Accept /\ \A c \in {new} : c.From = p /\ c.Rnd = crnd[p]
    BY <2>2
  <2>4. Sends(p, taken, accs, {new}, accs, Tail(reqs), next + 1)
    BY <1>0, <1>2, <2>1, <2>3 DEF Sends
  <2> QED BY <2>4
<1>3. CASE /\ nextSlot' = [nextSlot EXCEPT ![p] = next]
           /\ acceptsOut' = [acceptsOut EXCEPT ![p] = accs]
           /\ requestsIn' = [requestsIn EXCEPT ![p] = reqs]
           /\ Exchange(taken, Node, {})
  <2>1. Sends(p, taken, accs, {}, accs, reqs, next)
    BY <1>3 DEF Sends
  <2> QED BY <2>1
<1> QED BY <1>1, <1>2, <1>3 DEF sendAccept

LEMMA SendsTypes ==
    ASSUME AcceptorTypeOK, ProposerTypeOK, NEW p \in Node, NEW taken,
           NEW accs, NEW M, NEW rest, NEW left, NEW up,
           Sends(p, taken, accs, M, rest, left, up)
    PROVE  /\ nextSlot' \in [Node -> 0 .. MaxSlot + 1]
           /\ requestsIn' \in [Node -> Seq(Value)]
           /\ acceptsOut' \in [Node -> Seq(Accept)]
           /\ Proposes
<1>1. /\ nextSlot' \in [Node -> 0 .. MaxSlot + 1]
      /\ requestsIn' \in [Node -> Seq(Value)]
      /\ acceptsOut' \in [Node -> Seq(Accept)]
  BY DEF Sends, ProposerTypeOK
<1>2. Proposes
  BY DEF Proposes, Sends, Exchange, AcceptorTypeOK
<1> QED BY <1>1, <1>2

-----------------------------------------------------------------------------
\* One lemma per action of the proposer: the types, and what it does to the
\* messages.
LEMMA StartPhaseOneTypes ==
    ASSUME AcceptorTypeOK, ProposerTypeOK, NEW p \in Node, startPhaseOne(p)
    PROVE  /\ crnd' \in [Node -> Round]
           /\ phaseOneDone' \in [Node -> BOOLEAN]
           /\ promises' \in [Node -> [Node -> Round \cup {NoRound}]]
           /\ promiseCount' \in [Node -> Nat]
           /\ Proposes
<1> DEFINE prepare == [type |-> "PREPARE", From |-> p, Slot |-> adu[p],
                       Crnd |-> crnd[p] + N]
<1>1. crnd[p] + N \in Round /\ adu[p] \in SlotID
  BY NAssumption, BoundAssumption DEF startPhaseOne, ProposerTypeOK, Round
<1>2. prepare \in Prepare
  BY <1>1 DEF Prepare
<1>3. Proposes
  <2>1. Exchange({}, Node, {prepare})
    BY DEF startPhaseOne
  <2> HIDE DEF prepare
  <2> QED BY <1>2, <2>1 DEF Proposes, Exchange, AcceptorTypeOK
<1> QED BY <1>1, <1>3 DEF startPhaseOne, ProposerTypeOK

LEMMA HandlePromiseTypes ==
    ASSUME AcceptorTypeOK, ProposerTypeOK, NEW p \in Node,
           NEW m \in Waiting(p, "PROMISE"), HandlePromise(p, m)
    PROVE  ProposerTypeOK' /\ Proposes
<1> DEFINE prev  == promises[p][m.From]
           fresh == prev < m.Rnd
           held  == IF fresh THEN update_promise_slots(promise_slots[p], m.Slots)
                             ELSE promise_slots[p]
           min   == IF fresh THEN first_min_slot(promise_slots[p], m.Slots, min_slot[p])
                             ELSE min_slot[p]
           count == IF prev = NoRound THEN promiseCount[p] + 1 ELSE promiseCount[p]
           accs  == create_accept_message(p, held, min)
<1>1. m \in Promise
  BY KindOfMessage DEF Waiting
<1>2. /\ m.From \in Node /\ m.Rnd \in Round /\ m.Slots \in SUBSET PromiseSlot
  BY <1>1 DEF Promise
<1>3. held \in SUBSET PromiseSlot /\ min \in SlotID
  BY <1>2, HeldReports DEF ProposerTypeOK
<1>4. count \in Nat
  BY DEF ProposerTypeOK
<1>5. accs \in Seq(Accept)
  <2>1. crnd[p] \in Round /\ adu[p] \in SlotID
    BY DEF ProposerTypeOK
  <2> HIDE DEF held, min
  <2> QED BY <1>3, <2>1, BoundAccepts
<1>6. /\ m.Rnd = crnd[p]
      /\ promises' = [promises EXCEPT ![p][m.From] = m.Rnd]
      /\ promiseCount' = [promiseCount EXCEPT ![p] = count]
      /\ promise_slots' = [promise_slots EXCEPT ![p] = held]
      /\ min_slot' = [min_slot EXCEPT ![p] = min]
      /\ UNCHANGED <<crnd, adu, leader>>
  BY DEF HandlePromise
<1>7. \/ /\ Exchange({<<p, m>>}, {}, {})
         /\ UNCHANGED <<queueVars, phaseOneDone, sync_promise, irregular>>
      \/ /\ sync_promise' = [sync_promise EXCEPT ![p] = TRUE]
         /\ phaseOneDone' = [phaseOneDone EXCEPT ![p] = TRUE]
         /\ irregular' \subseteq irregular \cup {crnd[p]}
         /\ sendAccept(p, {<<p, m>>}, adu[p], adu[p] + 1, accs, requestsIn[p])
  BY DEF HandlePromise
<1> HIDE DEF held, min, count, accs
<1>8. /\ crnd' \in [Node -> Round] /\ adu' \in [Node -> SlotID]
      /\ promises' \in [Node -> [Node -> Round \cup {NoRound}]]
      /\ promiseCount' \in [Node -> Nat]
      /\ promise_slots' \in [Node -> SUBSET PromiseSlot]
      /\ min_slot' \in [Node -> SlotID]
      /\ leader' \in [Node -> Node \cup {NoLeader}]
  BY <1>2, <1>3, <1>4, <1>6 DEF ProposerTypeOK
<1>9. CASE /\ Exchange({<<p, m>>}, {}, {})
           /\ UNCHANGED <<queueVars, phaseOneDone, sync_promise, irregular>>
  <2>1. Proposes
    BY <1>9 DEF Proposes, Exchange, AcceptorTypeOK
  <2> QED BY <1>8, <1>9, <2>1 DEF ProposerTypeOK, queueVars
<1>10. CASE /\ sync_promise' = [sync_promise EXCEPT ![p] = TRUE]
            /\ phaseOneDone' = [phaseOneDone EXCEPT ![p] = TRUE]
            /\ irregular' \subseteq irregular \cup {crnd[p]}
            /\ sendAccept(p, {<<p, m>>}, adu[p], adu[p] + 1, accs, requestsIn[p])
  <2>1. /\ adu[p] + 1 \in 0 .. MaxSlot + 1 /\ crnd[p] \in Round
        /\ requestsIn[p] \in Seq(Value)
    BY BoundAssumption DEF ProposerTypeOK, SlotID
  <2>2. PICK M, rest, left, up : Sends(p, {<<p, m>>}, accs, M, rest, left, up)
    BY <1>5, <1>10, <2>1, SendAcceptOutcome
  <2>3. /\ nextSlot' \in [Node -> 0 .. MaxSlot + 1]
        /\ requestsIn' \in [Node -> Seq(Value)]
        /\ acceptsOut' \in [Node -> Seq(Accept)]
        /\ Proposes
    BY <2>2, SendsTypes
  <2> QED BY <1>8, <1>10, <2>1, <2>3 DEF ProposerTypeOK
<1> QED BY <1>7, <1>9, <1>10

LEMMA ClientValueTypes ==
    ASSUME AcceptorTypeOK, ProposerTypeOK, NEW p \in Node, NEW v \in Request[p],
           ClientValue(p, v)
    PROVE  ProposerTypeOK' /\ Proposes
<1>1. v \in Value
  BY RequestAssumption
<1>2. /\ crnd[p] \in Round /\ nextSlot[p] \in 0 .. MaxSlot + 1
      /\ acceptsOut[p] \in Seq(Accept) /\ Append(requestsIn[p], v) \in Seq(Value)
  BY <1>1, AppendProperties DEF ProposerTypeOK
<1>3. UNCHANGED <<phaseOneVars, reportVars, adu, phaseOneDone, leader, sync_promise>>
  BY DEF ClientValue
<1>4. CASE sendAccept(p, {}, adu[p], nextSlot[p], acceptsOut[p],
                      Append(requestsIn[p], v))
  <2>1. PICK M, rest, left, up : Sends(p, {}, acceptsOut[p], M, rest, left, up)
    BY <1>2, <1>4, SendAcceptOutcome
  <2>2. /\ nextSlot' \in [Node -> 0 .. MaxSlot + 1]
        /\ requestsIn' \in [Node -> Seq(Value)]
        /\ acceptsOut' \in [Node -> Seq(Accept)]
        /\ Proposes
    BY <2>1, SendsTypes
  <2> QED BY <1>3, <2>2 DEF ProposerTypeOK, phaseOneVars, reportVars
<1>5. CASE /\ requestsIn' = [requestsIn EXCEPT ![p] = Append(@, v)]
           /\ UNCHANGED <<nextSlot, acceptsOut, netVars>>
  <2>1. Proposes
    BY <1>5 DEF Proposes, netVars, AcceptorTypeOK
  <2> QED BY <1>2, <1>3, <1>5, <2>1 DEF ProposerTypeOK, phaseOneVars, reportVars
<1> QED BY <1>4, <1>5 DEF ClientValue

LEMMA IncrementTypes ==
    ASSUME AcceptorTypeOK, ProposerTypeOK, NEW p \in Node, IncrementAllDecidedUpTo(p)
    PROVE  ProposerTypeOK' /\ Proposes
<1>1. /\ crnd[p] \in Round /\ nextSlot[p] \in 0 .. MaxSlot + 1
      /\ acceptsOut[p] \in Seq(Accept) /\ requestsIn[p] \in Seq(Value)
  BY DEF ProposerTypeOK
<1>2. adu' \in [Node -> SlotID]
  BY BoundAssumption DEF IncrementAllDecidedUpTo, ProposerTypeOK, SlotID
<1>3. UNCHANGED <<phaseOneVars, reportVars, phaseOneDone, leader, sync_promise>>
  BY DEF IncrementAllDecidedUpTo
<1>4. CASE sendAccept(p, {}, adu[p] + 1, nextSlot[p], acceptsOut[p], requestsIn[p])
  <2>1. PICK M, rest, left, up : Sends(p, {}, acceptsOut[p], M, rest, left, up)
    BY <1>1, <1>4, SendAcceptOutcome
  <2>2. /\ nextSlot' \in [Node -> 0 .. MaxSlot + 1]
        /\ requestsIn' \in [Node -> Seq(Value)]
        /\ acceptsOut' \in [Node -> Seq(Accept)]
        /\ Proposes
    BY <2>1, SendsTypes
  <2> QED BY <1>2, <1>3, <2>2 DEF ProposerTypeOK, phaseOneVars, reportVars
<1>5. CASE UNCHANGED <<queueVars, netVars>>
  <2>1. Proposes
    BY <1>5 DEF Proposes, netVars, AcceptorTypeOK
  <2> QED BY <1>2, <1>3, <1>5, <2>1
          DEF ProposerTypeOK, phaseOneVars, reportVars, queueVars
<1> QED BY <1>4, <1>5 DEF IncrementAllDecidedUpTo

LEMMA TickTypes ==
    ASSUME AcceptorTypeOK, ProposerTypeOK, NEW p \in Node, PhaseOneProgressTick(p)
    PROVE  ProposerTypeOK' /\ Proposes
<1>1. startPhaseOne(p) /\ UNCHANGED <<reportVars, queueVars, adu, leader, sync_promise>>
  BY DEF PhaseOneProgressTick
<1> QED BY <1>1, StartPhaseOneTypes DEF ProposerTypeOK, reportVars, queueVars

LEMMA TrustTypes ==
    ASSUME AcceptorTypeOK, ProposerTypeOK, NEW p \in Node, NEW l \in Trusted[p],
           Trust(p, l)
    PROVE  ProposerTypeOK' /\ Proposes
<1>1. l \in Node \cup {NoLeader}
  BY TrustedAssumption
<1>2. /\ leader' \in [Node -> Node \cup {NoLeader}]
      /\ sync_promise' \in [Node -> BOOLEAN]
      /\ UNCHANGED <<reportVars, queueVars, adu>>
  BY <1>1 DEF Trust, ProposerTypeOK
<1>3. CASE startPhaseOne(p)
  BY <1>2, <1>3, StartPhaseOneTypes DEF ProposerTypeOK, reportVars, queueVars
<1>4. CASE UNCHANGED <<phaseOneVars, phaseOneDone, netVars>>
  <2>1. Proposes
    BY <1>4 DEF Proposes, netVars, AcceptorTypeOK
  <2> QED BY <1>2, <1>4, <2>1
          DEF ProposerTypeOK, phaseOneVars, reportVars, queueVars
<1> QED BY <1>3, <1>4 DEF Trust

-----------------------------------------------------------------------------
\* The whole system: types and the invariant of the acceptors.
TypeInv == AcceptorInv /\ ProposerTypeOK

LEMMA TypeOKParts == TypeOK <=> AcceptorTypeOK /\ ProposerTypeOK
BY DEF TypeOK, ProposerTypeOK

LEMMA InitTypeInv == Init => TypeInv
<1> SUFFICES ASSUME Init PROVE TypeInv
  OBVIOUS
<1>1. AcceptorInv
  BY InitInv DEF Init
<1>2. Node \subseteq Round /\ N - 1 \in Node /\ 0 \in SlotID
      /\ 0 \in 0 .. MaxSlot + 1
  BY NAssumption, BoundAssumption DEF Node, Round, SlotID
<1>3. ProposerTypeOK
  BY <1>2 DEF Init, ProposerInit, ProposerTypeOK
<1> QED BY <1>1, <1>3 DEF TypeInv

\* Every step is one of an acceptor, or of its environment.
LEMMA NextTypeInv ==
    ASSUME TypeInv, Next
    PROVE  /\ TypeInv'
           /\ AcceptorNext \/ Environment
<1> USE DEF TypeInv
<1>0. AcceptorTypeOK
  BY DEF AcceptorInv
<1>1. ASSUME NEW a \in Node, AcceptorStep(a)
      PROVE  TypeInv' /\ AcceptorNext
  <2>1. AcceptorNext
    BY <1>1 DEF AcceptorStep, AcceptorNext
  <2>2. AcceptorInv'
    BY <2>1, PrepareStep, AcceptStep DEF AcceptorNext
  <2>3. UNCHANGED proposerVars
    BY <1>1 DEF AcceptorStep
  <2>4. ProposerTypeOK'
    BY <2>3 DEF ProposerTypeOK, proposerVars, phaseOneVars, reportVars, queueVars
  <2> QED BY <2>1, <2>2, <2>4
<1>2. ASSUME UNCHANGED acceptorVars, Proposes, ProposerTypeOK'
      PROVE  TypeInv' /\ Environment
  <2>1. Environment
    BY <1>2 DEF Environment, Proposes
  <2> QED BY <1>2, <2>1, EnvironmentStep
<1>3. ASSUME NEW p \in Proposing, ProposerStep(p)
      PROVE  TypeInv' /\ Environment
  <2>1. p \in Node /\ UNCHANGED acceptorVars
    BY <1>3, ActiveAssumption DEF ProposerStep
  <2>2. ProposerTypeOK' /\ Proposes
    BY <1>0, <1>3, <2>1, HandlePromiseTypes, ClientValueTypes, TickTypes, TrustTypes
       DEF ProposerStep
  <2> QED BY <1>2, <2>1, <2>2
<1>4. ASSUME NEW n \in Proposing \cup Listener, SlotDecided(n)
      PROVE  TypeInv' /\ Environment
  <2>1. n \in Node /\ UNCHANGED acceptorVars
    BY <1>4, ActiveAssumption DEF SlotDecided
  <2>2. ProposerTypeOK' /\ Proposes
    BY <1>0, <1>4, <2>1, IncrementTypes DEF SlotDecided
  <2> QED BY <1>2, <2>1, <2>2
<1>5. ASSUME NEW n \in Listener, TakeLearn(n)
      PROVE  TypeInv' /\ Environment
  <2>1. UNCHANGED <<acceptorVars, proposerVars>>
    BY <1>5 DEF TakeLearn
  <2>2. Proposes
    BY <1>0, <1>5 DEF TakeLearn, Exchange, Proposes, AcceptorTypeOK
  <2>3. ProposerTypeOK'
    BY <2>1 DEF ProposerTypeOK, proposerVars, phaseOneVars, reportVars, queueVars
  <2> QED BY <1>2, <2>1, <2>2, <2>3
<1> QED BY <1>1, <1>3, <1>4, <1>5 DEF Next, Steps

LEMMA StutterTypeInv ==
    ASSUME TypeInv, UNCHANGED vars
    PROVE  TypeInv' /\ UNCHANGED acceptorSystem
<1>1. UNCHANGED acceptorSystem
  BY DEF vars, acceptorSystem
<1>2. AcceptorInv'
  BY <1>1 DEF acceptorSystem, acceptorVars, netVars, TypeInv, AcceptorInv,
     AcceptorTypeOK, SlotsHoldLastVote, VotesAnswerAccepts, ReportedVotesWereCast,
     PromiseReportsVotes, Sent
<1>3. ProposerTypeOK'
  BY DEF TypeInv, ProposerTypeOK, vars, proposerVars, phaseOneVars, reportVars,
     queueVars
<1> QED BY <1>1, <1>2, <1>3 DEF TypeInv

THEOREM TypeInvariance == Spec => []TypeInv
<1>1. TypeInv /\ [Next]_vars => TypeInv'
  BY NextTypeInv, StutterTypeInv
<1> QED BY <1>1, InitTypeInv, PTL DEF Spec

\* The values of the fields of acceptors and proposers stay within their types,
\* slots and rounds within their ranges (defs.go, acceptor.go, proposer.go).
THEOREM Types == Spec => []TypeOK
BY TypeInvariance, TypeOKParts, PTL DEF TypeInv, AcceptorInv

\* The protocol's acceptors are those of AcceptorSpec: what holds of them among
\* arbitrary proposers holds in the protocol.
THEOREM Refinement == Spec => AcceptorSpec
<1>1. Init => AcceptorInit /\ NetInit
  BY DEF Init
<1>2. TypeInv /\ [Next]_vars => [Environment \/ AcceptorNext]_acceptorSystem
  BY NextTypeInv, StutterTypeInv
<1> QED BY <1>1, <1>2, TypeInvariance, PTL DEF Spec, AcceptorSpec

-----------------------------------------------------------------------------
(***************************************************************************)
(* Nobody proposes without a majority of promises for exactly its round,   *)
(* whatever leader changes, late promises and losses there are: what the   *)
(* proposer counts are nodes, each once, that promised its current round.  *)
(***************************************************************************)
\* The nodes that promised round r to p, and those that p has counted.
Promisers(p, r) ==
    {q.From : q \in {k \in Sent("PROMISE") : k.To = p /\ k.Rnd = r}}

Counted(p) == {a \in Node : promises[p][a] # NoRound}

\* The counts of p are right, and the accepts it holds are of its round.
Counting(p) ==
    /\ \A a \in Counted(p) : promises[p][a] = crnd[p] /\ a \in Promisers(p, crnd[p])
    /\ promiseCount[p] = Cardinality(Counted(p))
    /\ phaseOneDone[p] =>
          /\ promiseCount[p] >= quorum
          /\ \A i \in DOMAIN acceptsOut[p] :
                acceptsOut[p][i].From = p /\ acceptsOut[p][i].Rnd = crnd[p]

\* A promise is on its way to nobody but the proposer it is for.
PromisesAddressed ==
    \A n \in Node, m \in Sent("PROMISE") : <<n, m>> \in net => m.To = n

CountInv ==
    /\ TypeInv
    /\ PromisesAddressed
    /\ \A p \in Node : Counting(p)
    /\ AcceptsHaveMajority

-----------------------------------------------------------------------------
LEMMA PromisersAreNodes ==
    ASSUME AcceptorTypeOK, NEW p, NEW r
    PROVE  Promisers(p, r) \in SUBSET Node
BY KindOfMessage DEF Promisers, Sent, Promise

\* A proposer that counted a majority has a majority of promises.
LEMMA DoneHasQuorum ==
    ASSUME AcceptorTypeOK, NEW p \in Node, Counting(p), promiseCount[p] >= quorum
    PROVE  IsQuorum(Promisers(p, crnd[p]))
<1>1. Counted(p) \subseteq Promisers(p, crnd[p])
  BY DEF Counting
<1>2. IsQuorum(Counted(p))
  BY DEF Counting, IsQuorum
<1> QED BY <1>1, <1>2, PromisersAreNodes, QuorumGrows

\* AcceptsHaveMajority in terms of Promisers.
LEMMA MajorityOfPromisers ==
    AcceptsHaveMajority <=> \A c \in Sent("ACCEPT") : IsQuorum(Promisers(c.From, c.Rnd))
BY DEF AcceptsHaveMajority, Promisers

-----------------------------------------------------------------------------
\* What a step has to show when no promise is lost from the history.
LEMMA MajorityKept ==
    ASSUME AcceptorTypeOK', AcceptsHaveMajority,
           Sent("PROMISE") \subseteq Sent("PROMISE")',
           \A c \in Sent("ACCEPT")' \ Sent("ACCEPT") : IsQuorum(Promisers(c.From, c.Rnd)')
    PROVE  AcceptsHaveMajority'
<1>1. ASSUME NEW c \in Sent("ACCEPT")
      PROVE  IsQuorum(Promisers(c.From, c.Rnd)')
  <2>1. IsQuorum(Promisers(c.From, c.Rnd))
    BY MajorityOfPromisers
  <2>2. Promisers(c.From, c.Rnd) \subseteq Promisers(c.From, c.Rnd)'
    BY DEF Promisers
  <2>3. Promisers(c.From, c.Rnd)' \in SUBSET Node
    BY DEF AcceptorTypeOK, Promisers, Sent, Prepare, Promise, Accept, Learn
  <2> QED BY <2>1, <2>2, <2>3, QuorumGrows
<1>2. \A c \in Sent("ACCEPT")' : IsQuorum(Promisers(c.From, c.Rnd)')
  BY <1>1
<1> QED BY <1>2 DEF AcceptsHaveMajority, Promisers

LEMMA CountingKept ==
    ASSUME NEW p \in Node, Counting(p), Sent("PROMISE") \subseteq Sent("PROMISE")',
           crnd'[p] = crnd[p], promises'[p] = promises[p],
           promiseCount'[p] = promiseCount[p], phaseOneDone'[p] = phaseOneDone[p],
           acceptsOut'[p] = acceptsOut[p]
    PROVE  Counting(p)'
<1>1. Counted(p)' = Counted(p)
  BY DEF Counted
<1>2. Promisers(p, crnd[p]) \subseteq Promisers(p, crnd[p])'
  BY DEF Promisers
<1> QED BY <1>1, <1>2 DEF Counting, Promisers

\* A step that only proposes.
LEMMA ProposesKeeps ==
    ASSUME AcceptorTypeOK, PromisesAddressed, Proposes
    PROVE  PromisesAddressed' /\ Sent("PROMISE")' = Sent("PROMISE")
<1>1. Sent("PROMISE")' = Sent("PROMISE")
  BY DEF Proposes, Sent, Prepare, Accept
<1>2. PromisesAddressed'
  BY <1>1 DEF PromisesAddressed, Proposes, Sent, Prepare, Accept
<1> QED BY <1>1, <1>2

LEMMA StartPhaseOneCounts ==
    ASSUME ProposerTypeOK, NEW p \in Node, startPhaseOne(p)
    PROVE  Counting(p)' /\ Sent("ACCEPT")' = Sent("ACCEPT")
<1>1. Counted(p)' = {}
  BY DEF startPhaseOne, Counted, ProposerTypeOK
<1>2. promiseCount'[p] = 0 /\ ~ phaseOneDone'[p]
  BY DEF startPhaseOne, ProposerTypeOK
<1>3. Counting(p)'
  BY <1>1, <1>2, FS_EmptySet DEF Counting
<1>4. Sent("ACCEPT")' = Sent("ACCEPT")
  BY DEF startPhaseOne, Exchange, Sent
<1> QED BY <1>3, <1>4

\* What startPhaseOne, and the other actions of p, leave to the other proposers.
OthersKept(p) ==
    \A q \in Node \ {p} :
        /\ crnd'[q] = crnd[q] /\ promises'[q] = promises[q]
        /\ promiseCount'[q] = promiseCount[q] /\ phaseOneDone'[q] = phaseOneDone[q]
        /\ acceptsOut'[q] = acceptsOut[q]

\* From the parts that differ between the actions of a proposer to the invariant.
LEMMA ProposerKeeps ==
    ASSUME CountInv, TypeInv', NEW p \in Node, Proposes, OthersKept(p), Counting(p)',
           \A c \in Sent("ACCEPT")' \ Sent("ACCEPT") : IsQuorum(Promisers(c.From, c.Rnd))
    PROVE  CountInv'
<1>1. AcceptorTypeOK /\ AcceptorTypeOK'
  BY DEF CountInv, TypeInv, AcceptorInv
<1>2. PromisesAddressed' /\ Sent("PROMISE")' = Sent("PROMISE")
  BY <1>1, ProposesKeeps DEF CountInv
<1>3. \A q \in Node : Counting(q)'
  BY <1>2, CountingKept DEF CountInv, OthersKept
<1>4. AcceptsHaveMajority'
  <2>1. \A c : Promisers(c.From, c.Rnd)' = Promisers(c.From, c.Rnd)
    BY <1>2 DEF Promisers
  <2> QED BY <1>1, <1>2, <2>1, MajorityKept DEF CountInv
<1> QED BY <1>2, <1>3, <1>4 DEF CountInv

\* sendAccept of accepts of p's round, when p has its majority.
LEMMA SendsOfRound ==
    ASSUME CountInv, NEW p \in Node, NEW taken, NEW accs \in Seq(Accept), NEW M,
           NEW rest, NEW left, NEW up, Sends(p, taken, accs, M, rest, left, up),
           IsQuorum(Promisers(p, crnd[p])),
           \A i \in DOMAIN accs : accs[i].From = p /\ accs[i].Rnd = crnd[p]
    PROVE  /\ \A i \in DOMAIN rest : rest[i].From = p /\ rest[i].Rnd = crnd[p]
           /\ acceptsOut' = [acceptsOut EXCEPT ![p] = rest]
           /\ \A c \in Sent("ACCEPT")' \ Sent("ACCEPT") :
                 IsQuorum(Promisers(c.From, c.Rnd))
<1>1. \A i \in DOMAIN rest : rest[i].From = p /\ rest[i].Rnd = crnd[p]
  <2>1. CASE rest = accs
    BY <2>1
  <2>2. CASE rest = Tail(accs) /\ accs # << >>
    BY <2>2, HeadTailProperties
  <2>3. CASE rest = Tail(accs) /\ accs = << >>
    BY <2>3
  <2> QED BY <2>1, <2>2, <2>3 DEF Sends
<1>2. \A c \in M : c.From = p /\ c.Rnd = crnd[p]
  BY HeadTailProperties DEF Sends
<1>3. \A c \in Sent("ACCEPT")' \ Sent("ACCEPT") : c \in M
  BY DEF Sends, Exchange, Sent
<1> QED BY <1>1, <1>2, <1>3 DEF Sends

-----------------------------------------------------------------------------
LEMMA HandlePromiseCounts ==
    ASSUME CountInv, TypeInv', NEW p \in Node,
           NEW m \in Waiting(p, "PROMISE"), HandlePromise(p, m)
    PROVE  CountInv'
<1> DEFINE prev  == promises[p][m.From]
           fresh == prev < m.Rnd
           held  == IF fresh THEN update_promise_slots(promise_slots[p], m.Slots)
                             ELSE promise_slots[p]
           min   == IF fresh THEN first_min_slot(promise_slots[p], m.Slots, min_slot[p])
                             ELSE min_slot[p]
           count == IF prev = NoRound THEN promiseCount[p] + 1 ELSE promiseCount[p]
           accs  == create_accept_message(p, held, min)
<1>1. /\ AcceptorTypeOK /\ ProposerTypeOK
      /\ crnd \in [Node -> Round] /\ promises \in [Node -> [Node -> Round \cup {NoRound}]]
      /\ promiseCount \in [Node -> Nat] /\ phaseOneDone \in [Node -> BOOLEAN]
      /\ acceptsOut \in [Node -> Seq(Accept)]
  BY DEF CountInv, TypeInv, AcceptorInv, ProposerTypeOK
<1>2. m \in Promise /\ m \in Sent("PROMISE") /\ <<p, m>> \in net
  BY <1>1, KindOfMessage DEF Waiting, Sent
<1>3. m.From \in Node /\ m.Rnd \in Round /\ m.To = p
  BY <1>2 DEF Promise, CountInv, PromisesAddressed
<1>4. Proposes
  BY <1>1, HandlePromiseTypes
<1>5. /\ m.Rnd = crnd[p] /\ crnd' = crnd
      /\ promises' = [promises EXCEPT ![p][m.From] = m.Rnd]
      /\ promiseCount' = [promiseCount EXCEPT ![p] = count]
  BY DEF HandlePromise
<1>6. \/ /\ count < quorum
         /\ UNCHANGED <<queueVars, phaseOneDone>> /\ sent' = sent
      \/ /\ count >= quorum
         /\ phaseOneDone' = [phaseOneDone EXCEPT ![p] = TRUE]
         /\ sendAccept(p, {<<p, m>>}, adu[p], adu[p] + 1, accs, requestsIn[p])
  BY DEF HandlePromise, Exchange
<1>7. Sent("PROMISE")' = Sent("PROMISE")
  BY <1>1, <1>4, ProposesKeeps DEF CountInv
<1>8. /\ accs \in Seq(Accept)
      /\ \A i \in DOMAIN accs : accs[i].From = p /\ accs[i].Rnd = crnd[p]
  <2>1. held \in SUBSET PromiseSlot /\ min \in SlotID
    BY <1>1, <1>2, HeldReports DEF ProposerTypeOK, Promise
  <2>2. crnd[p] \in Round /\ adu[p] \in SlotID
    BY <1>1 DEF ProposerTypeOK
  <2> HIDE DEF held, min
  <2> QED BY <2>1, <2>2, BoundAccepts
<1> HIDE DEF accs
<1>9. Counted(p)' = Counted(p) \cup {m.From}
  BY <1>1, <1>3, <1>5 DEF Counted, NoRound, Round
<1>10. count = Cardinality(Counted(p)')
  <2>1. m.From \in Counted(p) <=> prev # NoRound
    BY <1>3 DEF Counted
  <2>2. IsFiniteSet(Counted(p)) /\ promiseCount[p] = Cardinality(Counted(p))
    BY NodesAreFinite DEF Counted, CountInv, Counting
  <2> QED BY <1>9, <2>1, <2>2, FS_AddElement
<1>11. count \in Nat /\ count >= promiseCount[p] /\ quorum \in Int
  BY <1>1, NAssumption DEF quorum
<1> HIDE DEF count
<1>12. /\ \A a \in Counted(p)' :
             promises'[p][a] = crnd'[p] /\ a \in Promisers(p, crnd[p])
       /\ promiseCount'[p] = Cardinality(Counted(p)')
  <2>1. m.From \in Promisers(p, crnd[p])
    BY <1>2, <1>3, <1>5 DEF Promisers
  <2> QED BY <1>1, <1>3, <1>5, <1>9, <1>10, <2>1 DEF CountInv, Counting
<1>13. Promisers(p, crnd[p])' = Promisers(p, crnd[p])
  BY <1>5, <1>7 DEF Promisers
<1>14. OthersKept(p) /\ Counting(p)'
       /\ \A c \in Sent("ACCEPT")' \ Sent("ACCEPT") : IsQuorum(Promisers(c.From, c.Rnd))
  <2>1. CASE /\ count < quorum
             /\ UNCHANGED <<queueVars, phaseOneDone>> /\ sent' = sent
    <3>1. OthersKept(p)
      BY <1>1, <1>5, <2>1 DEF OthersKept, queueVars
    <3>2. ~ phaseOneDone'[p]
      <4>1. phaseOneDone[p] => promiseCount[p] >= quorum
        BY DEF CountInv, Counting
      <4>2. promiseCount[p] \in Nat
        BY <1>1
      <4> QED BY <1>11, <2>1, <4>1, <4>2
    <3>3. Counting(p)'
      BY <1>12, <1>13, <3>2 DEF Counting
    <3> QED BY <2>1, <3>1, <3>3 DEF Sent
  <2>2. CASE /\ count >= quorum
             /\ phaseOneDone' = [phaseOneDone EXCEPT ![p] = TRUE]
             /\ sendAccept(p, {<<p, m>>}, adu[p], adu[p] + 1, accs, requestsIn[p])
    <3>1. IsQuorum(Promisers(p, crnd[p]))
      <4>1. IsQuorum(Counted(p)')
        BY <1>10, <2>2 DEF IsQuorum
      <4>2. Counted(p)' \subseteq Promisers(p, crnd[p])
        BY <1>12
      <4> QED BY <1>1, <4>1, <4>2, PromisersAreNodes, QuorumGrows
    <3>2. /\ adu[p] + 1 \in 0 .. MaxSlot + 1 /\ crnd[p] \in Round
          /\ requestsIn[p] \in Seq(Value)
      BY <1>1, BoundAssumption DEF ProposerTypeOK, SlotID
    <3>3. PICK M, rest, left, up : Sends(p, {<<p, m>>}, accs, M, rest, left, up)
      BY <1>8, <2>2, <3>2, SendAcceptOutcome
    <3>4. /\ \A i \in DOMAIN rest : rest[i].From = p /\ rest[i].Rnd = crnd[p]
          /\ acceptsOut' = [acceptsOut EXCEPT ![p] = rest]
          /\ \A c \in Sent("ACCEPT")' \ Sent("ACCEPT") :
                IsQuorum(Promisers(c.From, c.Rnd))
      BY <1>8, <3>1, <3>3, SendsOfRound
    <3>5. OthersKept(p)
      BY <1>1, <1>5, <2>2, <3>4 DEF OthersKept
    <3>6. Counting(p)'
      <4>1. acceptsOut'[p] = rest /\ crnd'[p] = crnd[p] /\ promiseCount'[p] = count
        BY <1>1, <1>5, <3>4
      <4> QED BY <1>12, <1>13, <2>2, <3>4, <4>1 DEF Counting
    <3> QED BY <3>4, <3>5, <3>6
  <2> QED BY <1>6, <2>1, <2>2
<1> QED BY <1>4, <1>14, ProposerKeeps

\* A step of p that proposes from its queues: a client value, a slot decided.
LEMMA QueueStepCounts ==
    ASSUME CountInv, TypeInv', NEW p \in Node, Proposes, phaseOneDone[p],
           NEW upTo, NEW next \in 0 .. MaxSlot + 1, NEW reqs \in Seq(Value),
           sendAccept(p, {}, upTo, next, acceptsOut[p], reqs),
           UNCHANGED <<phaseOneVars, phaseOneDone>>
    PROVE  CountInv'
<1>1. /\ AcceptorTypeOK /\ ProposerTypeOK
      /\ crnd[p] \in Round /\ acceptsOut[p] \in Seq(Accept)
      /\ acceptsOut \in [Node -> Seq(Accept)]
  BY DEF CountInv, TypeInv, AcceptorInv, ProposerTypeOK
<1>2. /\ IsQuorum(Promisers(p, crnd[p]))
      /\ \A i \in DOMAIN acceptsOut[p] :
            acceptsOut[p][i].From = p /\ acceptsOut[p][i].Rnd = crnd[p]
  BY <1>1, DoneHasQuorum DEF CountInv, Counting
<1>3. PICK M, rest, left, up : Sends(p, {}, acceptsOut[p], M, rest, left, up)
  BY <1>1, SendAcceptOutcome
<1>4. /\ \A i \in DOMAIN rest : rest[i].From = p /\ rest[i].Rnd = crnd[p]
      /\ acceptsOut' = [acceptsOut EXCEPT ![p] = rest]
      /\ \A c \in Sent("ACCEPT")' \ Sent("ACCEPT") :
            IsQuorum(Promisers(c.From, c.Rnd))
  BY <1>1, <1>2, <1>3, SendsOfRound
<1>5. OthersKept(p)
  BY <1>1, <1>4 DEF OthersKept, phaseOneVars
<1>6. Counting(p)'
  <2>1. Sent("PROMISE")' = Sent("PROMISE")
    BY <1>1, ProposesKeeps DEF CountInv
  <2>2. /\ Counted(p)' = Counted(p) /\ promiseCount'[p] = promiseCount[p]
        /\ crnd' = crnd /\ promises' = promises
        /\ Promisers(p, crnd[p])' = Promisers(p, crnd[p])
    BY <2>1 DEF Counted, Promisers, phaseOneVars
  <2>3. acceptsOut'[p] = rest
    BY <1>1, <1>4
  <2> QED BY <1>4, <2>2, <2>3 DEF Counting, CountInv
<1> QED BY <1>4, <1>5, <1>6, ProposerKeeps

\* A step of p that touches neither its round, its counts nor its accepts.
LEMMA OtherStepCounts ==
    ASSUME CountInv, TypeInv', NEW p \in Node, Proposes,
           UNCHANGED <<phaseOneVars, phaseOneDone, acceptsOut>>, sent' = sent
    PROVE  CountInv'
<1>1. AcceptorTypeOK
  BY DEF CountInv, TypeInv, AcceptorInv
<1>2. OthersKept(p)
  BY DEF OthersKept, phaseOneVars
<1>3. Counting(p)'
  BY CountingKept DEF CountInv, phaseOneVars, Sent
<1> QED BY <1>1, <1>2, <1>3, ProposerKeeps DEF Sent

LEMMA StartStepCounts ==
    ASSUME CountInv, TypeInv', NEW p \in Node, Proposes, startPhaseOne(p),
           UNCHANGED acceptsOut
    PROVE  CountInv'
<1>1. /\ ProposerTypeOK
      /\ crnd \in [Node -> Round] /\ promises \in [Node -> [Node -> Round \cup {NoRound}]]
      /\ promiseCount \in [Node -> Nat] /\ phaseOneDone \in [Node -> BOOLEAN]
  BY DEF CountInv, TypeInv, ProposerTypeOK
<1>2. OthersKept(p)
  BY <1>1 DEF startPhaseOne, OthersKept
<1>3. Counting(p)' /\ Sent("ACCEPT")' = Sent("ACCEPT")
  BY <1>1, StartPhaseOneCounts
<1> QED BY <1>2, <1>3, ProposerKeeps

LEMMA ProposerStepCounts ==
    ASSUME CountInv, TypeInv', NEW p \in Node, ProposerStep(p)
    PROVE  CountInv'
<1>1. /\ AcceptorTypeOK /\ ProposerTypeOK
      /\ nextSlot[p] \in 0 .. MaxSlot + 1 /\ requestsIn[p] \in Seq(Value)
  BY DEF CountInv, TypeInv, AcceptorInv, ProposerTypeOK
<1>2. ASSUME NEW m \in Waiting(p, "PROMISE"), HandlePromise(p, m)
      PROVE  CountInv'
  BY <1>2, HandlePromiseCounts
<1>3. ASSUME NEW v \in Request[p], ClientValue(p, v)
      PROVE  CountInv'
  <2>1. Proposes
    BY <1>1, <1>3, ClientValueTypes
  <2>2. UNCHANGED <<phaseOneVars, phaseOneDone>>
    BY <1>3 DEF ClientValue
  <2>3. CASE /\ phaseOneDone[p]
             /\ sendAccept(p, {}, adu[p], nextSlot[p], acceptsOut[p],
                           Append(requestsIn[p], v))
    <3>1. Append(requestsIn[p], v) \in Seq(Value)
      BY <1>1, RequestAssumption, AppendProperties
    <3> QED BY <1>1, <2>1, <2>2, <2>3, <3>1, QueueStepCounts
  <2>4. CASE UNCHANGED <<nextSlot, acceptsOut, netVars>>
    BY <2>1, <2>2, <2>4, OtherStepCounts DEF netVars
  <2> QED BY <1>3, <2>3, <2>4 DEF ClientValue
<1>4. CASE PhaseOneProgressTick(p)
  <2>1. Proposes
    BY <1>1, <1>4, TickTypes
  <2> QED BY <1>4, <2>1, StartStepCounts DEF PhaseOneProgressTick, queueVars
<1>5. ASSUME NEW l \in Trusted[p], Trust(p, l)
      PROVE  CountInv'
  <2>1. Proposes
    BY <1>1, <1>5, TrustTypes
  <2>2. UNCHANGED acceptsOut
    BY <1>5 DEF Trust, queueVars
  <2>3. CASE startPhaseOne(p)
    BY <2>1, <2>2, <2>3, StartStepCounts
  <2>4. CASE UNCHANGED <<phaseOneVars, phaseOneDone, netVars>>
    BY <2>1, <2>2, <2>4, OtherStepCounts DEF netVars
  <2> QED BY <1>5, <2>3, <2>4 DEF Trust
<1> QED BY <1>2, <1>3, <1>4, <1>5 DEF ProposerStep

LEMMA SlotDecidedCounts ==
    ASSUME CountInv, TypeInv', NEW p \in Node, SlotDecided(p)
    PROVE  CountInv'
<1>1. /\ AcceptorTypeOK /\ ProposerTypeOK
      /\ nextSlot[p] \in 0 .. MaxSlot + 1 /\ requestsIn[p] \in Seq(Value)
  BY DEF CountInv, TypeInv, AcceptorInv, ProposerTypeOK
<1>2. IncrementAllDecidedUpTo(p)
  BY DEF SlotDecided
<1>3. Proposes /\ UNCHANGED <<phaseOneVars, phaseOneDone>>
  BY <1>1, <1>2, IncrementTypes DEF IncrementAllDecidedUpTo
<1>4. CASE /\ phaseOneDone[p]
           /\ sendAccept(p, {}, adu[p] + 1, nextSlot[p], acceptsOut[p], requestsIn[p])
  BY <1>1, <1>3, <1>4, QueueStepCounts
<1>5. CASE UNCHANGED <<queueVars, netVars>>
  BY <1>3, <1>5, OtherStepCounts DEF queueVars, netVars
<1> QED BY <1>2, <1>4, <1>5 DEF IncrementAllDecidedUpTo

\* An acceptor's step adds a promise, addressed to the proposer that asked for
\* it, or a vote.
LEMMA AcceptorStepCounts ==
    ASSUME CountInv, TypeInv', NEW a \in Node, AcceptorStep(a)
    PROVE  CountInv'
<1>1. AcceptorTypeOK /\ AcceptorTypeOK'
  BY DEF CountInv, TypeInv, AcceptorInv
<1>2. /\ Sent("PROMISE") \subseteq Sent("PROMISE")'
      /\ Sent("ACCEPT")' = Sent("ACCEPT")
      /\ PromisesAddressed'
  <2>1. ASSUME NEW m \in Waiting(a, "PREPARE"), handlePrepare(a, m)
        PROVE  /\ Sent("PROMISE") \subseteq Sent("PROMISE")'
               /\ Sent("ACCEPT")' = Sent("ACCEPT")
               /\ PromisesAddressed'
    <3> DEFINE q == PromiseFor(a, m)
    <3>1. /\ sent' = sent \cup {q}
          /\ net' = (net \ {<<a, m>>}) \cup ({m.From} \X {q})
      BY <2>1 DEF handlePrepare, Exchange, PromiseFor
    <3>2. q.type = "PROMISE" /\ q.To = m.From
      BY DEF PromiseFor
    <3> HIDE DEF q
    <3>3. net \subseteq Node \X sent /\ PromisesAddressed
      BY <1>1 DEF AcceptorTypeOK, CountInv
    <3>4. PromisesAddressed'
      BY <3>1, <3>2, <3>3 DEF PromisesAddressed, Sent
    <3> QED BY <3>1, <3>2, <3>4 DEF Sent
  <2>2. ASSUME NEW m \in Waiting(a, "ACCEPT"), handleAccept(a, m)
        PROVE  /\ Sent("PROMISE") \subseteq Sent("PROMISE")'
               /\ Sent("ACCEPT")' = Sent("ACCEPT")
               /\ PromisesAddressed'
    <3> DEFINE k == LearnFor(a, m)
    <3>1. /\ sent' = sent \cup {k}
          /\ net' = (net \ {<<a, m>>}) \cup (Node \X {k})
      BY <2>2 DEF handleAccept, Exchange, LearnFor
    <3>2. k.type = "LEARN"
      BY DEF LearnFor
    <3> HIDE DEF k
    <3> QED BY <3>1, <3>2 DEF PromisesAddressed, Sent, CountInv
  <2> QED BY <2>1, <2>2 DEF AcceptorStep
<1>3. UNCHANGED <<phaseOneVars, phaseOneDone, acceptsOut>>
  BY DEF AcceptorStep, proposerVars, queueVars
<1>4. \A p \in Node : Counting(p)'
  BY <1>2, <1>3, CountingKept DEF CountInv, phaseOneVars
<1>5. AcceptsHaveMajority'
  BY <1>1, <1>2, MajorityKept DEF CountInv
<1> QED BY <1>2, <1>4, <1>5 DEF CountInv

\* Steps that send nothing and leave the proposers alone.
LEMMA QuietStepCounts ==
    ASSUME CountInv, TypeInv', sent' = sent, net' \subseteq net, UNCHANGED proposerVars
    PROVE  CountInv'
<1>1. /\ AcceptorTypeOK'
      /\ UNCHANGED <<phaseOneVars, phaseOneDone, acceptsOut>>
  BY DEF CountInv, TypeInv, AcceptorInv, proposerVars, queueVars
<1>2. PromisesAddressed'
  BY DEF PromisesAddressed, CountInv, Sent
<1>3. \A p \in Node : Counting(p)'
  BY <1>1, CountingKept DEF CountInv, phaseOneVars, Sent
<1>4. AcceptsHaveMajority'
  BY <1>1, MajorityKept DEF CountInv, Sent
<1> QED BY <1>2, <1>3, <1>4 DEF CountInv

LEMMA InitCounts == Init => CountInv
<1> SUFFICES ASSUME Init PROVE CountInv
  OBVIOUS
<1>1. TypeInv
  BY InitTypeInv
<1>2. PromisesAddressed /\ AcceptsHaveMajority
  BY DEF Init, NetInit, PromisesAddressed, AcceptsHaveMajority, Sent
<1>3. ASSUME NEW p \in Node PROVE Counting(p)
  <2>1. Counted(p) = {} /\ promiseCount[p] = 0 /\ ~ phaseOneDone[p]
    BY DEF Init, ProposerInit, Counted
  <2> QED BY <2>1, FS_EmptySet DEF Counting
<1> QED BY <1>1, <1>2, <1>3 DEF CountInv

THEOREM CountInvariance == Spec => []CountInv
<1>1. ASSUME CountInv, [Next]_vars
      PROVE  CountInv'
  <2>1. CASE UNCHANGED vars
    BY <1>1, <2>1, StutterTypeInv, QuietStepCounts DEF CountInv, vars, netVars
  <2>2. CASE Next
    <3>1. TypeInv'
      BY <1>1, <2>2, NextTypeInv DEF CountInv
    <3>2. ASSUME NEW a \in Node, AcceptorStep(a) PROVE CountInv'
      BY <1>1, <3>1, <3>2, AcceptorStepCounts
    <3>3. ASSUME NEW p \in Proposing, ProposerStep(p) PROVE CountInv'
      BY <1>1, <3>1, <3>3, ProposerStepCounts, ActiveAssumption
    <3>4. ASSUME NEW n \in Proposing \cup Listener, SlotDecided(n) PROVE CountInv'
      BY <1>1, <3>1, <3>4, SlotDecidedCounts, ActiveAssumption
    <3>5. ASSUME NEW n \in Listener, TakeLearn(n) PROVE CountInv'
      BY <1>1, <3>1, <3>5, QuietStepCounts DEF TakeLearn, Exchange
    <3> QED BY <2>2, <3>2, <3>3, <3>4, <3>5 DEF Next, Steps
  <2> QED BY <1>1, <2>1, <2>2
<1> QED BY <1>1, InitCounts, PTL DEF Spec

\* An accept of a round is sent only when a majority of nodes promised that
\* round to its proposer, irregular rounds or not (proposer.go:184-207).
THEOREM MajorityBeforeAccept == Spec => []AcceptsHaveMajority
BY CountInvariance, PTL DEF CountInv
-----------------------------------------------------------------------------
\* Safety while rounds are regular.

\* The rounds of proposer p: p, p + N, p + 2N, ...
OwnRound(p, r) == \E k \in 0 .. r : r = p + k * N

\* The acceptors that voted for another value of slot s in round k, or still may.
Against(s, k, v) ==
    {l.From : l \in {m \in Sent("LEARN") : m.Slot = s /\ m.Rnd = k /\ m.Val # v}}
    \cup {a \in Node : accepted_rounds[a] <= k}

\* No value but v can be chosen in slot s below round r.
SafeAt(s, r, v) == \A k \in 0 .. (r - 1) : ~ IsQuorum(Against(s, k, v))

\* No value at all can.
Free(s, r) == \A v \in AnyValue : SafeAt(s, r, v)

-----------------------------------------------------------------------------
\* Rounds belong to their proposers, and prepares start at slots they count.
RoundsOwned ==
    /\ \A p \in Node : OwnRound(p, crnd[p])
    /\ \A c \in Sent("ACCEPT") : OwnRound(c.From, c.Rnd)
    /\ \A q \in Sent("PREPARE") : q.Slot <= adu[q.From]

\* Reports held were voted for below round r, at most one vote per slot, and
\* the lower end min lies below one of those slots.
HeldVotes(held, min, r) ==
    /\ PerSlot(held)
    /\ \A e \in held :
          /\ e.Vrnd < r
          /\ \E l \in Sent("LEARN") : l.Slot = e.ID /\ l.Rnd = e.Vrnd /\ l.Val = e.Vval
    /\ min = 0 \/ \E e \in held : min <= e.ID

\* Each entry that the nodes of C promised p is held, or a later vote for its slot.
HeldFrom(C, p, held) ==
    \A a \in C : \E m \in Sent("PROMISE") :
        /\ m.From = a /\ m.To = p /\ m.Rnd = crnd[p]
        /\ \A e \in m.Slots : \E f \in held : f.ID = e.ID /\ f.Vrnd >= e.Vrnd

ReportsHeld(p) == HeldVotes(promise_slots[p], min_slot[p], crnd[p])

ReportsCounted(p) == HeldFrom(Counted(p), p, promise_slots[p])

\* The accepts that wait are those of the next slots and safe to send, and the
\* slots after them are free for the client's commands.
SafeQueue(p, accs, next) ==
    /\ next > 0
    /\ \A i \in DOMAIN accs :
          accs[i].Slot = next + i - 1 /\ SafeAt(accs[i].Slot, crnd[p], accs[i].Val)
    /\ \A s \in SlotID : s >= next + Len(accs) => Free(s, crnd[p])

\* An accept of the current round was sent with phase one done, for a slot
\* before the next one, and none is for a slot beyond the one after adu.
AcceptsBehind(p) ==
    \A c \in Sent("ACCEPT") : c.From = p =>
        /\ c.Rnd <= crnd[p] /\ c.Slot <= adu[p] + 1
        /\ c.Rnd = crnd[p] => phaseOneDone[p] /\ c.Slot < nextSlot[p]

OneValue ==
    \A c, d \in Sent("ACCEPT") : c.Slot = d.Slot /\ c.Rnd = d.Rnd => c.Val = d.Val

AcceptsSafe ==
    \A c \in Sent("ACCEPT") : c.Slot > 0 /\ SafeAt(c.Slot, c.Rnd, c.Val)

RegularInv ==
    /\ RoundsOwned
    /\ \A p \in Node :
          /\ ReportsHeld(p)
          /\ ReportsCounted(p)
          /\ phaseOneDone[p] => SafeQueue(p, acceptsOut[p], nextSlot[p])
          /\ AcceptsBehind(p)
    /\ OneValue
    /\ AcceptsSafe

SafetyInv == CountInv /\ (irregular = {} => RegularInv)

-----------------------------------------------------------------------------
LEMMA AgainstAreNodes ==
    ASSUME AcceptorTypeOK, NEW s, NEW k, NEW v
    PROVE  Against(s, k, v) \in SUBSET Node
BY KindOfMessage DEF Against, Sent, Learn

\* The acceptors that may still speak against a value only get fewer.
Fewer == \A s, v : \A k \in Int : Against(s, k, v)' \subseteq Against(s, k, v)

LEMMA SafeKept ==
    ASSUME AcceptorTypeOK, AcceptorTypeOK', Fewer, NEW s, NEW r \in Int, NEW v, SafeAt(s, r, v)
    PROVE  SafeAt(s, r, v)'
<1>1. ASSUME NEW k \in 0 .. (r - 1), IsQuorum(Against(s, k, v)')
      PROVE  FALSE
  <2>1. Against(s, k, v)' \subseteq Against(s, k, v)
    BY DEF Fewer
  <2>2. Against(s, k, v) \in SUBSET Node
    BY AgainstAreNodes
  <2>3. IsQuorum(Against(s, k, v))
    BY <1>1, <2>1, <2>2, QuorumGrows
  <2> QED BY <2>3 DEF SafeAt
<1>2. SafeAt(s, r, v)' <=> \A k \in 0 .. (r - 1) : ~ IsQuorum(Against(s, k, v)')
  BY DEF SafeAt, IsQuorum
<1> QED BY <1>1, <1>2

LEMMA FreeKept ==
    ASSUME AcceptorTypeOK, AcceptorTypeOK', Fewer, NEW s, NEW r \in Int, Free(s, r)
    PROVE  Free(s, r)'
<1>1. \A v \in AnyValue : SafeAt(s, r, v)'
  BY SafeKept DEF Free
<1> QED BY <1>1 DEF Free

\* A round belongs to one proposer.
LEMMA OwnersDiffer ==
    ASSUME NEW p \in Node, NEW q \in Node, NEW r \in Nat, OwnRound(p, r), OwnRound(q, r)
    PROVE  p = q
<1>1. PICK k \in 0 .. r : r = p + k * N
  BY DEF OwnRound
<1>2. PICK j \in 0 .. r : r = q + j * N
  BY DEF OwnRound
<1>3. p \in Int /\ 0 <= p /\ p < N /\ q \in Int /\ 0 <= q /\ q < N
  BY NAssumption DEF Node
<1>4. p - q = (j - k) * N
  BY <1>1, <1>2, <1>3, NAssumption
<1>5. - N < p - q /\ p - q < N
  BY <1>3, NAssumption
<1>6. j - k = 0
  BY <1>4, <1>5, NAssumption
<1> QED BY <1>3, <1>4, <1>6, NAssumption

LEMMA NextOwnRound ==
    ASSUME NEW p \in Node, NEW r \in Nat, OwnRound(p, r)
    PROVE  OwnRound(p, r + N)
<1>1. PICK k \in 0 .. r : r = p + k * N
  BY DEF OwnRound
<1>2. k + 1 \in 0 .. (r + N) /\ r + N = p + (k + 1) * N
  BY <1>1, NAssumption DEF Node
<1> QED BY <1>2 DEF OwnRound

-----------------------------------------------------------------------------
\* What the votes of a prepare's or an accept's handler leave of Against.
LEMMA AcceptorStepFewer ==
    ASSUME TypeInv, NEW a \in Node, AcceptorStep(a)
    PROVE  /\ Fewer
           /\ Sent("ACCEPT")' = Sent("ACCEPT")
           /\ Sent("PREPARE")' = Sent("PREPARE")
           /\ Sent("PROMISE") \subseteq Sent("PROMISE")'
           /\ Sent("LEARN") \subseteq Sent("LEARN")'
<1> USE DEF TypeInv, AcceptorInv
<1>1. accepted_rounds \in [Node -> Round \cup {NoRound}]
  BY DEF AcceptorTypeOK
<1>2. ASSUME NEW m \in Waiting(a, "PREPARE"), handlePrepare(a, m)
      PROVE  /\ Fewer
             /\ Sent("ACCEPT")' = Sent("ACCEPT")
             /\ Sent("PREPARE")' = Sent("PREPARE")
             /\ Sent("PROMISE") \subseteq Sent("PROMISE")'
             /\ Sent("LEARN") \subseteq Sent("LEARN")'
  <2> DEFINE q == PromiseFor(a, m)
  <2>1. sent' = sent \cup {q}
    BY <1>2 DEF handlePrepare, Exchange, PromiseFor
  <2>2. q.type = "PROMISE"
    BY DEF PromiseFor
  <2> HIDE DEF q
  <2>3. /\ Sent("ACCEPT")' = Sent("ACCEPT")
        /\ Sent("PREPARE")' = Sent("PREPARE")
        /\ Sent("PROMISE") \subseteq Sent("PROMISE")'
        /\ Sent("LEARN")' = Sent("LEARN")
    BY <2>1, <2>2 DEF Sent
  <2>4. m \in Prepare
    BY KindOfMessage DEF Waiting
  <2>5. accepted_rounds' = [accepted_rounds EXCEPT ![a] = m.Crnd]
        /\ m.Crnd > accepted_rounds[a] /\ m.Crnd \in Round
    BY <1>2, <2>4 DEF handlePrepare, Prepare
  <2>6. ASSUME NEW s, NEW v, NEW k \in Int, NEW b \in Against(s, k, v)'
        PROVE  b \in Against(s, k, v)
    <3>1. CASE b \in {l.From : l \in {n \in Sent("LEARN") :
                                 n.Slot = s /\ n.Rnd = k /\ n.Val # v}}
      BY <3>1 DEF Against
    <3>2. CASE b \in Node /\ accepted_rounds'[b] <= k
      <4>1. CASE b # a
        BY <1>1, <2>5, <3>2, <4>1 DEF Against
      <4>2. CASE b = a
        <5>1. accepted_rounds[a] <= k
          BY <1>1, <2>5, <3>2, <4>2 DEF Round, NoRound
        <5> QED BY <4>2, <5>1 DEF Against
      <4> QED BY <4>1, <4>2
    <3> QED BY <2>3, <3>1, <3>2 DEF Against
  <2> QED BY <2>3, <2>6 DEF Fewer
<1>3. ASSUME NEW m \in Waiting(a, "ACCEPT"), handleAccept(a, m)
      PROVE  /\ Fewer
             /\ Sent("ACCEPT")' = Sent("ACCEPT")
             /\ Sent("PREPARE")' = Sent("PREPARE")
             /\ Sent("PROMISE") \subseteq Sent("PROMISE")'
             /\ Sent("LEARN") \subseteq Sent("LEARN")'
  <2> DEFINE l == LearnFor(a, m)
  <2>1. sent' = sent \cup {l}
    BY <1>3 DEF handleAccept, Exchange, LearnFor
  <2>2. l.type = "LEARN" /\ l.From = a /\ l.Rnd = m.Rnd
    BY DEF LearnFor
  <2> HIDE DEF l
  <2>3. /\ Sent("ACCEPT")' = Sent("ACCEPT")
        /\ Sent("PREPARE")' = Sent("PREPARE")
        /\ Sent("PROMISE")' = Sent("PROMISE")
        /\ Sent("LEARN")' = Sent("LEARN") \cup {l}
    BY <2>1, <2>2 DEF Sent
  <2>4. m \in Accept
    BY KindOfMessage DEF Waiting
  <2>5. accepted_rounds' = [accepted_rounds EXCEPT ![a] = m.Rnd]
        /\ m.Rnd >= accepted_rounds[a] /\ m.Rnd \in Round
    BY <1>3, <2>4 DEF handleAccept, Accept
  <2>6. ASSUME NEW s, NEW v, NEW k \in Int, NEW b \in Against(s, k, v)'
        PROVE  b \in Against(s, k, v)
    <3>1. CASE b \in {d.From : d \in {n \in Sent("LEARN") :
                                 n.Slot = s /\ n.Rnd = k /\ n.Val # v}}
      BY <3>1 DEF Against
    <3>2. CASE b = a /\ m.Rnd = k
      BY <1>1, <2>5, <3>2 DEF Against
    <3>3. CASE b \in Node /\ accepted_rounds'[b] <= k
      <4>1. CASE b # a
        BY <1>1, <2>5, <3>3, <4>1 DEF Against
      <4>2. CASE b = a
        <5>1. accepted_rounds[a] <= k
          BY <1>1, <2>5, <3>3, <4>2 DEF Round, NoRound
        <5> QED BY <4>2, <5>1 DEF Against
      <4> QED BY <4>1, <4>2
    <3> QED BY <2>2, <2>3, <3>1, <3>2, <3>3 DEF Against
  <2> QED BY <2>3, <2>6 DEF Fewer
<1> QED BY <1>2, <1>3 DEF AcceptorStep

-----------------------------------------------------------------------------
\* The parts of a proposer's state kept, with the votes it relies on.
LEMMA ReportsHeldKept ==
    ASSUME NEW p \in Node, ReportsHeld(p), Sent("LEARN") \subseteq Sent("LEARN")',
           promise_slots'[p] = promise_slots[p], min_slot'[p] = min_slot[p],
           crnd[p] \in Int, crnd'[p] \in Int, crnd[p] <= crnd'[p],
           \A e \in promise_slots[p] : e.Vrnd \in Int
    PROVE  ReportsHeld(p)'
BY DEF ReportsHeld, HeldVotes

LEMMA ReportsCountedKept ==
    ASSUME NEW p \in Node, ReportsCounted(p), Sent("PROMISE") \subseteq Sent("PROMISE")',
           promise_slots'[p] = promise_slots[p], promises'[p] = promises[p],
           crnd'[p] = crnd[p]
    PROVE  ReportsCounted(p)'
BY DEF ReportsCounted, HeldFrom, Counted

LEMMA SafeQueueKept ==
    ASSUME AcceptorTypeOK, AcceptorTypeOK', Fewer, NEW p \in Node, crnd[p] \in Int,
           crnd'[p] = crnd[p], acceptsOut'[p] = acceptsOut[p],
           nextSlot'[p] = nextSlot[p], SafeQueue(p, acceptsOut[p], nextSlot[p])
    PROVE  SafeQueue(p, acceptsOut[p], nextSlot[p])'
<1>1. \A i \in DOMAIN acceptsOut[p] :
         SafeAt(acceptsOut[p][i].Slot, crnd[p], acceptsOut[p][i].Val)'
  BY SafeKept DEF SafeQueue
<1>2. \A s \in SlotID : s >= nextSlot[p] + Len(acceptsOut[p]) => Free(s, crnd[p])'
  BY FreeKept DEF SafeQueue
<1> QED BY <1>1, <1>2 DEF SafeQueue, Free, SafeAt, Against, Sent

LEMMA AcceptsSafeKept ==
    ASSUME AcceptorTypeOK, AcceptorTypeOK', Fewer, AcceptsSafe
    PROVE  \A c \in Sent("ACCEPT") : SafeAt(c.Slot, c.Rnd, c.Val)'
<1>1. \A c \in Sent("ACCEPT") : c.Rnd \in Int
  BY KindOfMessage DEF Sent, Accept, Round
<1> QED BY <1>1, SafeKept DEF AcceptsSafe

\* A step that leaves the proposers alone.
LEMMA ProposersKept ==
    ASSUME TypeInv, TypeInv', RegularInv, UNCHANGED proposerVars, Fewer,
           Sent("ACCEPT")' = Sent("ACCEPT"),
           Sent("PREPARE")' = Sent("PREPARE"),
           Sent("PROMISE") \subseteq Sent("PROMISE")',
           Sent("LEARN") \subseteq Sent("LEARN")'
    PROVE  RegularInv'
<1>1. /\ AcceptorTypeOK /\ AcceptorTypeOK'
      /\ crnd \in [Node -> Round] /\ promise_slots \in [Node -> SUBSET PromiseSlot]
  BY DEF TypeInv, AcceptorInv, ProposerTypeOK
<1>2. /\ crnd' = crnd /\ promises' = promises /\ phaseOneDone' = phaseOneDone
      /\ acceptsOut' = acceptsOut /\ promise_slots' = promise_slots
      /\ min_slot' = min_slot /\ nextSlot' = nextSlot /\ adu' = adu
  BY DEF proposerVars, phaseOneVars, reportVars, queueVars
<1>3. RoundsOwned'
  BY <1>2 DEF RegularInv, RoundsOwned
<1>4. ASSUME NEW p \in Node
      PROVE  /\ ReportsHeld(p)' /\ ReportsCounted(p)' /\ AcceptsBehind(p)'
             /\ (phaseOneDone[p] => SafeQueue(p, acceptsOut[p], nextSlot[p]))'
  <2>1. crnd[p] \in Int /\ \A e \in promise_slots[p] : e.Vrnd \in Int
    BY <1>1 DEF Round, PromiseSlot
  <2>2. ReportsHeld(p)'
    BY <1>2, <2>1, ReportsHeldKept DEF RegularInv
  <2>3. ReportsCounted(p)'
    BY <1>2, ReportsCountedKept DEF RegularInv
  <2>4. AcceptsBehind(p)'
    BY <1>2 DEF RegularInv, AcceptsBehind
  <2>5. ASSUME phaseOneDone'[p] PROVE SafeQueue(p, acceptsOut[p], nextSlot[p])'
    BY <1>1, <1>2, <2>1, <2>5, SafeQueueKept DEF RegularInv
  <2> QED BY <2>2, <2>3, <2>4, <2>5
<1>5. OneValue'
  BY DEF RegularInv, OneValue
<1>6. AcceptsSafe'
  BY <1>1, AcceptsSafeKept DEF RegularInv, AcceptsSafe
<1> QED BY <1>3, <1>4, <1>5, <1>6 DEF RegularInv

LEMMA AcceptorStepSafe ==
    ASSUME TypeInv, TypeInv', RegularInv, NEW a \in Node, AcceptorStep(a)
    PROVE  RegularInv'
BY AcceptorStepFewer, ProposersKept DEF AcceptorStep

\* Nothing sent, nothing voted.
LEMMA QuietStepSafe ==
    ASSUME TypeInv, TypeInv', RegularInv, UNCHANGED <<acceptorVars, proposerVars, sent>>
    PROVE  RegularInv'
<1>1. Fewer
  BY DEF Fewer, Against, Sent, acceptorVars
<1> QED BY <1>1, ProposersKept DEF Sent

-----------------------------------------------------------------------------
\* What the actions of p leave to the other proposers.
OthersSame(p) ==
    \A q \in Node \ {p} :
        /\ crnd'[q] = crnd[q] /\ promises'[q] = promises[q]
        /\ phaseOneDone'[q] = phaseOneDone[q] /\ acceptsOut'[q] = acceptsOut[q]
        /\ promise_slots'[q] = promise_slots[q] /\ min_slot'[q] = min_slot[q]
        /\ nextSlot'[q] = nextSlot[q] /\ adu'[q] = adu[q]

\* The accepts of this step are p's, of its round, safe, and the only ones of
\* their slot and round.
NewAccepts(p) ==
    \A c \in Sent("ACCEPT")' \ Sent("ACCEPT") :
        /\ c.From = p /\ c.Rnd = crnd[p]
        /\ c.Slot > 0 /\ SafeAt(c.Slot, c.Rnd, c.Val)
        /\ \A d \in Sent("ACCEPT")' : d.Slot = c.Slot /\ d.Rnd = c.Rnd => d.Val = c.Val

NewPrepares(p) ==
    \A q \in Sent("PREPARE")' \ Sent("PREPARE") : q.From = p /\ q.Slot = adu[p]

\* From the parts that differ between the actions of p to the invariant.
LEMMA ProposerStepSafe ==
    ASSUME TypeInv, TypeInv', RegularInv, NEW p \in Node, Proposes,
           UNCHANGED acceptorVars, OthersSame(p), NewAccepts(p), NewPrepares(p),
           adu[p] <= adu'[p], OwnRound(p, crnd'[p]),
           ReportsHeld(p)', ReportsCounted(p)', AcceptsBehind(p)',
           (phaseOneDone[p] => SafeQueue(p, acceptsOut[p], nextSlot[p]))'
    PROVE  RegularInv'
<1>1. /\ AcceptorTypeOK /\ AcceptorTypeOK'
      /\ crnd \in [Node -> Round] /\ promise_slots \in [Node -> SUBSET PromiseSlot]
      /\ adu \in [Node -> SlotID] /\ adu' \in [Node -> SlotID]
  BY DEF TypeInv, AcceptorInv, ProposerTypeOK
<1>2. /\ Sent("PROMISE")' = Sent("PROMISE") /\ Sent("LEARN")' = Sent("LEARN")
      /\ Sent("ACCEPT") \subseteq Sent("ACCEPT")'
      /\ Sent("PREPARE") \subseteq Sent("PREPARE")'
  BY DEF Proposes, Sent, Prepare, Accept
<1>3. Fewer
  BY <1>2 DEF Fewer, Against, acceptorVars
<1>4. RoundsOwned'
  <2>1. \A q \in Node : OwnRound(q, crnd'[q])
    BY DEF OthersSame, RegularInv, RoundsOwned
  <2>2. \A c \in Sent("ACCEPT")' : OwnRound(c.From, c.Rnd)
    BY DEF NewAccepts, RegularInv, RoundsOwned
  <2>3. \A q \in Sent("PREPARE")' : q.Slot <= adu'[q.From]
    <3>1. \A q \in Sent("PREPARE") : q.Slot \in Int /\ q.From \in Node /\ q.Slot <= adu[q.From]
      BY <1>1, KindOfMessage DEF Sent, Prepare, SlotID, RegularInv, RoundsOwned
    <3>2. \A q \in Node : adu[q] \in Int /\ adu'[q] \in Int /\ adu[q] <= adu'[q]
      BY <1>1, BoundAssumption DEF SlotID, OthersSame
    <3> QED BY <3>1, <3>2 DEF NewPrepares
  <2> QED BY <2>1, <2>2, <2>3 DEF RoundsOwned, OwnRound
<1>5. ASSUME NEW q \in Node \ {p}
      PROVE  /\ ReportsHeld(q)' /\ ReportsCounted(q)' /\ AcceptsBehind(q)'
             /\ (phaseOneDone[q] => SafeQueue(q, acceptsOut[q], nextSlot[q]))'
  <2>0. /\ crnd'[q] = crnd[q] /\ promises'[q] = promises[q]
        /\ phaseOneDone'[q] = phaseOneDone[q] /\ acceptsOut'[q] = acceptsOut[q]
        /\ promise_slots'[q] = promise_slots[q] /\ min_slot'[q] = min_slot[q]
        /\ nextSlot'[q] = nextSlot[q] /\ adu'[q] = adu[q]
    BY DEF OthersSame
  <2>1. crnd[q] \in Int /\ \A e \in promise_slots[q] : e.Vrnd \in Int
    BY <1>1 DEF Round, PromiseSlot
  <2>2. ReportsHeld(q)'
    BY <1>2, <2>0, <2>1, ReportsHeldKept DEF RegularInv
  <2>3. ReportsCounted(q)'
    BY <1>2, <2>0, ReportsCountedKept DEF RegularInv
  <2>4. AcceptsBehind(q)'
    BY <2>0 DEF RegularInv, AcceptsBehind, NewAccepts
  <2>5. ASSUME phaseOneDone'[q] PROVE SafeQueue(q, acceptsOut[q], nextSlot[q])'
    BY <1>1, <1>3, <2>0, <2>1, <2>5, SafeQueueKept DEF RegularInv
  <2> QED BY <2>2, <2>3, <2>4, <2>5
<1>6. OneValue'
  BY DEF RegularInv, OneValue, NewAccepts
<1>7. AcceptsSafe'
  <2>1. \A c \in Sent("ACCEPT")' \ Sent("ACCEPT") :
           c.Slot > 0 /\ SafeAt(c.Slot, c.Rnd, c.Val)'
    BY <1>2 DEF NewAccepts, SafeAt, Against, acceptorVars
  <2> QED BY <1>1, <1>3, <2>1, AcceptsSafeKept DEF RegularInv, AcceptsSafe
<1>8. \A q \in Node :
         /\ ReportsHeld(q)' /\ ReportsCounted(q)' /\ AcceptsBehind(q)'
         /\ (phaseOneDone[q] => SafeQueue(q, acceptsOut[q], nextSlot[q]))'
  BY <1>5
<1> QED BY <1>4, <1>6, <1>7, <1>8 DEF RegularInv

-----------------------------------------------------------------------------
\* A safe queue is one of the next slot when its head is sent, or when it is
\* empty and a command goes to the next slot, which is free.
LEMMA HeadIsSafe ==
    ASSUME NEW p \in Node, NEW next \in Nat, NEW accs \in Seq(Accept), accs # << >>,
           SafeQueue(p, accs, next)
    PROVE  /\ Head(accs).Slot = next /\ SafeAt(next, crnd[p], Head(accs).Val)
           /\ SafeQueue(p, Tail(accs), next + 1)
<1>1. 1 \in DOMAIN accs /\ Head(accs) = accs[1] /\ Len(accs) \in Nat
  BY HeadTailProperties
<1>2. Head(accs).Slot = next /\ SafeAt(next, crnd[p], Head(accs).Val)
  BY <1>1 DEF SafeQueue
<1>3. /\ Len(Tail(accs)) = Len(accs) - 1
      /\ \A i \in DOMAIN Tail(accs) :
            i \in Nat /\ i + 1 \in DOMAIN accs /\ Tail(accs)[i] = accs[i + 1]
  BY HeadTailProperties
<1>4. ASSUME NEW i \in DOMAIN Tail(accs)
      PROVE  /\ Tail(accs)[i].Slot = (next + 1) + i - 1
             /\ SafeAt(Tail(accs)[i].Slot, crnd[p], Tail(accs)[i].Val)
  BY <1>3 DEF SafeQueue
<1>5. \A s \in SlotID : s >= (next + 1) + Len(Tail(accs)) => Free(s, crnd[p])
  BY <1>1, <1>3 DEF SafeQueue
<1> QED BY <1>2, <1>4, <1>5 DEF SafeQueue

LEMMA NextIsFree ==
    ASSUME NEW p \in Node, NEW next \in SlotID, NEW v \in AnyValue,
           NEW accs, accs = << >>, SafeQueue(p, accs, next)
    PROVE  SafeAt(next, crnd[p], v) /\ SafeQueue(p, accs, next + 1)
<1>1. Len(accs) = 0 /\ next \in Int
  BY DEF SlotID
<1>2. \A s \in SlotID : s >= next => Free(s, crnd[p])
  BY <1>1 DEF SafeQueue, SlotID
<1>3. \A s \in SlotID : s >= next + 1 + Len(accs) => Free(s, crnd[p])
  BY <1>1, <1>2 DEF SlotID
<1>4. DOMAIN accs = {}
  OBVIOUS
<1> QED BY <1>1, <1>2, <1>3, <1>4 DEF SafeQueue, Free

\* What sendAccept does with a safe queue: nothing, or one accept of the next slot.
SendsSafely(p, M, rest, next, up, upTo) ==
    /\ nextSlot' = [nextSlot EXCEPT ![p] = up]
    /\ acceptsOut' = [acceptsOut EXCEPT ![p] = rest]
    /\ sent' = sent \cup M
    /\ SafeQueue(p, rest, up)
    /\ M \subseteq Accept
    /\ \/ M = {} /\ up = next
       \/ /\ up = next + 1 /\ next > 0 /\ next <= upTo + 1
          /\ \A c \in M : /\ c.From = p /\ c.Rnd = crnd[p] /\ c.Slot = next
                          /\ SafeAt(c.Slot, c.Rnd, c.Val)
                          /\ \A d \in M : d = c

LEMMA SendAcceptSafe ==
    ASSUME NEW p \in Node, crnd[p] \in Round, NEW taken, NEW upTo,
           NEW next \in 0 .. MaxSlot + 1, NEW accs \in Seq(Accept),
           NEW reqs \in Seq(Value), sendAccept(p, taken, upTo, next, accs, reqs),
           SafeQueue(p, accs, next),
           \A i \in DOMAIN accs : accs[i].From = p /\ accs[i].Rnd = crnd[p]
    PROVE  \E M, rest, up : SendsSafely(p, M, rest, next, up, upTo)
<1> DEFINE new == [type |-> "ACCEPT", From |-> p, Slot |-> next,
                   Rnd |-> crnd[p], Val |-> Head(reqs)]
<1>0. next \in Nat /\ next > 0 /\ (next <= MaxSlot => next \in SlotID)
  BY BoundAssumption DEF SlotID, SafeQueue
<1>1. CASE /\ next <= MaxSlot /\ next <= upTo + 1 /\ accs # << >>
           /\ nextSlot' = [nextSlot EXCEPT ![p] = next + 1]
           /\ acceptsOut' = [acceptsOut EXCEPT ![p] = Tail(accs)]
           /\ Exchange(taken, Node, {Head(accs)})
  <2>1. /\ Head(accs) \in Accept /\ Head(accs) = accs[1] /\ 1 \in DOMAIN accs
    BY <1>1, HeadTailProperties
  <2>2. Head(accs).From = p /\ Head(accs).Rnd = crnd[p]
    BY <2>1
  <2>3. /\ Head(accs).Slot = next /\ SafeAt(next, crnd[p], Head(accs).Val)
        /\ SafeQueue(p, Tail(accs), next + 1)
    BY <1>0, <1>1, HeadIsSafe
  <2>4. SendsSafely(p, {Head(accs)}, Tail(accs), next, next + 1, upTo)
    BY <1>0, <1>1, <2>1, <2>2, <2>3 DEF SendsSafely, Exchange
  <2> QED BY <2>4
<1>2. CASE /\ next <= MaxSlot /\ next <= upTo + 1 /\ accs = << >> /\ reqs # << >>
           /\ nextSlot' = [nextSlot EXCEPT ![p] = next + 1]
           /\ acceptsOut' = [acceptsOut EXCEPT ![p] = accs]
           /\ Exchange(taken, Node, {new})
  <2>1. Head(reqs) \in AnyValue
    BY <1>2, HeadTailProperties DEF AnyValue
  <2>2. SafeAt(next, crnd[p], Head(reqs)) /\ SafeQueue(p, accs, next + 1)
    BY <1>0, <1>2, <2>1, NextIsFree
  <2>3. new \in Accept
    BY <1>0, <1>2, <2>1 DEF Accept
  <2>4. /\ new.From = p /\ new.Rnd = crnd[p] /\ new.Slot = next
        /\ SafeAt(new.Slot, new.Rnd, new.Val)
    BY <2>2
  <2>5. Exchange(taken, Node, {new})
    BY <1>2
  <2> HIDE DEF new
  <2>6. SendsSafely(p, {new}, accs, next, next + 1, upTo)
    BY <1>0, <1>2, <2>2, <2>3, <2>4, <2>5 DEF SendsSafely, Exchange
  <2> QED BY <2>6
<1>3. CASE /\ nextSlot' = [nextSlot EXCEPT ![p] = next]
           /\ acceptsOut' = [acceptsOut EXCEPT ![p] = accs]
           /\ Exchange(taken, Node, {})
  <2>1. SendsSafely(p, {}, accs, next, next, upTo)
    BY <1>3 DEF SendsSafely, Exchange
  <2> QED BY <2>1
<1> QED BY <1>1, <1>2, <1>3 DEF sendAccept, alpha

\* The accepts sent are new ones of p's round, when those sent before in it are
\* of lower slots.
LEMMA SentAreNew ==
    ASSUME TypeInv, RegularInv, NEW p \in Node, phaseOneDone'[p], crnd' = crnd,
           adu[p] <= adu'[p], adu'[p] \in Int,
           NEW M, NEW rest, NEW next \in Nat, NEW up, NEW upTo, upTo = adu'[p],
           SendsSafely(p, M, rest, next, up, upTo),
           \A c \in Sent("ACCEPT") : c.From = p /\ c.Rnd = crnd[p] => c.Slot < next
    PROVE  /\ NewAccepts(p) /\ AcceptsBehind(p)'
           /\ Sent("PREPARE")' = Sent("PREPARE")
<1> USE DEF SendsSafely
<1>1. /\ AcceptorTypeOK /\ crnd[p] \in Nat /\ crnd \in [Node -> Round]
      /\ nextSlot \in [Node -> 0 .. MaxSlot + 1] /\ adu[p] \in Int
  BY BoundAssumption DEF TypeInv, AcceptorInv, ProposerTypeOK, Round, SlotID
<1>2. /\ Sent("ACCEPT")' = Sent("ACCEPT") \cup M
      /\ Sent("PREPARE")' = Sent("PREPARE")
  BY DEF Sent, Accept
<1>3. \A d \in Sent("ACCEPT") : d \in Accept /\ d.From \in Node /\ d.Slot \in Nat
  BY <1>1, KindOfMessage, BoundAssumption DEF Sent, Accept, SlotID
<1>4. NewAccepts(p)
  <2>1. ASSUME NEW c \in M, NEW d \in Sent("ACCEPT"), d.Slot = c.Slot, d.Rnd = c.Rnd
        PROVE  FALSE
    <3>1. c.From = p /\ c.Rnd = crnd[p] /\ c.Slot = next
      BY <2>1
    <3>2. OwnRound(d.From, crnd[p]) /\ OwnRound(p, crnd[p])
      BY <2>1, <3>1 DEF RegularInv, RoundsOwned
    <3>3. d.From = p
      BY <1>1, <1>3, <3>2, OwnersDiffer
    <3>4. d.Slot < next
      BY <2>1, <3>1, <3>3
    <3> QED BY <1>3, <2>1, <3>1, <3>4
  <2> QED BY <1>2, <2>1 DEF NewAccepts
<1>5. AcceptsBehind(p)'
  <2>1. nextSlot'[p] = up /\ up \in Int /\ next <= up
    BY <1>1
  <2>2. ASSUME NEW c \in Sent("ACCEPT"), c.From = p
        PROVE  c.Rnd <= crnd[p] /\ c.Slot <= adu'[p] + 1 /\ (c.Rnd = crnd[p] => c.Slot < up)
    <3>1. c.Rnd <= crnd[p] /\ c.Slot <= adu[p] + 1
      BY <2>2 DEF RegularInv, AcceptsBehind
    <3>2. c.Rnd = crnd[p] => c.Slot < next
      BY <2>2
    <3> QED BY <1>1, <1>3, <2>1, <3>1, <3>2
  <2>3. \A c \in M : c.Rnd <= crnd[p] /\ c.Slot < up /\ c.Slot <= adu'[p] + 1
    BY <1>1
  <2> QED BY <1>2, <2>1, <2>2, <2>3 DEF AcceptsBehind
<1> QED BY <1>2, <1>4, <1>5

\* A queue that is safe stays so in a step in which nobody votes.
LEMMA RestStaysSafe ==
    ASSUME NEW p \in Node, NEW accs, NEW next, SafeQueue(p, accs, next),
           crnd'[p] = crnd[p], UNCHANGED acceptorVars, Sent("LEARN")' = Sent("LEARN")
    PROVE  SafeQueue(p, accs, next)'
<1>1. \A s, k, v : Against(s, k, v)' = Against(s, k, v)
  BY DEF Against, acceptorVars
<1>2. \A s, r, v : SafeAt(s, r, v)' <=> SafeAt(s, r, v)
  BY <1>1 DEF SafeAt, IsQuorum
<1>3. \A s, r : Free(s, r)' <=> Free(s, r)
  BY <1>2 DEF Free
<1> QED BY <1>2, <1>3 DEF SafeQueue

-----------------------------------------------------------------------------
\* A step of p that proposes from its queues: a client value, a slot decided.
LEMMA QueueStepSafe ==
    ASSUME CountInv, TypeInv', RegularInv, NEW p \in Node, Proposes, phaseOneDone[p],
           NEW upTo, upTo = adu'[p], NEW reqs \in Seq(Value),
           sendAccept(p, {}, upTo, nextSlot[p], acceptsOut[p], reqs),
           UNCHANGED <<acceptorVars, phaseOneVars, reportVars, phaseOneDone>>,
           adu[p] <= adu'[p], \A q \in Node \ {p} : adu'[q] = adu[q]
    PROVE  RegularInv'
<1>1. /\ TypeInv /\ crnd[p] \in Round /\ acceptsOut[p] \in Seq(Accept)
      /\ acceptsOut \in [Node -> Seq(Accept)]
      /\ nextSlot \in [Node -> 0 .. MaxSlot + 1] /\ nextSlot[p] \in Nat
      /\ adu[p] \in Int /\ adu'[p] \in Int
  <2>1. TypeInv /\ ProposerTypeOK
    BY DEF CountInv, TypeInv
  <2>2. nextSlot[p] \in 0 .. MaxSlot + 1
    BY <2>1 DEF ProposerTypeOK
  <2>3. \A x \in SlotID : x \in Int
    BY BoundAssumption DEF SlotID
  <2>4. adu[p] \in SlotID /\ adu'[p] \in SlotID
    BY <2>1 DEF TypeInv, ProposerTypeOK
  <2> QED BY <2>1, <2>2, <2>3, <2>4, BoundAssumption DEF ProposerTypeOK
<1>2. \A i \in DOMAIN acceptsOut[p] :
         acceptsOut[p][i].From = p /\ acceptsOut[p][i].Rnd = crnd[p]
  BY DEF CountInv, Counting
<1>3. SafeQueue(p, acceptsOut[p], nextSlot[p])
  BY DEF RegularInv
<1>4. PICK M, rest, up : SendsSafely(p, M, rest, nextSlot[p], up, adu'[p])
  BY <1>1, <1>2, <1>3, SendAcceptSafe
<1>5. NewAccepts(p) /\ AcceptsBehind(p)' /\ Sent("PREPARE")' = Sent("PREPARE")
  BY <1>1, <1>4, SentAreNew DEF RegularInv, AcceptsBehind, phaseOneVars
<1>6. /\ Sent("PROMISE")' = Sent("PROMISE") /\ Sent("LEARN")' = Sent("LEARN")
  BY DEF Proposes, Sent, Prepare, Accept
<1>7. OthersSame(p)
  BY <1>1, <1>4 DEF OthersSame, SendsSafely, phaseOneVars, reportVars
<1>8. ReportsHeld(p)' /\ ReportsCounted(p)'
  BY <1>6 DEF RegularInv, ReportsHeld, HeldVotes, ReportsCounted, HeldFrom,
            Counted, phaseOneVars, reportVars
<1>9. SafeQueue(p, acceptsOut[p], nextSlot[p])'
  <2>1. acceptsOut'[p] = rest /\ nextSlot'[p] = up /\ crnd'[p] = crnd[p]
    BY <1>1, <1>4 DEF SendsSafely, phaseOneVars
  <2>2. SafeQueue(p, rest, up)'
    BY <1>1, <1>4, <1>6, <2>1, RestStaysSafe DEF SendsSafely
  <2> QED BY <2>1, <2>2 DEF SafeQueue
<1>10. OwnRound(p, crnd'[p])
  BY DEF RegularInv, RoundsOwned, phaseOneVars
<1> QED BY <1>1, <1>5, <1>7, <1>8, <1>9, <1>10, ProposerStepSafe DEF NewPrepares

\* A step of p that sends no accept and leaves its counts and its reports.
LEMMA SilentStepSafe ==
    ASSUME CountInv, TypeInv', RegularInv, NEW p \in Node, Proposes, sent' = sent,
           UNCHANGED <<acceptorVars, phaseOneVars, reportVars, phaseOneDone,
                       nextSlot, acceptsOut>>,
           adu[p] <= adu'[p], \A q \in Node \ {p} : adu'[q] = adu[q]
    PROVE  RegularInv'
<1>1. TypeInv
  BY DEF CountInv
<1>2. OthersSame(p) /\ NewAccepts(p) /\ NewPrepares(p)
  BY DEF OthersSame, NewAccepts, NewPrepares, Sent, phaseOneVars, reportVars
<1>3. ReportsHeld(p)' /\ ReportsCounted(p)'
  BY DEF RegularInv, ReportsHeld, HeldVotes, ReportsCounted, HeldFrom,
         Counted, Sent, phaseOneVars, reportVars
<1>4. AcceptsBehind(p)'
  <2>1. \A x \in SlotID : x \in Int
    BY BoundAssumption DEF SlotID
  <2>2. /\ adu[p] \in Int /\ adu'[p] \in Int
        /\ \A c \in Sent("ACCEPT") : c.Slot \in Int
    BY <2>1, KindOfMessage DEF CountInv, TypeInv, AcceptorInv, ProposerTypeOK, Sent, Accept
  <2>3. \A c \in Sent("ACCEPT") : c.From = p => c.Slot <= adu'[p] + 1
    BY <2>2 DEF RegularInv, AcceptsBehind
  <2> QED BY <2>3 DEF RegularInv, AcceptsBehind, Sent, phaseOneVars
<1>5. (phaseOneDone[p] => SafeQueue(p, acceptsOut[p], nextSlot[p]))'
  <2>1. /\ AcceptorTypeOK /\ AcceptorTypeOK' /\ crnd[p] \in Int /\ crnd'[p] = crnd[p]
    BY DEF CountInv, TypeInv, AcceptorInv, ProposerTypeOK, Round, phaseOneVars
  <2>2. Fewer
    BY DEF Fewer, Against, Sent, acceptorVars
  <2> QED BY <2>1, <2>2, SafeQueueKept DEF RegularInv
<1>6. OwnRound(p, crnd'[p])
  BY DEF RegularInv, RoundsOwned, phaseOneVars
<1> QED BY <1>1, <1>2, <1>3, <1>4, <1>5, <1>6, ProposerStepSafe

\* A new round: no promise of it is counted and no accept of it is sent yet.
LEMMA StartStepSafe ==
    ASSUME CountInv, TypeInv', RegularInv, NEW p \in Node, Proposes, startPhaseOne(p),
           UNCHANGED <<acceptorVars, reportVars, queueVars, adu>>
    PROVE  RegularInv'
<1> DEFINE prepare == [type |-> "PREPARE", From |-> p, Slot |-> adu[p],
                       Crnd |-> crnd[p] + N]
<1>1. /\ TypeInv /\ AcceptorTypeOK /\ crnd \in [Node -> Round] /\ crnd[p] \in Nat
      /\ promises \in [Node -> [Node -> Round \cup {NoRound}]]
      /\ phaseOneDone \in [Node -> BOOLEAN]
      /\ \A e \in promise_slots[p] : e.Vrnd \in Int
      /\ adu \in [Node -> SlotID]
  BY BoundAssumption
     DEF CountInv, TypeInv, AcceptorInv, ProposerTypeOK, PromiseSlot, Round
<1>2. /\ crnd' = [crnd EXCEPT ![p] = crnd[p] + N]
      /\ phaseOneDone' = [phaseOneDone EXCEPT ![p] = FALSE]
      /\ promises' = [promises EXCEPT ![p] = [a \in Node |-> NoRound]]
      /\ sent' = sent \cup {prepare}
  BY DEF startPhaseOne, Exchange
<1>3. prepare.type = "PREPARE" /\ prepare.From = p /\ prepare.Slot = adu[p]
  OBVIOUS
<1> HIDE DEF prepare
<1>4. /\ Sent("ACCEPT")' = Sent("ACCEPT") /\ Sent("LEARN")' = Sent("LEARN")
      /\ NewPrepares(p)
  BY <1>2, <1>3 DEF Sent, NewPrepares
<1>5. OthersSame(p) /\ NewAccepts(p)
  BY <1>1, <1>2, <1>4 DEF OthersSame, NewAccepts, reportVars, queueVars
<1>6. crnd'[p] = crnd[p] + N /\ crnd[p] < crnd'[p] /\ crnd'[p] \in Nat
  BY <1>1, <1>2, NAssumption
<1>7. ReportsHeld(p)'
  BY <1>1, <1>4, <1>6, ReportsHeldKept DEF RegularInv, reportVars
<1>8. ReportsCounted(p)'
  BY <1>1, <1>2 DEF ReportsCounted, HeldFrom, Counted
<1>9. AcceptsBehind(p)'
  <2>1. ASSUME NEW c \in Sent("ACCEPT"), c.From = p
        PROVE  c.Rnd < crnd'[p]
    <3>1. c.Rnd \in Int
      BY <1>1, KindOfMessage DEF Sent, Accept, Round
    <3>2. c.Rnd <= crnd[p]
      BY <2>1 DEF RegularInv, AcceptsBehind
    <3> QED BY <1>1, <1>6, <3>1, <3>2
  <2>2. \A c \in Sent("ACCEPT") : c.Rnd \in Int
    BY <1>1, KindOfMessage DEF Sent, Accept, Round
  <2> QED BY <1>4, <1>6, <2>1, <2>2 DEF RegularInv, AcceptsBehind
<1>10. OwnRound(p, crnd'[p])
  BY <1>1, <1>6, NextOwnRound DEF RegularInv, RoundsOwned
<1>11. ~ phaseOneDone'[p]
  BY <1>1, <1>2
<1>12. adu[p] <= adu'[p]
  BY <1>1, BoundAssumption DEF SlotID
<1> QED BY <1>1, <1>4, <1>5, <1>7, <1>8, <1>9, <1>10, <1>11, <1>12, ProposerStepSafe

LEMMA ClientValueSafe ==
    ASSUME CountInv, TypeInv', RegularInv, NEW p \in Node, NEW v \in Request[p],
           ClientValue(p, v), UNCHANGED acceptorVars
    PROVE  RegularInv'
<1>1. /\ AcceptorTypeOK /\ ProposerTypeOK /\ requestsIn[p] \in Seq(Value)
      /\ adu \in [Node -> SlotID]
  BY DEF CountInv, TypeInv, AcceptorInv, ProposerTypeOK
<1>2. Proposes
  BY <1>1, ClientValueTypes
<1>3. UNCHANGED <<phaseOneVars, reportVars, phaseOneDone, adu>>
  BY DEF ClientValue
<1>4. adu[p] <= adu'[p] /\ \A q \in Node \ {p} : adu'[q] = adu[q]
  BY <1>1, <1>3, BoundAssumption DEF SlotID
<1>5. CASE /\ phaseOneDone[p]
           /\ sendAccept(p, {}, adu[p], nextSlot[p], acceptsOut[p],
                         Append(requestsIn[p], v))
  <2>1. Append(requestsIn[p], v) \in Seq(Value)
    BY <1>1, RequestAssumption, AppendProperties
  <2> QED BY <1>2, <1>3, <1>4, <1>5, <2>1, QueueStepSafe
<1>6. CASE UNCHANGED <<nextSlot, acceptsOut, netVars>>
  BY <1>2, <1>3, <1>4, <1>6, SilentStepSafe DEF netVars
<1> QED BY <1>5, <1>6 DEF ClientValue

LEMMA IncrementSafe ==
    ASSUME CountInv, TypeInv', RegularInv, NEW p \in Node, IncrementAllDecidedUpTo(p),
           UNCHANGED acceptorVars
    PROVE  RegularInv'
<1>1. /\ AcceptorTypeOK /\ ProposerTypeOK /\ requestsIn[p] \in Seq(Value)
      /\ adu \in [Node -> SlotID]
  BY DEF CountInv, TypeInv, AcceptorInv, ProposerTypeOK
<1>2. Proposes
  BY <1>1, IncrementTypes
<1>3. /\ UNCHANGED <<phaseOneVars, reportVars, phaseOneDone>>
      /\ adu' = [adu EXCEPT ![p] = @ + 1]
  BY DEF IncrementAllDecidedUpTo
<1>4. adu[p] <= adu'[p] /\ \A q \in Node \ {p} : adu'[q] = adu[q]
  BY <1>1, <1>3, BoundAssumption DEF SlotID
<1>5. CASE /\ phaseOneDone[p]
           /\ sendAccept(p, {}, adu[p] + 1, nextSlot[p], acceptsOut[p], requestsIn[p])
  BY <1>1, <1>2, <1>3, <1>4, <1>5, QueueStepSafe
<1>6. CASE UNCHANGED <<queueVars, netVars>>
  BY <1>2, <1>3, <1>4, <1>6, SilentStepSafe DEF netVars, queueVars
<1> QED BY <1>5, <1>6 DEF IncrementAllDecidedUpTo

LEMMA TickSafe ==
    ASSUME CountInv, TypeInv', RegularInv, NEW p \in Node, PhaseOneProgressTick(p),
           UNCHANGED acceptorVars
    PROVE  RegularInv'
BY TickTypes, StartStepSafe
   DEF PhaseOneProgressTick, CountInv, TypeInv, AcceptorInv

LEMMA TrustSafe ==
    ASSUME CountInv, TypeInv', RegularInv, NEW p \in Node, NEW l \in Trusted[p],
           Trust(p, l), UNCHANGED acceptorVars
    PROVE  RegularInv'
<1>1. AcceptorTypeOK /\ ProposerTypeOK /\ adu \in [Node -> SlotID]
  BY DEF CountInv, TypeInv, AcceptorInv, ProposerTypeOK
<1>2. Proposes
  BY <1>1, TrustTypes
<1>3. UNCHANGED <<reportVars, queueVars, adu>>
  BY DEF Trust
<1>4. CASE startPhaseOne(p)
  BY <1>2, <1>3, <1>4, StartStepSafe
<1>5. CASE UNCHANGED <<phaseOneVars, phaseOneDone, netVars>>
  <2>1. adu[p] <= adu'[p] /\ \A q \in Node \ {p} : adu'[q] = adu[q]
    BY <1>1, <1>3, BoundAssumption DEF SlotID
  <2> QED BY <1>2, <1>3, <1>5, <2>1, SilentStepSafe DEF netVars, queueVars
<1> QED BY <1>4, <1>5 DEF Trust

-----------------------------------------------------------------------------
\* Merging a report keeps one vote per slot and, per slot, the latest.
LEMMA MergedReports ==
    ASSUME NEW held \in SUBSET PromiseSlot, NEW reported \in SUBSET PromiseSlot,
           PerSlot(held), PerSlot(reported), NEW new,
           new = update_promise_slots(held, reported)
    PROVE  /\ PerSlot(new) /\ new \subseteq held \cup reported
           /\ \A e \in held \cup reported : \E f \in new : f.ID = e.ID /\ f.Vrnd >= e.Vrnd
<1>1. \A e \in held \cup reported : e.Vrnd \in Int
  BY DEF PromiseSlot, Round
<1>2. PerSlot(new) /\ new \subseteq held \cup reported
  BY <1>1 DEF update_promise_slots, PerSlot
<1>3. ASSUME NEW e \in held
      PROVE  \E f \in new : f.ID = e.ID /\ f.Vrnd >= e.Vrnd
  BY <1>1 DEF update_promise_slots, PerSlot
<1>4. ASSUME NEW e \in reported
      PROVE  \E f \in new : f.ID = e.ID /\ f.Vrnd >= e.Vrnd
  BY <1>1 DEF update_promise_slots, PerSlot
<1> QED BY <1>2, <1>3, <1>4

LEMMA LowerEndHeld ==
    ASSUME NEW held \in SUBSET PromiseSlot, NEW reported \in SUBSET PromiseSlot,
           NEW new, NEW min \in SlotID, min = 0 \/ \E e \in held : min <= e.ID,
           \A e \in held \cup reported : \E f \in new : f.ID = e.ID,
           NEW low, low = first_min_slot(held, reported, min)
    PROVE  low = 0 \/ \E f \in new : low <= f.ID
<1>1. CASE held = {} /\ reported # {}
  <2> DEFINE S == {f.ID : f \in reported}
  <2>1. S # {} /\ S \subseteq Nat
    BY <1>1, BoundAssumption DEF PromiseSlot, SlotID
  <2>2. Min(S) \in S /\ Min(S) \in Nat
    <3> HIDE DEF S
    <3> QED BY <2>1, LeastOf
  <2>3. low = Min(S)
    BY <1>1 DEF first_min_slot
  <2>4. PICK e \in reported : e.ID = Min(S)
    BY <2>2
  <2>5. PICK f \in new : f.ID = e.ID
    OBVIOUS
  <2> QED BY <2>2, <2>3, <2>4, <2>5
<1>2. CASE ~ (held = {} /\ reported # {})
  BY <1>2 DEF first_min_slot
<1> QED BY <1>1, <1>2

\* The accepts of the slots above adu, up to the last one held.
FromAdu(p, held, accs) ==
    /\ \A i \in DOMAIN accs :
          /\ i \in Nat /\ i >= 1
          /\ accs[i].Slot = adu[p] + i /\ accs[i].Slot \in SlotID
          /\ accs[i].Val = boundValue(held, adu[p] + i)
    /\ Len(accs) \in Nat
    /\ \A e \in held : e.ID <= adu[p] + Len(accs)

\* A phase one that leaves no slot out makes the accepts of the slots from adu on.
LEMMA AcceptsFromAdu ==
    ASSUME NEW p \in Node, NEW held \in SUBSET PromiseSlot, NEW min \in SlotID,
           crnd[p] \in Round, adu[p] \in SlotID,
           min = 0 \/ \E e \in held : min <= e.ID,
           NEW accs, accs = create_accept_message(p, held, min),
           accs = << >> \/ accs[1].Slot <= adu[p] + 1
    PROVE  FromAdu(p, held, accs)
<1> DEFINE S == {0} \cup {e.ID : e \in held}
<1>1. max_slot(held) \in SlotID /\ \A e \in held : e.ID \in Int /\ e.ID <= max_slot(held)
  <2>1. S \subseteq 0 .. MaxSlot /\ S # {} /\ MaxSlot \in Nat
    BY BoundAssumption DEF PromiseSlot, SlotID
  <2>2. max_slot(held) \in S /\ \A y \in S : max_slot(held) >= y
    <3> HIDE DEF S
    <3>1. Max(S) \in S /\ \A y \in S : Max(S) >= y
      BY <2>1, GreatestOf
    <3> QED BY <3>1 DEF max_slot, S
  <2>3. \A e \in held : e.ID \in S
    OBVIOUS
  <2> HIDE DEF S
  <2>4. \A y \in S : y \in Int
    BY <2>1
  <2>5. max_slot(held) \in SlotID
    BY <2>1, <2>2 DEF SlotID
  <2>6. ASSUME NEW e \in held PROVE e.ID \in Int /\ e.ID <= max_slot(held)
    BY <2>2, <2>3, <2>4
  <2> QED BY <2>5, <2>6
<1>2. PICK top \in SlotID : top = max_slot(held)
  BY <1>1
<1>3. PICK below : below = Max({min - 1, adu[p]})
  OBVIOUS
<1>4. /\ adu[p] \in Nat /\ min \in Nat /\ top \in Nat
      /\ adu[p] <= MaxSlot /\ top <= MaxSlot
  BY BoundAssumption DEF SlotID
<1>5. below \in {min - 1, adu[p]} /\ below >= adu[p] /\ below >= min - 1
  <2> DEFINE low == min - 1
  <2>1. low \in Int /\ adu[p] \in Int
    BY <1>4
  <2>2. below = Max({low, adu[p]})
    BY <1>3
  <2> HIDE DEF low
  <2>3. \E x \in {low, adu[p]} : \A y \in {low, adu[p]} : x >= y
    BY <2>1
  <2>4. below \in {low, adu[p]} /\ \A y \in {low, adu[p]} : below >= y
    BY <2>2, <2>3 DEF Max
  <2> QED BY <2>4 DEF low
<1>6. accs = [i \in 1 .. top - below |->
                 [type |-> "ACCEPT", From |-> p, Slot |-> below + i,
                  Rnd |-> crnd[p], Val |-> boundValue(held, below + i)]]
  BY <1>2, <1>3 DEF create_accept_message
<1>7. accs \in Seq(Accept) /\ Len(accs) \in Nat /\ DOMAIN accs = 1 .. Len(accs)
  <2>1. accs \in Seq(Accept)
    BY BoundAccepts
  <2> QED BY <2>1, LenProperties
<1>8. DOMAIN accs = 1 .. top - below
  BY <1>6
<1>9. CASE accs # << >>
  <2>1. Len(accs) >= 1
    BY <1>7, <1>9, EmptySeq
  <2>2. 1 \in 1 .. top - below
    <3>1. 1 \in 1 .. Len(accs)
      BY <1>7, <2>1
    <3> QED BY <1>7, <1>8, <3>1
  <2>3. accs[1].Slot = below + 1
    BY <1>6, <2>2
  <2>4. below = adu[p]
    BY <1>4, <1>5, <1>9, <2>3
  <2>5. Len(accs) = top - below
    BY <1>4, <1>7, <1>8, <2>1, <2>2, <2>4
  <2>6. ASSUME NEW i \in DOMAIN accs
        PROVE  /\ i \in Nat /\ i >= 1
               /\ accs[i].Slot = adu[p] + i /\ accs[i].Slot \in SlotID
               /\ accs[i].Val = boundValue(held, adu[p] + i)
    <3>1. i \in 1 .. top - below /\ i \in Nat /\ i >= 1
      BY <1>8
    <3>2. accs[i].Slot = below + i /\ accs[i].Val = boundValue(held, below + i)
      BY <1>6, <3>1
    <3>3. accs[i] \in Accept
      BY <1>7
    <3> QED BY <2>4, <3>1, <3>2, <3>3 DEF Accept
  <2>7. \A e \in held : e.ID <= adu[p] + Len(accs)
    BY <1>1, <1>2, <1>4, <2>4, <2>5
  <2> QED BY <1>7, <2>6, <2>7 DEF FromAdu
<1>10. CASE accs = << >>
  <2>1. Len(accs) = 0 /\ DOMAIN accs = {}
    BY <1>10
  <2>2. ~ (1 \in 1 .. top - below)
    BY <1>8, <2>1
  <2>3. top <= below
    BY <1>4, <1>5, <2>2
  <2>4. top <= adu[p]
    <3>1. CASE below = adu[p]
      BY <2>3, <3>1
    <3>2. CASE below = min - 1 /\ min = 0
      BY <1>4, <1>5, <2>3, <3>2
    <3>3. CASE below = min - 1 /\ \E e \in held : min <= e.ID
      BY <1>1, <1>2, <1>4, <2>3, <3>3
    <3> QED BY <1>5, <3>1, <3>2, <3>3
  <2> QED BY <1>1, <1>2, <1>4, <2>1, <2>4 DEF FromAdu
<1> QED BY <1>9, <1>10

-----------------------------------------------------------------------------
\* Of a majority that could still choose another value in an earlier round, one
\* acceptor promised: it voted for another value there, and reported it.
LEMMA OpponentReported ==
    ASSUME AcceptorInv, RegularInv, NEW p \in Node, crnd[p] \in Round, adu[p] \in SlotID,
           NEW C \in SUBSET Node, IsQuorum(C), NEW held \in SUBSET PromiseSlot,
           HeldFrom(C, p, held), NEW s \in SlotID, s > adu[p],
           NEW k \in 0 .. (crnd[p] - 1), NEW v, IsQuorum(Against(s, k, v))
    PROVE  /\ \E f \in held : f.ID = s /\ f.Vrnd >= k
           /\ \E l \in Sent("LEARN") : l.Slot = s /\ l.Rnd = k /\ l.Val # v
<1>1. AcceptorTypeOK /\ Against(s, k, v) \in SUBSET Node
  BY AgainstAreNodes DEF AcceptorInv
<1>2. PICK a \in C : a \in Against(s, k, v)
  BY <1>1, QuorumsMeet
<1>3. PICK m \in Sent("PROMISE") :
         /\ m.From = a /\ m.To = p /\ m.Rnd = crnd[p]
         /\ \A e \in m.Slots : \E f \in held : f.ID = e.ID /\ f.Vrnd >= e.Vrnd
  BY DEF HeldFrom
<1>4. k \in Int /\ k < crnd[p] /\ crnd[p] \in Int /\ s \in Int /\ adu[p] \in Int
  BY BoundAssumption DEF Round, SlotID
<1>5. accepted_rounds[a] >= crnd[p]
  BY <1>3 DEF AcceptorInv, SlotsHoldLastVote
<1>6. accepted_rounds[a] \in Int
  BY <1>1 DEF AcceptorTypeOK, Round, NoRound
<1>7. PICK l \in Sent("LEARN") : l.From = a /\ l.Slot = s /\ l.Rnd = k /\ l.Val # v
  BY <1>2, <1>4, <1>5, <1>6 DEF Against
<1>8. PICK q \in Sent("PREPARE") :
         /\ q.From = p /\ q.Crnd = crnd[p]
         /\ \A d \in Sent("LEARN") :
               d.From = a /\ d.Rnd < crnd[p] /\ d.Slot >= q.Slot
                 => \E e \in m.Slots : e.ID = d.Slot /\ e.Vrnd >= d.Rnd
  BY <1>3 DEF AcceptorInv, PromiseReportsVotes
<1>9. q.Slot \in Int /\ q.Slot <= adu[p]
  BY <1>1, <1>8, KindOfMessage DEF Sent, Prepare, SlotID, RegularInv, RoundsOwned
<1>10. PICK e \in m.Slots : e.ID = s /\ e.Vrnd >= k
  BY <1>4, <1>7, <1>8, <1>9
<1>11. PICK f \in held : f.ID = s /\ f.Vrnd >= e.Vrnd
  BY <1>3, <1>10
<1>12. f.Vrnd \in Int /\ e.Vrnd \in Int
  BY <1>1, <1>10, KindOfMessage DEF Sent, Promise, PromiseSlot, Round
<1> QED BY <1>4, <1>7, <1>10, <1>11, <1>12

\* With the reports of a majority, the latest vote held for a slot is safe, and a
\* slot that nobody reported is free.
LEMMA PhaseOneSafe ==
    ASSUME AcceptorInv, RegularInv, NEW p \in Node, crnd[p] \in Round, adu[p] \in SlotID,
           NEW C \in SUBSET Node, IsQuorum(C), NEW held \in SUBSET PromiseSlot,
           NEW min, HeldVotes(held, min, crnd[p]), HeldFrom(C, p, held),
           NEW s \in SlotID, s > adu[p]
    PROVE  /\ SafeAt(s, crnd[p], boundValue(held, s))
           /\ (\A e \in held : e.ID # s) => Free(s, crnd[p])
<1>1. ASSUME \A e \in held : e.ID # s, NEW v
      PROVE  SafeAt(s, crnd[p], v)
  BY <1>1, OpponentReported DEF SafeAt
<1>2. CASE \A e \in held : e.ID # s
  BY <1>1, <1>2 DEF Free
<1>3. ASSUME NEW e \in held, e.ID = s
      PROVE  SafeAt(s, crnd[p], boundValue(held, s))
  <2>1. boundValue(held, s) = e.Vval
    BY <1>3 DEF boundValue, HeldVotes, PerSlot
  <2>2. PICK l \in Sent("LEARN") : l.Slot = s /\ l.Rnd = e.Vrnd /\ l.Val = e.Vval
    BY <1>3 DEF HeldVotes
  <2>3. PICK c \in Sent("ACCEPT") : c.Slot = s /\ c.Rnd = e.Vrnd /\ c.Val = e.Vval
    BY <2>2 DEF AcceptorInv, VotesAnswerAccepts
  <2>4. e.Vrnd \in Int /\ crnd[p] \in Int
    BY DEF PromiseSlot, Round
  <2>5. ASSUME NEW k \in 0 .. (crnd[p] - 1), IsQuorum(Against(s, k, e.Vval))
        PROVE  FALSE
    <3>1. PICK f \in held : f.ID = s /\ f.Vrnd >= k
      BY <2>5, OpponentReported
    <3>2. f = e
      BY <1>3, <3>1 DEF HeldVotes, PerSlot
    <3>3. CASE k < e.Vrnd
      <4>1. SafeAt(s, e.Vrnd, e.Vval)
        BY <2>3 DEF RegularInv, AcceptsSafe
      <4>2. k \in 0 .. (e.Vrnd - 1)
        BY <2>4, <3>3
      <4> QED BY <2>5, <4>1, <4>2 DEF SafeAt
    <3>4. CASE k = e.Vrnd
      <4>1. PICK d \in Sent("LEARN") : d.Slot = s /\ d.Rnd = k /\ d.Val # e.Vval
        BY <2>5, OpponentReported
      <4>2. PICK b \in Sent("ACCEPT") : b.Slot = s /\ b.Rnd = k /\ b.Val = d.Val
        BY <4>1 DEF AcceptorInv, VotesAnswerAccepts
      <4> QED BY <2>3, <3>4, <4>1, <4>2 DEF RegularInv, OneValue
    <3> QED BY <2>4, <3>1, <3>2, <3>3, <3>4
  <2> QED BY <2>1, <2>5 DEF SafeAt
<1> QED BY <1>1, <1>2, <1>3

-----------------------------------------------------------------------------
LEMMA HandlePromiseSafe ==
    ASSUME CountInv, CountInv', RegularInv, NEW p \in Node,
           NEW m \in Waiting(p, "PROMISE"), HandlePromise(p, m), irregular' = {},
           UNCHANGED acceptorVars
    PROVE  RegularInv'
<1> DEFINE prev  == promises[p][m.From]
           fresh == prev < m.Rnd
           count == IF prev = NoRound THEN promiseCount[p] + 1 ELSE promiseCount[p]
<1>1. /\ TypeInv /\ TypeInv' /\ AcceptorInv /\ AcceptorTypeOK /\ ProposerTypeOK
      /\ ProposerTypeOK'
      /\ crnd \in [Node -> Round] /\ promises \in [Node -> [Node -> Round \cup {NoRound}]]
      /\ promise_slots \in [Node -> SUBSET PromiseSlot] /\ min_slot \in [Node -> SlotID]
      /\ phaseOneDone \in [Node -> BOOLEAN] /\ acceptsOut \in [Node -> Seq(Accept)]
      /\ nextSlot \in [Node -> 0 .. MaxSlot + 1] /\ adu[p] \in SlotID
      /\ requestsIn[p] \in Seq(Value)
  BY DEF CountInv, TypeInv, AcceptorInv, ProposerTypeOK
<1>2. m \in Promise /\ m \in Sent("PROMISE") /\ <<p, m>> \in net
  BY <1>1, KindOfMessage DEF Waiting, Sent
<1>3. /\ m.From \in Node /\ m.Rnd \in Round /\ m.To = p
      /\ m.Slots \in SUBSET PromiseSlot
  BY <1>2 DEF Promise, CountInv, PromisesAddressed
<1>4. Proposes
  BY <1>1, HandlePromiseTypes
<1>5. PICK held : held = IF fresh THEN update_promise_slots(promise_slots[p], m.Slots)
                                  ELSE promise_slots[p]
  OBVIOUS
<1>6. PICK min : min = IF fresh THEN first_min_slot(promise_slots[p], m.Slots, min_slot[p])
                                ELSE min_slot[p]
  OBVIOUS
<1>7. PICK accs : accs = create_accept_message(p, held, min)
  OBVIOUS
<1>8. /\ m.Rnd = crnd[p] /\ crnd' = crnd /\ adu' = adu
      /\ promises' = [promises EXCEPT ![p][m.From] = m.Rnd]
      /\ promise_slots' = [promise_slots EXCEPT ![p] = held]
      /\ min_slot' = [min_slot EXCEPT ![p] = min]
  BY <1>5, <1>6 DEF HandlePromise
<1>9. \/ /\ UNCHANGED <<queueVars, phaseOneDone>> /\ sent' = sent
      \/ /\ phaseOneDone' = [phaseOneDone EXCEPT ![p] = TRUE]
         /\ irregular' = irregular \cup
               (IF phaseOneDone[p] \/ (accs # <<>> /\ accs[1].Slot > adu[p] + 1)
                THEN {crnd[p]} ELSE {})
         /\ sendAccept(p, {<<p, m>>}, adu[p], adu[p] + 1, accs, requestsIn[p])
  BY <1>5, <1>6, <1>7 DEF HandlePromise, Exchange
<1>10. Sent("PROMISE")' = Sent("PROMISE") /\ Sent("LEARN")' = Sent("LEARN")
  BY <1>4 DEF Proposes, Sent, Prepare, Accept
<1>11. Counted(p)' = Counted(p) \cup {m.From}
  BY <1>1, <1>3, <1>8 DEF Counted, NoRound, Round
<1>12. /\ held \in SUBSET PromiseSlot /\ min \in SlotID
       /\ HeldVotes(held, min, crnd[p]) /\ HeldFrom(Counted(p)', p, held)
  <2>1. /\ held \in SUBSET PromiseSlot /\ min \in SlotID
    BY <1>1, <1>3, <1>5, <1>6, HeldReports
  <2>2. HeldVotes(promise_slots[p], min_slot[p], crnd[p])
        /\ HeldFrom(Counted(p), p, promise_slots[p])
    BY DEF RegularInv, ReportsHeld, ReportsCounted
  <2>3. CASE fresh
    <3>1. /\ PerSlot(m.Slots)
          /\ \A e \in m.Slots :
                /\ e.Vrnd < crnd[p]
                /\ \E l \in Sent("LEARN") :
                      l.Slot = e.ID /\ l.Rnd = e.Vrnd /\ l.Val = e.Vval
      BY <1>1, <1>2, <1>8 DEF AcceptorInv, ReportedVotesWereCast
    <3>2. /\ PerSlot(held) /\ held \subseteq promise_slots[p] \cup m.Slots
          /\ \A e \in promise_slots[p] \cup m.Slots :
                \E f \in held : f.ID = e.ID /\ f.Vrnd >= e.Vrnd
      <4>1. held = update_promise_slots(promise_slots[p], m.Slots)
        BY <1>5, <2>3
      <4>2. promise_slots[p] \in SUBSET PromiseSlot /\ PerSlot(promise_slots[p])
        BY <1>1, <2>2 DEF HeldVotes
      <4> QED BY <1>3, <3>1, <4>1, <4>2, MergedReports
    <3>3. min = 0 \/ \E f \in held : min <= f.ID
      <4>1. min = first_min_slot(promise_slots[p], m.Slots, min_slot[p])
        BY <1>6, <2>3
      <4>2. promise_slots[p] \in SUBSET PromiseSlot /\ min_slot[p] \in SlotID
            /\ (min_slot[p] = 0 \/ \E e \in promise_slots[p] : min_slot[p] <= e.ID)
        BY <1>1, <2>2 DEF HeldVotes
      <4> QED BY <1>3, <3>2, <4>1, <4>2, LowerEndHeld
    <3>4. HeldVotes(held, min, crnd[p])
      BY <2>2, <3>1, <3>2, <3>3 DEF HeldVotes
    <3>5. HeldFrom({m.From}, p, held)
      BY <1>2, <1>3, <1>8, <3>2 DEF HeldFrom
    <3>6. HeldFrom(Counted(p), p, held)
      <4>1. ASSUME NEW a \in Counted(p)
            PROVE  \E n \in Sent("PROMISE") :
                      /\ n.From = a /\ n.To = p /\ n.Rnd = crnd[p]
                      /\ \A e \in n.Slots : \E f \in held : f.ID = e.ID /\ f.Vrnd >= e.Vrnd
        <5>1. PICK n \in Sent("PROMISE") :
                 /\ n.From = a /\ n.To = p /\ n.Rnd = crnd[p]
                 /\ \A e \in n.Slots : \E g \in promise_slots[p] :
                       g.ID = e.ID /\ g.Vrnd >= e.Vrnd
          BY <2>2 DEF HeldFrom
        <5>2. n \in Promise
          BY <1>1, KindOfMessage DEF Sent
        <5>3. ASSUME NEW e \in n.Slots
              PROVE  \E f \in held : f.ID = e.ID /\ f.Vrnd >= e.Vrnd
          <6>1. PICK g \in promise_slots[p] : g.ID = e.ID /\ g.Vrnd >= e.Vrnd
            BY <5>1
          <6>2. PICK f \in held : f.ID = g.ID /\ f.Vrnd >= g.Vrnd
            BY <3>2
          <6>3. e.Vrnd \in Int /\ g.Vrnd \in Int /\ f.Vrnd \in Int
            BY <1>1, <2>1, <5>2 DEF Promise, PromiseSlot, Round
          <6> QED BY <6>1, <6>2, <6>3
        <5> QED BY <5>1, <5>3
      <4> QED BY <4>1 DEF HeldFrom
    <3> QED BY <1>11, <2>1, <3>4, <3>5, <3>6 DEF HeldFrom
  <2>4. CASE ~ fresh
    <3>1. m.From \in Counted(p)
      BY <1>1, <1>3, <2>4 DEF Counted, NoRound, Round
    <3>2. Counted(p)' = Counted(p)
      BY <1>11, <3>1
    <3> QED BY <1>5, <1>6, <2>1, <2>2, <2>4, <3>2
  <2> QED BY <2>3, <2>4
<1>13. ReportsHeld(p)' /\ ReportsCounted(p)'
  <2>1. promise_slots'[p] = held /\ min_slot'[p] = min /\ crnd'[p] = crnd[p]
    BY <1>1, <1>8
  <2> QED BY <1>10, <1>12, <2>1
          DEF ReportsHeld, ReportsCounted, HeldVotes, HeldFrom
<1>14. OwnRound(p, crnd'[p]) /\ adu[p] <= adu'[p]
  <2>1. adu \in [Node -> SlotID]
    BY <1>1 DEF ProposerTypeOK
  <2> QED BY <1>8, <2>1, BoundAssumption DEF RegularInv, RoundsOwned, SlotID
<1>15. CASE UNCHANGED <<queueVars, phaseOneDone>> /\ sent' = sent
  <2>1. OthersSame(p) /\ NewAccepts(p) /\ NewPrepares(p)
    BY <1>1, <1>8, <1>15 DEF OthersSame, NewAccepts, NewPrepares, Sent, queueVars
  <2>2. AcceptsBehind(p)'
    BY <1>8, <1>15 DEF RegularInv, AcceptsBehind, Sent, queueVars
  <2>3. (phaseOneDone[p] => SafeQueue(p, acceptsOut[p], nextSlot[p]))'
    <3>1. AcceptorTypeOK' /\ crnd[p] \in Int
      BY <1>1 DEF TypeInv, AcceptorInv, Round
    <3>2. Fewer
      BY <1>10 DEF Fewer, Against, acceptorVars
    <3> QED BY <1>1, <1>8, <1>15, <3>1, <3>2, SafeQueueKept DEF RegularInv, queueVars
  <2> QED BY <1>1, <1>4, <1>13, <1>14, <2>1, <2>2, <2>3, ProposerStepSafe
<1>16. CASE /\ phaseOneDone' = [phaseOneDone EXCEPT ![p] = TRUE]
            /\ irregular' = irregular \cup
                  (IF phaseOneDone[p] \/ (accs # <<>> /\ accs[1].Slot > adu[p] + 1)
                   THEN {crnd[p]} ELSE {})
            /\ sendAccept(p, {<<p, m>>}, adu[p], adu[p] + 1, accs, requestsIn[p])
  <2>1. ~ phaseOneDone[p] /\ ~ (accs # <<>> /\ accs[1].Slot > adu[p] + 1)
    BY <1>16
  <2>2. /\ crnd[p] \in Round /\ adu[p] + 1 \in 0 .. MaxSlot + 1 /\ adu[p] + 1 \in Nat
        /\ adu[p] \in Nat
    BY <1>1, BoundAssumption DEF SlotID
  <2>3. /\ accs \in Seq(Accept)
        /\ \A i \in DOMAIN accs : accs[i].From = p /\ accs[i].Rnd = crnd[p]
    <3>1. held \in SUBSET PromiseSlot /\ min \in SlotID /\ adu[p] \in SlotID
      BY <1>1, <1>12
    <3>2. /\ create_accept_message(p, held, min) \in Seq(Accept)
          /\ \A i \in DOMAIN create_accept_message(p, held, min) :
                LET c == create_accept_message(p, held, min)[i]
                IN  c.From = p /\ c.Rnd = crnd[p]
      BY <2>2, <3>1, BoundAccepts
    <3> QED BY <1>7, <3>2
  <2>4. accs = << >> \/ accs[1].Slot <= adu[p] + 1
    <3>1. CASE accs # << >>
      <4>1. 1 \in DOMAIN accs
        BY <2>3, <3>1, EmptySeq, LenProperties
      <4>2. accs[1].Slot \in Int
        <5>1. accs[1] \in Accept
          BY <2>3, <4>1
        <5> QED BY <5>1, BoundAssumption DEF Accept, SlotID
      <4> QED BY <2>1, <2>2, <3>1, <4>2
    <3> QED BY <3>1
  <2>5. FromAdu(p, held, accs)
    <3>1. min = 0 \/ \E e \in held : min <= e.ID
      BY <1>12 DEF HeldVotes
    <3>2. held \in SUBSET PromiseSlot /\ min \in SlotID /\ adu[p] \in SlotID
      BY <1>1, <1>12
    <3> QED BY <1>7, <2>2, <2>4, <3>1, <3>2, AcceptsFromAdu
  <2>6. Counted(p)' \in SUBSET Node /\ IsQuorum(Counted(p)')
    <3>1. phaseOneDone'[p]
      BY <1>1, <1>16
    <3>2. promiseCount'[p] = Cardinality(Counted(p)') /\ promiseCount'[p] >= quorum
      BY <3>1 DEF CountInv, Counting
    <3> QED BY <3>2 DEF IsQuorum, Counted
  <2>7. ASSUME NEW s \in SlotID, s > adu[p]
        PROVE  /\ SafeAt(s, crnd[p], boundValue(held, s))
               /\ (\A e \in held : e.ID # s) => Free(s, crnd[p])
    BY <1>1, <1>12, <2>2, <2>6, <2>7, PhaseOneSafe
  <2>8. SafeQueue(p, accs, adu[p] + 1)
    <3>1. ASSUME NEW i \in DOMAIN accs
          PROVE  /\ accs[i].Slot = (adu[p] + 1) + i - 1
                 /\ SafeAt(accs[i].Slot, crnd[p], accs[i].Val)
      <4>1. /\ i \in Nat /\ i >= 1 /\ accs[i].Slot = adu[p] + i
            /\ accs[i].Slot \in SlotID /\ accs[i].Val = boundValue(held, accs[i].Slot)
        BY <2>5 DEF FromAdu
      <4>2. accs[i].Slot > adu[p]
        BY <2>2, <4>1
      <4> QED BY <2>2, <2>7, <4>1, <4>2
    <3>2. ASSUME NEW s \in SlotID, s >= (adu[p] + 1) + Len(accs)
          PROVE  Free(s, crnd[p])
      <4>1. s > adu[p] /\ s > adu[p] + Len(accs) /\ s \in Int
        BY <2>2, <2>5, <3>2, BoundAssumption DEF FromAdu, SlotID
      <4>2. \A e \in held : e.ID # s
        BY <2>2, <2>5, <4>1 DEF FromAdu
      <4> QED BY <2>7, <4>1, <4>2
    <3> QED BY <2>2, <3>1, <3>2 DEF SafeQueue
  <2>9. PICK M, rest, up : SendsSafely(p, M, rest, adu[p] + 1, up, adu[p])
    BY <1>1, <1>16, <2>2, <2>3, <2>8, SendAcceptSafe
  <2>10. phaseOneDone'[p] /\ acceptsOut'[p] = rest /\ nextSlot'[p] = up
    BY <1>1, <1>16, <2>9 DEF SendsSafely
  <2>11. NewAccepts(p) /\ AcceptsBehind(p)' /\ Sent("PREPARE")' = Sent("PREPARE")
    <3>1. \A c \in Sent("ACCEPT") : ~ (c.From = p /\ c.Rnd = crnd[p])
      BY <2>1 DEF RegularInv, AcceptsBehind
    <3>2. /\ TypeInv /\ crnd' = crnd /\ adu[p] + 1 \in Nat
          /\ adu[p] = adu'[p] /\ adu[p] <= adu'[p] /\ adu'[p] \in Int
      BY <1>1, <1>8, <2>2
    <3>3. \A c \in Sent("ACCEPT") : c.From = p /\ c.Rnd = crnd[p] => c.Slot < adu[p] + 1
      BY <3>1
    <3> QED BY <2>9, <2>10, <3>2, <3>3, SentAreNew
  <2>12. SafeQueue(p, acceptsOut[p], nextSlot[p])'
    <3>1. SafeQueue(p, rest, up)'
      BY <1>8, <1>10, <2>9, RestStaysSafe DEF SendsSafely
    <3> QED BY <2>10, <3>1 DEF SafeQueue
  <2>13. OthersSame(p) /\ NewPrepares(p)
    BY <1>1, <1>8, <1>16, <2>9, <2>11 DEF OthersSame, SendsSafely, NewPrepares
  <2> QED BY <1>1, <1>4, <1>13, <1>14, <2>11, <2>12, <2>13, ProposerStepSafe
<1> QED BY <1>9, <1>15, <1>16

-----------------------------------------------------------------------------
LEMMA InitSafe == Init => SafetyInv
<1> SUFFICES ASSUME Init PROVE RegularInv
  BY InitCounts DEF SafetyInv
<1>1. sent = {} /\ Sent("ACCEPT") = {} /\ Sent("PREPARE") = {}
  BY DEF Init, NetInit, Sent
<1>2. RoundsOwned
  <2>1. ASSUME NEW p \in Node PROVE OwnRound(p, crnd[p])
    <3>1. 0 \in 0 .. p /\ p = p + 0 * N /\ crnd[p] = p
      BY NAssumption DEF Init, ProposerInit, Node
    <3> QED BY <3>1 DEF OwnRound
  <2> QED BY <1>1, <2>1 DEF RoundsOwned
<1>3. ASSUME NEW p \in Node
      PROVE  ReportsHeld(p) /\ ReportsCounted(p) /\ ~ phaseOneDone[p] /\ AcceptsBehind(p)
  <2>1. Counted(p) = {} /\ ~ phaseOneDone[p] /\ promise_slots[p] = {} /\ min_slot[p] = 0
    BY DEF Init, ProposerInit, Counted
  <2> QED BY <1>1, <2>1 DEF ReportsHeld, HeldVotes, PerSlot, ReportsCounted, HeldFrom,
             AcceptsBehind
<1> QED BY <1>1, <1>2, <1>3 DEF RegularInv, OneValue, AcceptsSafe

\* Irregular rounds are remembered.
LEMMA IrregularGrows == [Next]_vars => irregular \subseteq irregular'
<1> SUFFICES ASSUME [Next]_vars PROVE irregular \subseteq irregular'
  OBVIOUS
<1>1. ASSUME NEW a \in Node, AcceptorStep(a) PROVE irregular' = irregular
  BY <1>1 DEF AcceptorStep, proposerVars, reportVars
<1>2. ASSUME NEW p \in Proposing, ProposerStep(p) PROVE irregular \subseteq irregular'
  BY <1>2 DEF ProposerStep, HandlePromise, ClientValue, PhaseOneProgressTick, Trust,
              reportVars
<1>3. ASSUME NEW n \in Proposing \cup Listener, SlotDecided(n) PROVE irregular' = irregular
  BY <1>3 DEF SlotDecided, IncrementAllDecidedUpTo, reportVars
<1>4. ASSUME NEW n \in Listener, TakeLearn(n) PROVE irregular' = irregular
  BY <1>4 DEF TakeLearn, proposerVars, reportVars
<1>5. CASE UNCHANGED vars
  BY <1>5 DEF vars, proposerVars, reportVars
<1> QED BY <1>1, <1>2, <1>3, <1>4, <1>5 DEF Next, Steps

LEMMA NextSafe ==
    ASSUME CountInv, CountInv', RegularInv, [Next]_vars, irregular' = {}
    PROVE  RegularInv'
<1>1. TypeInv /\ TypeInv'
  BY DEF CountInv
<1>2. ASSUME NEW a \in Node, AcceptorStep(a) PROVE RegularInv'
  BY <1>1, <1>2, AcceptorStepSafe
<1>3. ASSUME NEW p \in Proposing, ProposerStep(p) PROVE RegularInv'
  BY <1>1, <1>3, ActiveAssumption, HandlePromiseSafe, ClientValueSafe, TickSafe, TrustSafe
     DEF ProposerStep
<1>4. ASSUME NEW n \in Proposing \cup Listener, SlotDecided(n) PROVE RegularInv'
  BY <1>1, <1>4, ActiveAssumption, IncrementSafe DEF SlotDecided
<1>5. ASSUME NEW n \in Listener, TakeLearn(n) PROVE RegularInv'
  BY <1>1, <1>5, QuietStepSafe DEF TakeLearn, Exchange
<1>6. CASE UNCHANGED vars
  BY <1>1, <1>6, QuietStepSafe DEF vars, netVars
<1> QED BY <1>2, <1>3, <1>4, <1>5, <1>6 DEF Next, Steps

THEOREM SafetyInvariance == Spec => []SafetyInv
<1>1. SafetyInv /\ CountInv' /\ [Next]_vars => SafetyInv'
  BY NextSafe, IrregularGrows DEF SafetyInv
<1> QED BY <1>1, InitSafe, CountInvariance, PTL DEF Spec

-----------------------------------------------------------------------------
LEMMA SafetyGivesValues == SafetyInv => OneValuePerRound /\ ProposalsAreSafe
BY DEF SafetyInv, RegularInv, OneValuePerRound, OneValue, ProposalsAreSafe, AcceptsSafe,
       SafeAt, Against

LEMMA VotersAreNodes ==
    ASSUME AcceptorTypeOK, NEW s, NEW r, NEW v
    PROVE  Voters(s, r, v) \in SUBSET Node
BY KindOfMessage DEF Voters, Sent, Learn

\* Of two rounds the later one proposes what the earlier one may have chosen.
LEMMA ChosenAgree ==
    ASSUME AcceptorInv, RegularInv, NEW l \in Sent("LEARN"), NEW m \in Sent("LEARN"),
           l.Slot = m.Slot, l.Rnd <= m.Rnd, Chosen(l.Slot, l.Rnd, l.Val)
    PROVE  l.Val = m.Val
<1>1. AcceptorTypeOK /\ l.Rnd \in Nat /\ m.Rnd \in Nat
  BY KindOfMessage, BoundAssumption DEF AcceptorInv, Sent, Learn, Round
<1>2. PICK c \in Sent("ACCEPT") : c.Slot = l.Slot /\ c.Rnd = l.Rnd /\ c.Val = l.Val
  BY DEF AcceptorInv, VotesAnswerAccepts
<1>3. PICK d \in Sent("ACCEPT") : d.Slot = m.Slot /\ d.Rnd = m.Rnd /\ d.Val = m.Val
  BY DEF AcceptorInv, VotesAnswerAccepts
<1>4. CASE l.Rnd = m.Rnd
  BY <1>2, <1>3, <1>4 DEF RegularInv, OneValue
<1>5. CASE l.Rnd < m.Rnd /\ l.Val # m.Val
  <2>1. ~ IsQuorum(Against(l.Slot, l.Rnd, m.Val))
    <3>1. SafeAt(m.Slot, m.Rnd, m.Val)
      BY <1>3 DEF RegularInv, AcceptsSafe
    <3>2. l.Rnd \in 0 .. (m.Rnd - 1)
      BY <1>1, <1>5
    <3> QED BY <3>1, <3>2 DEF SafeAt
  <2>2. Voters(l.Slot, l.Rnd, l.Val) \subseteq Against(l.Slot, l.Rnd, m.Val)
    BY <1>5 DEF Voters, Against
  <2> QED BY <1>1, <2>1, <2>2, QuorumGrows, AgainstAreNodes DEF Chosen
<1> QED BY <1>1, <1>4, <1>5

LEMMA SafetyGivesAgreement == SafetyInv => Agreement
<1> SUFFICES ASSUME SafetyInv, irregular = {},
                    NEW l \in Sent("LEARN"), NEW m \in Sent("LEARN"),
                    l.Slot = m.Slot, l.Val # m.Val,
                    Chosen(l.Slot, l.Rnd, l.Val), Chosen(m.Slot, m.Rnd, m.Val)
             PROVE  FALSE
  BY DEF Agreement
<1>1. AcceptorInv /\ RegularInv
  BY DEF SafetyInv, CountInv, TypeInv
<1>2. l.Rnd \in Int /\ m.Rnd \in Int
  BY <1>1, KindOfMessage DEF AcceptorInv, Sent, Learn, Round
<1>3. CASE l.Rnd <= m.Rnd
  BY <1>1, <1>3, ChosenAgree
<1>4. CASE m.Rnd <= l.Rnd
  BY <1>1, <1>4, ChosenAgree
<1> QED BY <1>2, <1>3, <1>4

\* No vote is taken back.
LEMMA VotesStay ==
    ASSUME TypeInv, [Next]_vars
    PROVE  Sent("LEARN") \subseteq Sent("LEARN")'
<1>1. CASE UNCHANGED vars
  BY <1>1 DEF vars, netVars, Sent
<1>2. CASE Next
  <2>1. AcceptorNext \/ Environment
    BY <1>2, NextTypeInv
  <2> QED BY <2>1 DEF AcceptorNext, handlePrepare, handleAccept, Exchange,
                      Environment, Sent
<1> QED BY <1>1, <1>2

-----------------------------------------------------------------------------
\* In one round a slot is proposed with one value only, as long as no round is
\* irregular (proposer.go:229-270).
THEOREM OneValueEach == Spec => []OneValuePerRound
BY SafetyInvariance, SafetyGivesValues, PTL

\* A proposal rules out every other choice of its slot in the rounds below, as
\* long as no round is irregular (create_accept_message and the acceptors).
THEOREM ProposalsSafe == Spec => []ProposalsAreSafe
BY SafetyInvariance, SafetyGivesValues, PTL

\* Two majorities never choose differently in one slot, as long as no round is
\* irregular: the agreement of lab6/README.md:240-241 in the code as it is.
THEOREM Agrees == Spec => []Agreement
BY SafetyInvariance, SafetyGivesAgreement, PTL

-----------------------------------------------------------------------------
\* The application.

\* Every step of the application is one of the protocol, or changes nothing of it.
LEMMA StepRefines ==
    ASSUME [ClusterNext]_clusterVars
    PROVE  [Next]_vars
<1>1. CASE ProtocolStep
  BY <1>1 DEF ProtocolStep, Next, Steps
<1>2. ASSUME NEW n \in Listener, LearnArrives(n)
      PROVE  Next
  <2>1. PICK m \in Waiting(n, "LEARN") : handleLearn(n, m)
    BY <1>2 DEF LearnArrives
  <2>2. Exchange({<<n, m>>}, {}, {})
    BY <2>1 DEF handleLearn
  <2>3. UNCHANGED <<acceptorVars, proposerVars>>
    BY <1>2 DEF LearnArrives
  <2>4. TakeLearn(n)
    BY <2>2, <2>3 DEF TakeLearn
  <2> QED BY <2>4 DEF Next
<1>3. ASSUME NEW n \in Listener, ValueDecided(n)
      PROVE  UNCHANGED vars
  BY <1>3 DEF ValueDecided
<1>4. ASSUME NEW n \in Listener, Incremented(n)
      PROVE  Next
  BY <1>4 DEF Incremented, SlotDecided, Next, Steps
<1>5. CASE UNCHANGED clusterVars
  BY <1>5 DEF clusterVars
<1> QED BY <1>1, <1>2, <1>3, <1>4, <1>5 DEF ClusterNext

\* The whole path of a command, learners and servers included, implements the
\* protocol (start_application.go:45-64).
THEOREM ClusterRefinement == ClusterSpec => ImplementsMultiPaxos
<1>1. ClusterInit => Init
  BY DEF ClusterInit
<1> QED BY <1>1, StepRefines, PTL DEF ClusterSpec, ImplementsMultiPaxos, Spec

\* In the application a promise reports every later vote, and an accept is backed
\* by a majority of promises for its round.
THEOREM ClusterPromisesReport == ClusterSpec => []PromiseReportsVotes
BY ClusterRefinement, Refinement, PromisesReport, PTL DEF ImplementsMultiPaxos

THEOREM ClusterMajorityBeforeAccept == ClusterSpec => []AcceptsHaveMajority
BY ClusterRefinement, MajorityBeforeAccept, PTL DEF ImplementsMultiPaxos

\* In the application, too, two majorities never choose differently as long as no
\* round is irregular.
THEOREM ClusterAgrees == ClusterSpec => []Agreement
BY ClusterRefinement, Agrees, PTL DEF ImplementsMultiPaxos

-----------------------------------------------------------------------------
\* The proposer counts what its server applied, but for the value in hand.
Paced ==
    \A n \in Node : adu[n] = IF srvPc[n] = "loop" THEN srvAdu[n] ELSE srvAdu[n] - 1

\* As long as no round is irregular, the votes are what ServerProofs asks for.
LEMMA RegularVotes ==
    ASSUME SafetyInv, irregular = {}
    PROVE  SlotsArePositive /\ OneVotePerRound
<1>1. VotesAnswerAccepts /\ OneValue /\ AcceptsSafe
  BY DEF SafetyInv, CountInv, TypeInv, AcceptorInv, RegularInv
<1> QED BY <1>1 DEF VotesAnswerAccepts, OneValue, AcceptsSafe, SlotsArePositive, OneVotePerRound

LEMMA VotesOfStep ==
    ASSUME SafetyInv, SafetyInv', [Next]_vars
    PROVE  VotesGrow
<1>1. TypeInv /\ AcceptorTypeOK'
  BY DEF SafetyInv, CountInv, TypeInv, AcceptorInv
<1>2. Sent("LEARN")' \subseteq Learn
  BY <1>1 DEF AcceptorTypeOK, Sent, Prepare, Promise, Accept, Learn
<1> QED BY <1>1, <1>2, VotesStay DEF VotesGrow

LEMMA ProtocolKeepsAdu == ProtocolStep => adu' = adu
<1>1. ASSUME NEW a \in Node, AcceptorStep(a) PROVE adu' = adu
  BY <1>1 DEF AcceptorStep, proposerVars
<1>2. ASSUME NEW p \in Proposing, ProposerStep(p) PROVE adu' = adu
  <2>1. ASSUME NEW m, HandlePromise(p, m) PROVE adu' = adu
    BY <2>1 DEF HandlePromise
  <2>2. ASSUME NEW v, ClientValue(p, v) PROVE adu' = adu
    BY <2>2 DEF ClientValue
  <2>3. ASSUME PhaseOneProgressTick(p) PROVE adu' = adu
    BY <2>3 DEF PhaseOneProgressTick
  <2>4. ASSUME NEW l, Trust(p, l) PROVE adu' = adu
    BY <2>4 DEF Trust
  <2> QED BY <1>2, <2>1, <2>2, <2>3, <2>4 DEF ProposerStep
<1> QED BY <1>1, <1>2 DEF ProtocolStep

LEMMA InitApplication == ClusterInit => ServerInv /\ Paced
<1> SUFFICES ASSUME ClusterInit PROVE ServerInv /\ Paced
  OBVIOUS
<1>1. Sent("LEARN") = {}
  BY DEF ClusterInit, Init, NetInit, Sent
<1>2. ServerInv
  BY <1>1, InitServer DEF ClusterInit
<1>3. Paced
  BY DEF ClusterInit, Init, ProposerInit, ServerInit, Paced
<1> QED BY <1>2, <1>3

LEMMA NextApplication ==
    ASSUME SafetyInv, SafetyInv', ServerInv, Paced, [ClusterNext]_clusterVars
    PROVE  ServerInv' /\ Paced'
<1>1. VotesGrow
  BY StepRefines, VotesOfStep
<1>2. CASE ProtocolStep
  <2>1. UNCHANGED <<learnerVars, serverVars>>
    BY <1>2 DEF ProtocolStep
  <2>2. Paced'
    BY <1>2, <2>1, ProtocolKeepsAdu DEF Paced, serverVars
  <2> QED BY <1>1, <2>1, <2>2, QuietKeeps
<1>3. ASSUME NEW n \in Listener, LearnArrives(n)
      PROVE  ServerInv' /\ Paced'
  <2>1. PICK m \in Waiting(n, "LEARN") : handleLearn(n, m)
    BY <1>3 DEF LearnArrives
  <2>2. m \in Sent("LEARN") /\ n \in Node /\ UNCHANGED <<serverVars, proposerVars>>
    BY <1>3, ActiveAssumption DEF LearnArrives, Waiting, Sent
  <2>3. Paced'
    BY <2>2 DEF Paced, serverVars, proposerVars
  <2> QED BY <2>1, <2>2, <2>3, LearnKeeps
<1>4. /\ srvPc \in [Node -> {"loop", "inc"}] /\ srvAdu \in [Node -> Nat]
      /\ adu \in [Node -> SlotID]
  BY DEF ServerInv, ServerTypes, SafetyInv, CountInv, TypeInv, ProposerTypeOK
<1>5. ASSUME NEW n \in Listener, ValueDecided(n)
      PROVE  ServerInv' /\ Paced'
  <2>1. n \in Node /\ TakeDecidedValue(n) /\ adu' = adu
    BY <1>5, ActiveAssumption DEF ValueDecided, vars, proposerVars
  <2>2. /\ srvPc[n] = "loop"
        /\ \/ srvPc' = [srvPc EXCEPT ![n] = "loop"] /\ srvAdu' = srvAdu
           \/ srvPc' = [srvPc EXCEPT ![n] = "inc"] /\ srvAdu' = [srvAdu EXCEPT ![n] = @ + 1]
    BY <2>1 DEF TakeDecidedValue, srvHandleDecidedValue
  <2>3. Paced'
    BY <1>4, <2>1, <2>2 DEF Paced
  <2> QED BY <1>1, <2>1, <2>3, TakeKeeps
<1>6. ASSUME NEW n \in Listener, Incremented(n)
      PROVE  ServerInv' /\ Paced'
  <2>1. n \in Node /\ AfterIncrement(n) /\ adu' = [adu EXCEPT ![n] = @ + 1]
    BY <1>6, ActiveAssumption DEF Incremented, IncrementAllDecidedUpTo
  <2>2. /\ srvPc[n] = "inc"
        /\ \/ srvPc' = [srvPc EXCEPT ![n] = "loop"] /\ srvAdu' = srvAdu
           \/ srvPc' = [srvPc EXCEPT ![n] = "inc"] /\ srvAdu' = [srvAdu EXCEPT ![n] = @ + 1]
    BY <2>1 DEF AfterIncrement, srvHandleDecidedValue
  <2>3. Paced'
    BY <1>4, <2>1, <2>2, BoundAssumption DEF Paced, SlotID
  <2> QED BY <1>1, <2>1, <2>3, AfterIncrementKeeps
<1>7. CASE UNCHANGED clusterVars
  <2>1. UNCHANGED <<learnerVars, serverVars>> /\ adu' = adu
    BY <1>7 DEF clusterVars, vars, proposerVars
  <2>2. Paced'
    BY <2>1 DEF Paced, serverVars
  <2> QED BY <1>1, <2>1, <2>2, QuietKeeps
<1> QED BY <1>2, <1>3, <1>5, <1>6, <1>7 DEF ClusterNext

\* The application keeps the protocol's invariant, that of its learners and
\* servers, and the pace of the proposer's counter.
ClusterInv == SafetyInv /\ ServerInv /\ Paced

THEOREM ClusterInvariance == ClusterSpec => []ClusterInv
<1>1. ClusterSpec => []SafetyInv
  BY ClusterRefinement, SafetyInvariance, PTL DEF ImplementsMultiPaxos
<1>2. SafetyInv /\ SafetyInv' /\ (ServerInv /\ Paced) /\ [ClusterNext]_clusterVars
        => (ServerInv /\ Paced)'
  BY NextApplication
<1> QED BY <1>1, <1>2, InitApplication, PTL DEF ClusterSpec, ClusterInv

-----------------------------------------------------------------------------
\* Every variable of the application has its type.
THEOREM ClusterTypes == ClusterSpec => []ClusterTypeOK
<1>1. ClusterInv => ClusterTypeOK
  BY TypeOKParts DEF ClusterInv, SafetyInv, CountInv, TypeInv, AcceptorInv,
                     ServerInv, ServerTypes, ClusterTypeOK
<1> QED BY <1>1, ClusterInvariance, PTL

\* The proposer never proposes beyond the slot after the last one its server
\* applied, as long as no round is irregular (proposer.go:231-243).
THEOREM ProposesBehindServer == ClusterSpec => []ProposesAfterApplied
<1>1. ClusterInv => ProposesAfterApplied
  <2> SUFFICES ASSUME ClusterInv, irregular = {}, NEW c \in Sent("ACCEPT")
               PROVE  c.Slot <= srvAdu[c.From] + 1
    BY DEF ProposesAfterApplied
  <2>1. AcceptorTypeOK /\ ProposerTypeOK /\ RegularInv /\ ServerTypes /\ Paced
    BY DEF ClusterInv, SafetyInv, CountInv, TypeInv, AcceptorInv, ServerInv
  <2>2. c \in Accept
    BY <2>1, KindOfMessage DEF Sent
  <2>3. c.From \in Node /\ c.Slot \in Int
    BY <2>2, BoundAssumption DEF Accept, SlotID
  <2>4. c.Slot <= adu[c.From] + 1
    BY <2>1, <2>3 DEF RegularInv, AcceptsBehind
  <2>5. srvAdu[c.From] \in Nat
    BY <2>1, <2>3 DEF ServerTypes
  <2>6. adu[c.From] = srvAdu[c.From] \/ adu[c.From] = srvAdu[c.From] - 1
    BY <2>1, <2>3 DEF Paced
  <2> QED BY <2>3, <2>4, <2>5, <2>6
<1> QED BY <1>1, ClusterInvariance, PTL

-----------------------------------------------------------------------------
\* What a node that applied no slot twice applied, and who voted for it.
LEMMA AppliedIsDecided ==
    ASSUME CodePoints, ClusterInv, irregular = {}, NEW n \in Node, ~ Repeats(n),
           NEW i \in DOMAIN applied[n]
    PROVE  \E l \in Sent("LEARN") :
              /\ l.Slot = i /\ Chosen(i, l.Rnd, l.Val)
              /\ applied[n][i] = [SlotID |-> i, Value |-> l.Val]
<1>1. /\ ServerInv /\ AcceptorTypeOK /\ SlotsArePositive /\ OneVotePerRound
  BY RegularVotes DEF ClusterInv, SafetyInv, CountInv, TypeInv, AcceptorInv
<1>2. applied[n][i].SlotID = i
  BY <1>1 DEF ServerInv, InOrder
<1>3. applied[n][i] \in Keeps(n)
  BY DEF Keeps, Entries
<1>4. PICK d \in decisions[n] : applied[n][i] = [SlotID |-> d.Slot, Value |-> d.Val]
  BY <1>1, <1>3 DEF ServerInv, Serving, ValueOf
<1>5. Chosen(d.Slot, d.Rnd, d.Val)
  BY <1>1 DEF ServerInv, DecisionsHaveMajority, Chosen, Voters
<1>6. \E l \in Sent("LEARN") : l.Slot = d.Slot /\ l.Rnd = d.Rnd /\ l.Val = d.Val
  <2>1. Voters(d.Slot, d.Rnd, d.Val) \in SUBSET Node
    BY <1>1, VotersAreNodes
  <2>2. \E a \in Voters(d.Slot, d.Rnd, d.Val) : a \in Voters(d.Slot, d.Rnd, d.Val)
    BY <1>5, <2>1, QuorumsMeet DEF Chosen
  <2> QED BY <2>2 DEF Voters
<1>7. d.Slot = i
  BY <1>2, <1>4
<1> QED BY <1>4, <1>5, <1>6, <1>7

LEMMA AppliedGivesCounts ==
    ASSUME CodePoints, ClusterInv
    PROVE  CountsDecidedSlots
<1> SUFFICES ASSUME irregular = {}, NEW n \in Node, ~ Repeats(n), NEW s \in 1 .. srvAdu[n]
             PROVE  Decided(s)
  BY DEF CountsDecidedSlots
<1>1. ServerTypes /\ Serving(n) /\ AcceptorTypeOK
  BY DEF ClusterInv, ServerInv, SafetyInv, CountInv, TypeInv, AcceptorInv
<1>2. s \in DOMAIN applied[n]
  BY <1>1 DEF ServerTypes, Serving
<1>3. PICK l \in Sent("LEARN") : l.Slot = s /\ Chosen(s, l.Rnd, l.Val)
  BY <1>2, AppliedIsDecided
<1> DEFINE R == {m.From : m \in {k \in Sent("LEARN") : k.Slot = s /\ k.Rnd = l.Rnd}}
<1>4. R \in SUBSET Node
  BY <1>1, KindOfMessage DEF Sent, Learn
<1>5. Voters(s, l.Rnd, l.Val) \subseteq R
  BY DEF Voters
<1>6. IsQuorum(R)
  <2> HIDE DEF R
  <2> QED BY <1>3, <1>4, <1>5, QuorumGrows DEF Chosen
<1> QED BY <1>3, <1>6 DEF Decided

\* Every decision had its majority, as long as no round was irregular and
\* string(int) tells the rounds and slots apart (learner.go:98-124).
THEOREM DecidesByMajority ==
    ASSUME CodePoints
    PROVE  ClusterSpec => []RegularDecisionsHaveMajority
<1>1. ClusterInv => RegularDecisionsHaveMajority
  BY RegularVotes DEF ClusterInv, ServerInv, RegularDecisionsHaveMajority
<1> QED BY <1>1, ClusterInvariance, PTL

\* A node that applied no slot twice counts only slots a majority voted for.
THEOREM CountsDecided ==
    ASSUME CodePoints
    PROVE  ClusterSpec => []CountsDecidedSlots
<1>1. ClusterInv => CountsDecidedSlots
  BY AppliedGivesCounts
<1> QED BY <1>1, ClusterInvariance, PTL

\* A slot is proposed only after a majority voted for the one before it.
THEOREM ProposesInTurn ==
    ASSUME CodePoints
    PROVE  ClusterSpec => []ProposesAfterDecided
<1>1. CountsDecidedSlots /\ ProposesAfterApplied /\ ClusterInv => ProposesAfterDecided
  <2> SUFFICES ASSUME CountsDecidedSlots, ProposesAfterApplied, ClusterInv, irregular = {},
                      NEW c \in Sent("ACCEPT"), c.Slot > 1, ~ Repeats(c.From)
               PROVE  Decided(c.Slot - 1)
    BY DEF ProposesAfterDecided
  <2>1. AcceptorTypeOK /\ ServerTypes
    BY DEF ClusterInv, SafetyInv, CountInv, TypeInv, AcceptorInv, ServerInv
  <2>2. c \in Accept
    BY <2>1, KindOfMessage DEF Sent
  <2>3. c.From \in Node /\ c.Slot \in Int /\ srvAdu[c.From] \in Nat
    BY <2>1, <2>2, BoundAssumption DEF Accept, SlotID, ServerTypes
  <2>4. c.Slot <= srvAdu[c.From] + 1
    BY DEF ProposesAfterApplied
  <2>5. c.Slot - 1 \in 1 .. srvAdu[c.From]
    BY <2>3, <2>4
  <2> QED BY <2>3, <2>5 DEF CountsDecidedSlots
<1> QED BY <1>1, CountsDecided, ProposesBehindServer, ClusterInvariance, PTL

\* Two nodes that applied no slot twice applied the same values in the same
\* order as far as both got, as long as no round was irregular and string(int)
\* tells the rounds and slots apart: their accounts agree.
THEOREM SameAccounts ==
    ASSUME CodePoints
    PROVE  ClusterSpec => []ReplicasAgree
<1>1. ClusterInv => ReplicasAgree
  <2> SUFFICES ASSUME ClusterInv, irregular = {}, NEW n \in Node, NEW m \in Node,
                      ~ Repeats(n), ~ Repeats(m),
                      NEW i \in DOMAIN applied[n], i \in DOMAIN applied[m]
               PROVE  applied[n][i] = applied[m][i]
    BY DEF ReplicasAgree
  <2>1. PICK k \in Sent("LEARN") : /\ k.Slot = i /\ Chosen(i, k.Rnd, k.Val)
                                   /\ applied[n][i] = [SlotID |-> i, Value |-> k.Val]
    BY AppliedIsDecided
  <2>2. PICK l \in Sent("LEARN") : /\ l.Slot = i /\ Chosen(i, l.Rnd, l.Val)
                                   /\ applied[m][i] = [SlotID |-> i, Value |-> l.Val]
    BY AppliedIsDecided
  <2>3. Agreement
    BY SafetyGivesAgreement DEF ClusterInv
  <2>4. k.Val = l.Val
    BY <2>1, <2>2, <2>3 DEF Agreement
  <2> QED BY <2>1, <2>2, <2>4
<1> QED BY <1>1, ClusterInvariance, PTL
=============================================================================
