--------------------------- MODULE ReplicaProofs ---------------------------
(***************************************************************************)
(* A node that hears the votes late applies what was chosen, in order, and *)
(* applies no slot twice as long as no slot was chosen in two rounds.      *)
(***************************************************************************)
EXTENDS Replica, ServerProofs

\* The learns on their way to n.
OnWay(n) == {l \in sent : <<n, l>> \in net}

\* Who may still vote at n for this slot and round: its learn is on its way or held.
Left(n, s, r) ==
    {l.From : l \in {k \in learns[n] \cup OnWay(n) : k.Slot = s /\ k.Rnd = r}}

\* A slot decided in a round has no majority left for that round.
Spent(n) ==
    /\ learns[n] \cap OnWay(n) = {}
    /\ \A d \in decisions[n] : ~ IsQuorum(Left(n, d.Slot, d.Rnd))

SlotsOf(q) == {e.SlotID : e \in Entries(q)}

Distinct(q) == \A i, j \in DOMAIN q : q[i].SlotID = q[j].SlotID => i = j

\* No slot is twice in the channel, the pending list and what was applied.
EachOnce(c, p, a) ==
    /\ Distinct(c) /\ Distinct(p) /\ Distinct(a)
    /\ SlotsOf(c) \cap SlotsOf(p) = {}
    /\ SlotsOf(c) \cap SlotsOf(a) = {}
    /\ SlotsOf(p) \cap SlotsOf(a) = {}

KeepsOnce(n) == EachOnce(chosenValOut[n], dcdValInList[n], applied[n])

ReplicaInv ==
    /\ ServerInv
    /\ sent \in Histories
    /\ \A n \in Node : Spent(n)
    /\ CodePoints /\ ~ ChosenTwice => \A n \in Node : KeepsOnce(n)

-----------------------------------------------------------------------------
LEMMA HistoryVotes ==
    ASSUME sent \in Histories
    PROVE  /\ Sent("LEARN") = sent /\ sent \subseteq Learn
           /\ SlotsArePositive /\ OneVotePerRound
<1>1. sent \subseteq Learn
  BY HistoriesAssumption
<1>2. Sent("LEARN") = sent
  BY <1>1 DEF Sent, Learn
<1> QED BY <1>1, <1>2, HistoriesAssumption DEF SlotsArePositive, OneVotePerRound

LEMMA DistinctAppend ==
    ASSUME NEW q \in Seq(DecidedValue), NEW e \in DecidedValue,
           Distinct(q), e.SlotID \notin SlotsOf(q)
    PROVE  /\ Distinct(Append(q, e))
           /\ SlotsOf(Append(q, e)) = SlotsOf(q) \cup {e.SlotID}
<1>1. PICK r : r = Append(q, e)
  OBVIOUS
<1>2. PICK L \in Nat : L = Len(q)
  BY LenProperties
<1>3. /\ DOMAIN q = 1 .. L /\ DOMAIN r = 1 .. (L + 1)
      /\ \A i \in 1 .. L : r[i] = q[i]
      /\ r[L + 1] = e
  BY <1>1, <1>2, AppendProperties, LenProperties
<1>4. \A i \in 1 .. (L + 1) : i \in 1 .. L \/ i = L + 1
  BY <1>2
<1>5. \A i \in 1 .. L : q[i].SlotID # e.SlotID
  BY <1>3 DEF SlotsOf, Entries
<1>6. \A i, j \in 1 .. (L + 1) : r[i].SlotID = r[j].SlotID => i = j
  BY <1>3, <1>4, <1>5 DEF Distinct
<1>7. Distinct(r)
  BY <1>3, <1>6 DEF Distinct
<1>8. Entries(r) = Entries(q) \cup {e}
  BY <1>1, AppendedEntries
<1> QED BY <1>1, <1>7, <1>8 DEF SlotsOf

LEMMA DistinctTail ==
    ASSUME NEW q \in Seq(DecidedValue), q # << >>, Distinct(q)
    PROVE  /\ Distinct(Tail(q)) /\ Head(q).SlotID \notin SlotsOf(Tail(q))
           /\ SlotsOf(q) = {Head(q).SlotID} \cup SlotsOf(Tail(q))
<1>1. PICK r : r = Tail(q)
  OBVIOUS
<1>2. PICK L \in Nat : L = Len(q)
  BY LenProperties
<1>3. /\ DOMAIN q = 1 .. L /\ L > 0 /\ DOMAIN r = 1 .. (L - 1) /\ Head(q) = q[1]
      /\ \A i \in 1 .. (L - 1) : r[i] = q[i + 1]
  BY <1>1, <1>2, HeadTailProperties, LenProperties, EmptySeq
<1>4. /\ 1 \in 1 .. L
      /\ \A i \in 1 .. (L - 1) : i + 1 \in 1 .. L /\ i + 1 # 1
      /\ \A i, j \in 1 .. (L - 1) : i + 1 = j + 1 => i = j
  BY <1>2, <1>3
<1>5. ASSUME NEW i \in 1 .. (L - 1), NEW j \in 1 .. (L - 1), r[i].SlotID = r[j].SlotID
      PROVE  i = j
  <2>1. q[i + 1].SlotID = q[j + 1].SlotID
    BY <1>3, <1>5
  <2>2. i + 1 = j + 1
    BY <1>3, <1>4, <2>1 DEF Distinct
  <2> QED BY <1>4, <2>2
<1>6. Distinct(r)
  BY <1>3, <1>5 DEF Distinct
<1>7. \A i \in 1 .. (L - 1) : r[i].SlotID # Head(q).SlotID
  BY <1>3, <1>4 DEF Distinct
<1>8. Head(q).SlotID \notin SlotsOf(r)
  BY <1>3, <1>7 DEF SlotsOf, Entries
<1>9. Entries(q) = {Head(q)} \cup Entries(r)
  BY <1>1, HeadAndTailEntries
<1> QED BY <1>1, <1>6, <1>8, <1>9 DEF SlotsOf

\* A value moves from the channel to the end of one of the other two,
LEMMA TakenOnce ==
    ASSUME NEW c \in Seq(DecidedValue), NEW p \in Seq(DecidedValue),
           NEW a \in Seq(DecidedValue), EachOnce(c, p, a), c # << >>
    PROVE  EachOnce(Tail(c), Append(p, Head(c)), a) /\ EachOnce(Tail(c), p, Append(a, Head(c)))
<1>1. /\ Distinct(c) /\ Distinct(p) /\ Distinct(a)
      /\ SlotsOf(c) \cap SlotsOf(p) = {} /\ SlotsOf(c) \cap SlotsOf(a) = {}
      /\ SlotsOf(p) \cap SlotsOf(a) = {}
  BY DEF EachOnce
<1>2. PICK d, t : d = Head(c) /\ t = Tail(c)
  OBVIOUS
<1>3. /\ d \in DecidedValue /\ Distinct(t) /\ d.SlotID \notin SlotsOf(t)
      /\ SlotsOf(c) = {d.SlotID} \cup SlotsOf(t)
  BY <1>1, <1>2, DistinctTail, HeadAndTailEntries
<1>4. d.SlotID \notin SlotsOf(p) /\ d.SlotID \notin SlotsOf(a)
  BY <1>1, <1>3
<1>5. /\ Distinct(Append(p, d)) /\ SlotsOf(Append(p, d)) = SlotsOf(p) \cup {d.SlotID}
      /\ Distinct(Append(a, d)) /\ SlotsOf(Append(a, d)) = SlotsOf(a) \cup {d.SlotID}
  BY <1>1, <1>3, <1>4, DistinctAppend
<1> QED BY <1>1, <1>2, <1>3, <1>4, <1>5 DEF EachOnce

\* or from the head of the pending list.
LEMMA RetriedOnce ==
    ASSUME NEW c \in Seq(DecidedValue), NEW p \in Seq(DecidedValue),
           NEW a \in Seq(DecidedValue), EachOnce(c, p, a), p # << >>
    PROVE  EachOnce(c, Append(Tail(p), Head(p)), a) /\ EachOnce(c, Tail(p), Append(a, Head(p)))
<1>1. /\ Distinct(c) /\ Distinct(p) /\ Distinct(a)
      /\ SlotsOf(c) \cap SlotsOf(p) = {} /\ SlotsOf(c) \cap SlotsOf(a) = {}
      /\ SlotsOf(p) \cap SlotsOf(a) = {}
  BY DEF EachOnce
<1>2. PICK d, t : d = Head(p) /\ t = Tail(p)
  OBVIOUS
<1>3. /\ d \in DecidedValue /\ t \in Seq(DecidedValue) /\ Distinct(t)
      /\ d.SlotID \notin SlotsOf(t)
      /\ SlotsOf(p) = {d.SlotID} \cup SlotsOf(t)
  BY <1>1, <1>2, DistinctTail, HeadAndTailEntries
<1>4. d.SlotID \notin SlotsOf(c) /\ d.SlotID \notin SlotsOf(a)
  BY <1>1, <1>3
<1>5. /\ Distinct(Append(t, d)) /\ SlotsOf(Append(t, d)) = SlotsOf(t) \cup {d.SlotID}
      /\ Distinct(Append(a, d)) /\ SlotsOf(Append(a, d)) = SlotsOf(a) \cup {d.SlotID}
  BY <1>1, <1>3, <1>4, DistinctAppend
<1> QED BY <1>1, <1>2, <1>3, <1>4, <1>5 DEF EachOnce

\* A value of a new slot comes in.
LEMMA AddedOnce ==
    ASSUME NEW c \in Seq(DecidedValue), NEW p \in Seq(DecidedValue),
           NEW a \in Seq(DecidedValue), EachOnce(c, p, a), NEW d \in DecidedValue,
           \A e \in Entries(c) \cup Entries(p) \cup Entries(a) : e.SlotID # d.SlotID
    PROVE  EachOnce(Append(c, d), p, a)
<1>1. d.SlotID \notin SlotsOf(c) /\ d.SlotID \notin SlotsOf(p) /\ d.SlotID \notin SlotsOf(a)
  BY DEF SlotsOf
<1>2. Distinct(Append(c, d)) /\ SlotsOf(Append(c, d)) = SlotsOf(c) \cup {d.SlotID}
  BY <1>1, DistinctAppend DEF EachOnce
<1> QED BY <1>1, <1>2 DEF EachOnce

-----------------------------------------------------------------------------
LEMMA LeftAreNodes ==
    ASSUME ServerInv, sent \in Histories, NEW n \in Node
    PROVE  \A s, r : Left(n, s, r) \in SUBSET Node
<1>1. sent \subseteq Learn /\ Sent("LEARN") = sent
  BY HistoryVotes
<1>2. learns[n] \subseteq sent
  BY <1>1 DEF ServerInv, ServerTypes
<1>3. \A k \in learns[n] \cup OnWay(n) : k.From \in Node
  BY <1>1, <1>2 DEF OnWay, Learn
<1> QED BY <1>3 DEF Left

LEMMA LeftAreNodesNext ==
    ASSUME ServerInv', sent' \in Histories, NEW n \in Node
    PROVE  (\A s, r : Left(n, s, r) \in SUBSET Node)'
<1>1. sent' \subseteq Learn /\ Sent("LEARN")' = sent'
  BY HistoriesAssumption DEF Sent, Learn
<1>2. learns'[n] \subseteq sent'
  BY <1>1 DEF ServerInv, ServerTypes
<1>3. \A k \in learns'[n] \cup OnWay(n)' : k.From \in Node
  BY <1>1, <1>2 DEF OnWay, Learn
<1> QED BY <1>3 DEF Left

\* With fewer learns on their way and held, what was spent stays so.
LEMMA FewerLeft ==
    ASSUME ServerInv, sent \in Histories, NEW n \in Node, NEW s, NEW r,
           learns'[n] \cup OnWay(n)' \subseteq learns[n] \cup OnWay(n),
           ~ IsQuorum(Left(n, s, r))
    PROVE  ~ IsQuorum(Left(n, s, r)')
<1>1. Left(n, s, r)' \subseteq Left(n, s, r)
  BY DEF Left
<1> QED BY <1>1, LeftAreNodes, QuorumGrows

\* The senders of a decided majority are no longer among those left.
LEMMA DecidedIsSpent ==
    ASSUME ServerInv, ServerInv', sent \in Histories, sent' = sent,
           NEW n \in Node, NEW m, m \in OnWay(n), learns[n] \cap OnWay(n) = {},
           OnWay(n)' = OnWay(n) \ {m},
           NEW S, S \subseteq learns[n] \cup {m},
           NEW l \in S, NEW D, D = {k \in S : k.Rnd = l.Rnd /\ k.Slot = l.Slot},
           IsQuorum({k.From : k \in D}), learns'[n] = S \ D
    PROVE  ~ IsQuorum(Left(n, l.Slot, l.Rnd)')
<1>1. /\ sent \subseteq Learn /\ Sent("LEARN") = sent /\ OneVotePerRound
  BY HistoryVotes
<1>2. learns[n] \subseteq sent /\ m \in sent
  BY <1>1 DEF ServerInv, ServerTypes, OnWay
<1> DEFINE Q == {k.From : k \in D}
           R == Left(n, l.Slot, l.Rnd)'
<1>3. Q \in SUBSET Node /\ IsQuorum(Q)
  BY <1>1, <1>2 DEF Learn
<1>4. R \in SUBSET Node
  <2>1. sent' \in Histories
    OBVIOUS
  <2>2. (\A s, r : Left(n, s, r) \in SUBSET Node)'
    BY <2>1, LeftAreNodesNext
  <2> QED BY <2>2
<1>5. ASSUME NEW a \in Q, a \in R PROVE FALSE
  <2>1. PICK j \in D : j.From = a
    BY <1>5
  <2>2. PICK k \in learns'[n] \cup OnWay(n)' : k.Slot = l.Slot /\ k.Rnd = l.Rnd /\ k.From = a
    BY <1>5 DEF Left
  <2>3. j \in Learn /\ k \in Learn /\ j \in sent /\ k \in sent
    BY <1>1, <1>2 DEF OnWay
  <2>4. j.Slot = k.Slot /\ j.Rnd = k.Rnd /\ j.From = k.From /\ j.Val = k.Val
    BY <1>1, <2>1, <2>2, <2>3 DEF OneVotePerRound
  <2>5. j = k
    BY <2>3, <2>4 DEF Learn
  <2>6. k \in OnWay(n) /\ k # m /\ k \in S
    BY <2>1, <2>2, <2>5
  <2> QED BY <2>6
<1>6. ~ IsQuorum(R)
  <2> HIDE DEF Q, R
  <2> QED BY <1>3, <1>4, <1>5, QuorumsMeet
<1> QED BY <1>6

\* A majority is of somebody.
LEMMA VoterOfMajority ==
    ASSUME NEW s, NEW r, NEW v, sent \subseteq Learn, Majority(sent, s, r, v)
    PROVE  \E l \in sent : l.Slot = s /\ l.Rnd = r /\ l.Val = v
<1> DEFINE Q == {l.From : l \in {k \in sent : k.Slot = s /\ k.Rnd = r /\ k.Val = v}}
<1>1. Q \in SUBSET Node /\ IsQuorum(Q)
  BY DEF Learn, Majority
<1>2. \E a \in Q : a \in Q
  <2> HIDE DEF Q
  <2> QED BY <1>1, QuorumsMeet
<1> QED BY <1>2

\* What is decided in one round only is decided once.
LEMMA NewSlotDecided ==
    ASSUME ServerInv, ServerInv', sent \in Histories, sent' = sent, NEW n \in Node, Spent(n),
           CodePoints, ~ ChosenTwice,
           NEW d \in decisions'[n], decisions[n] \subseteq decisions'[n],
           NEW Q, IsQuorum(Q), Q \subseteq Left(n, d.Slot, d.Rnd)
    PROVE  \A e \in Keeps(n) : e.SlotID # d.Slot
<1> SUFFICES ASSUME NEW e \in Keeps(n), e.SlotID = d.Slot
             PROVE  FALSE
  OBVIOUS
<1>1. /\ sent \subseteq Learn /\ Sent("LEARN") = sent /\ Sent("LEARN")' = sent
      /\ OneVotePerRound /\ OneVotePerRound'
  BY HistoryVotes DEF Sent, OneVotePerRound
<1>2. PICK c \in decisions[n] : e = ValueOf(c)
  BY DEF ServerInv, Serving
<1>3. c.Slot = d.Slot
  BY <1>2 DEF ValueOf
<1>4. DecisionsHaveMajority'
  BY <1>1 DEF ServerInv
<1>5. \A b \in decisions'[n] : Majority(sent, b.Slot, b.Rnd, b.Val)
  BY <1>1, <1>4 DEF DecisionsHaveMajority, Majority
<1>6. c \in decisions'[n]
  OBVIOUS
<1>7. PICK l \in sent : l.Slot = c.Slot /\ l.Rnd = c.Rnd /\ l.Val = c.Val
  BY <1>1, <1>5, <1>6, VoterOfMajority
<1>8. PICK m \in sent : m.Slot = d.Slot /\ m.Rnd = d.Rnd /\ m.Val = d.Val
  BY <1>1, <1>5, VoterOfMajority
<1>9. /\ Majority(sent, l.Slot, l.Rnd, l.Val) /\ Majority(sent, m.Slot, m.Rnd, m.Val)
      /\ l.Slot = m.Slot
  BY <1>3, <1>5, <1>6, <1>7, <1>8
<1>10. ~ (l.Rnd < m.Rnd) /\ ~ (m.Rnd < l.Rnd)
  BY <1>9 DEF ChosenTwice
<1>11. l.Rnd \in Int /\ m.Rnd \in Int
  BY <1>1, BoundAssumption DEF Learn, Round
<1>12. l.Rnd = m.Rnd
  BY <1>10, <1>11
<1>13. c.Rnd = d.Rnd
  BY <1>7, <1>8, <1>12
<1>14. IsQuorum(Left(n, c.Slot, c.Rnd))
  BY <1>3, <1>13, LeftAreNodes, QuorumGrows
<1> QED BY <1>14 DEF Spent

-----------------------------------------------------------------------------
LEMMA InitReplica == Init => ReplicaInv
<1> SUFFICES ASSUME Init PROVE ReplicaInv
  OBVIOUS
<1>1. sent \in Histories /\ ServerInit /\ LearnerInit
  BY DEF Init
<1>2. Sent("LEARN") \subseteq Learn
  BY <1>1, HistoryVotes
<1>3. ServerInv
  BY <1>1, <1>2, InitServer
<1>4. \A n \in Node : Spent(n)
  BY <1>1 DEF LearnerInit, Spent
<1>5. ASSUME NEW n \in Node PROVE KeepsOnce(n)
  <2>1. chosenValOut[n] = << >> /\ dcdValInList[n] = << >> /\ applied[n] = << >>
    BY <1>1 DEF LearnerInit, ServerInit
  <2>2. Entries(<< >>) = {} /\ Distinct(<< >>)
    BY DEF Entries, Distinct
  <2> QED BY <2>1, <2>2 DEF KeepsOnce, EachOnce, SlotsOf
<1> QED BY <1>1, <1>3, <1>4, <1>5 DEF ReplicaInv

\* A learn comes late to a node.
LEMMA LearnArrivesKeeps ==
    ASSUME ReplicaInv, NEW n \in Late, NEW m, LearnArrives(n, m)
    PROVE  ReplicaInv'
<1>1. /\ ServerInv /\ sent \in Histories /\ \A x \in Node : Spent(x)
      /\ n \in Node
  BY LateAssumption DEF ReplicaInv
<1>2. /\ sent \subseteq Learn /\ Sent("LEARN") = sent
  BY <1>1, HistoryVotes
<1>3. handleLearn(n, m) /\ m \in Sent("LEARN") /\ m \in OnWay(n) /\ UNCHANGED serverVars
  BY <1>2 DEF LearnArrives, Waiting, OnWay, Sent
<1>4. ServerInv'
  BY <1>1, <1>3, LearnKeeps
<1>5. PICK S : S = store(learns[n], m)
  OBVIOUS
<1>6. /\ sent' = sent /\ net' = net \ {<<n, m>>}
      /\ \/ learns' = [learns EXCEPT ![n] = S] /\ UNCHANGED <<chosenValOut, decisions>>
         \/ \E D, l, val : Decides(n, S, D, l, val)
  BY <1>3, <1>5, LearnOutcome
<1>7. /\ learns \in [Node -> SUBSET sent] /\ decisions \in [Node -> SUBSET Decision]
      /\ chosenValOut \in [Node -> Seq(DecidedValue)]
      /\ dcdValInList \in [Node -> Seq(DecidedValue)]
      /\ applied \in [Node -> Seq(DecidedValue)]
  BY <1>1, <1>2 DEF ServerInv, ServerTypes
<1>8. S \subseteq learns[n] \cup {m} /\ \A j, k \in S : keyOf(j) = keyOf(k) => j = k
  BY <1>1, <1>5, StoredLearns DEF ServerInv, Learning
<1>9. OnWay(n)' = OnWay(n) \ {m} /\ \A x \in Node : x # n => OnWay(x)' = OnWay(x)
  BY <1>6 DEF OnWay
<1>10. UNCHANGED <<dcdValInList, applied>>
  BY <1>3 DEF serverVars
<1>11. ChosenTwice' <=> ChosenTwice
  BY <1>6 DEF ChosenTwice
<1>12. ASSUME NEW x \in Node, x # n, learns'[x] = learns[x], decisions'[x] = decisions[x]
       PROVE  Spent(x)'
  <2>1. Spent(x)
    BY <1>1
  <2> QED BY <1>9, <1>12, <2>1 DEF Spent, Left
<1>13. learns[n] \cap OnWay(n) = {}
  BY <1>1 DEF Spent
<1>14. CASE learns' = [learns EXCEPT ![n] = S] /\ UNCHANGED <<chosenValOut, decisions>>
  <2>1. learns'[n] = S /\ \A x \in Node : x # n => learns'[x] = learns[x]
    BY <1>1, <1>7, <1>14
  <2>2. Spent(n)'
    <3>1. learns'[n] \cup OnWay(n)' \subseteq learns[n] \cup OnWay(n)
      BY <1>3, <1>8, <1>9, <2>1
    <3>2. learns'[n] \cap OnWay(n)' = {}
      BY <1>8, <1>9, <1>13, <2>1
    <3>3. \A d \in decisions'[n] : ~ IsQuorum(Left(n, d.Slot, d.Rnd)')
      BY <1>1, <1>14, <3>1, FewerLeft DEF Spent
    <3> QED BY <3>2, <3>3 DEF Spent
  <2>3. \A x \in Node : Spent(x)'
    BY <1>12, <1>14, <2>1, <2>2
  <2>4. CodePoints /\ ~ ChosenTwice' => \A x \in Node : KeepsOnce(x)'
    BY <1>10, <1>11, <1>14 DEF ReplicaInv, KeepsOnce
  <2> QED BY <1>1, <1>4, <1>6, <2>3, <2>4 DEF ReplicaInv
<1>15. ASSUME NEW D, NEW l, NEW val, Decides(n, S, D, l, val)
       PROVE  ReplicaInv'
  <2>1. D \in majorities(S) /\ l \in D
    BY <1>15 DEF Decides
  <2>2. S \in SUBSET Learn
    BY <1>1, <1>2, <1>3, <1>7, <1>8
  <2>3. /\ l \in S /\ D = {k \in S : k.Rnd = l.Rnd /\ k.Slot = l.Slot}
        /\ IsQuorum({k.From : k \in D})
    BY <1>8, <2>1, <2>2, MajorityIsOfRound
  <2>4. PICK d : d = [Slot |-> l.Slot, Rnd |-> l.Rnd, Val |-> val]
    OBVIOUS
  <2>5. PICK e : e = [SlotID |-> l.Slot, Value |-> val]
    OBVIOUS
  <2>6. /\ learns' = [learns EXCEPT ![n] = S \ D]
        /\ chosenValOut' = [chosenValOut EXCEPT ![n] = Append(@, e)]
        /\ decisions' = [decisions EXCEPT ![n] = @ \cup {d}]
    BY <1>15, <2>4, <2>5 DEF Decides
  <2>7. d.Slot = l.Slot /\ d.Rnd = l.Rnd /\ e.SlotID = l.Slot
    BY <2>4, <2>5
  <2>8. learns'[n] = S \ D /\ \A x \in Node : x # n => learns'[x] = learns[x]
    BY <1>1, <1>7, <2>6
  <2>9. decisions'[n] = decisions[n] \cup {d} /\ \A x \in Node : x # n => decisions'[x] = decisions[x]
    BY <1>1, <1>7, <2>6
  <2>10. /\ chosenValOut'[n] = Append(chosenValOut[n], e)
         /\ \A x \in Node : x # n => chosenValOut'[x] = chosenValOut[x]
    BY <1>1, <1>7, <2>6
  <2>11. ~ IsQuorum(Left(n, l.Slot, l.Rnd)')
    BY <1>1, <1>3, <1>4, <1>6, <1>8, <1>9, <1>13, <2>3, <2>8, DecidedIsSpent
  <2>12. Spent(n)'
    <3>1. learns'[n] \cup OnWay(n)' \subseteq learns[n] \cup OnWay(n)
      BY <1>3, <1>8, <1>9, <2>8
    <3>2. learns'[n] \cap OnWay(n)' = {}
      BY <1>8, <1>9, <1>13, <2>8
    <3>3. \A c \in decisions[n] : ~ IsQuorum(Left(n, c.Slot, c.Rnd)')
      BY <1>1, <3>1, FewerLeft DEF Spent
    <3>4. \A c \in decisions'[n] : ~ IsQuorum(Left(n, c.Slot, c.Rnd)')
      BY <2>7, <2>9, <2>11, <3>3
    <3> QED BY <3>2, <3>4 DEF Spent
  <2>13. \A x \in Node : Spent(x)'
    BY <1>12, <2>8, <2>9, <2>12
  <2>14. ASSUME CodePoints, ~ ChosenTwice
         PROVE  \A x \in Node : KeepsOnce(x)'
    <3>1. \A x \in Node : KeepsOnce(x)
      BY <2>14 DEF ReplicaInv
    <3> DEFINE Q == {k.From : k \in D}
    <3>2. Q \subseteq Left(n, d.Slot, d.Rnd)
      BY <1>3, <1>8, <2>3, <2>7 DEF Left
    <3>3. d \in decisions'[n] /\ decisions[n] \subseteq decisions'[n] /\ Spent(n)
      BY <1>1, <2>9
    <3>4. \A f \in Keeps(n) : f.SlotID # d.Slot
      <4> HIDE DEF Q
      <4>1. IsQuorum(Q)
        BY <2>3 DEF Q
      <4> QED BY <1>1, <1>4, <1>6, <2>14, <3>2, <3>3, <4>1, NewSlotDecided
    <3>5. e \in DecidedValue
      <4>1. chosenValOut'[n] \in Seq(DecidedValue) /\ chosenValOut[n] \in Seq(DecidedValue)
        BY <1>1, <1>4, <1>7 DEF ServerInv, ServerTypes
      <4>2. l \in Learn
        BY <2>2, <2>3
      <4>3. d \in Decision
        BY <1>1, <1>4, <2>9 DEF ServerInv, ServerTypes
      <4> QED BY <2>4, <2>5, <4>2, <4>3 DEF Decision, DecidedValue, Learn
    <3>6. EachOnce(Append(chosenValOut[n], e), dcdValInList[n], applied[n])
      BY <1>1, <1>7, <2>7, <3>1, <3>4, <3>5, AddedOnce DEF KeepsOnce, Keeps
    <3>7. KeepsOnce(n)'
      BY <1>10, <2>10, <3>6 DEF KeepsOnce
    <3>8. \A x \in Node : x # n => KeepsOnce(x)'
      BY <1>10, <2>10, <3>1 DEF KeepsOnce
    <3> QED BY <3>7, <3>8
  <2> QED BY <1>1, <1>4, <1>6, <1>11, <2>13, <2>14 DEF ReplicaInv
<1> QED BY <1>6, <1>14, <1>15

\* The server of a node takes a step.
LEMMA ServerStepKeeps ==
    ASSUME ReplicaInv, NEW n \in Late, ValueDecided(n) \/ Incremented(n)
    PROVE  ReplicaInv'
<1>1. /\ ServerInv /\ sent \in Histories /\ \A x \in Node : Spent(x)
      /\ n \in Node
  BY LateAssumption DEF ReplicaInv
<1>2. TakeDecidedValue(n) \/ AfterIncrement(n)
  BY DEF ValueDecided, Incremented
<1>3. UNCHANGED <<net, sent, learns, decisions>>
  BY DEF ValueDecided, Incremented, TakeDecidedValue, AfterIncrement, netVars, learnerVars
<1>4. VotesGrow
  BY <1>1, <1>3, HistoryVotes DEF VotesGrow, Sent
<1>5. ServerInv'
  BY <1>1, <1>2, <1>4, TakeKeeps, AfterIncrementKeeps
<1>6. ASSUME NEW x \in Node
      PROVE  Spent(x)'
  <2>1. OnWay(x)' = OnWay(x) /\ learns'[x] = learns[x] /\ decisions'[x] = decisions[x]
    BY <1>3 DEF OnWay
  <2>2. \A s, r : Left(x, s, r)' = Left(x, s, r)
    BY <2>1 DEF Left
  <2> QED BY <1>1, <2>1, <2>2 DEF Spent
<1>7. /\ chosenValOut \in [Node -> Seq(DecidedValue)]
      /\ dcdValInList \in [Node -> Seq(DecidedValue)]
      /\ applied \in [Node -> Seq(DecidedValue)]
  BY <1>1 DEF ServerInv, ServerTypes
<1>8. ASSUME \A x \in Node : KeepsOnce(x)
      PROVE  \A x \in Node : KeepsOnce(x)'
  <2>1. PICK c \in Seq(DecidedValue), p \in Seq(DecidedValue), a \in Seq(DecidedValue) :
            c = chosenValOut[n] /\ p = dcdValInList[n] /\ a = applied[n]
    BY <1>1, <1>7
  <2>2. EachOnce(c, p, a)
    BY <1>1, <1>8, <2>1 DEF KeepsOnce
  <2>3. CASE TakeDecidedValue(n)
    <3>1. PICK d, t : d = Head(c) /\ t = Tail(c)
      OBVIOUS
    <3>2. /\ c # << >> /\ chosenValOut' = [chosenValOut EXCEPT ![n] = t]
          /\ Puts(n, d, p) \/ Applies(n, d, p)
      BY <2>1, <2>3, <3>1 DEF TakeDecidedValue, srvHandleDecidedValue, Puts, Applies
    <3>3. EachOnce(t, Append(p, d), a) /\ EachOnce(t, p, Append(a, d))
      BY <2>2, <3>1, <3>2, TakenOnce
    <3>4. /\ chosenValOut'[n] = t
          /\ \A x \in Node : x # n => chosenValOut'[x] = chosenValOut[x]
      BY <1>1, <1>7, <3>2
    <3>5. \/ /\ dcdValInList' = [dcdValInList EXCEPT ![n] = Append(p, d)]
             /\ applied' = applied
          \/ /\ dcdValInList' = [dcdValInList EXCEPT ![n] = p]
             /\ applied' = [applied EXCEPT ![n] = Append(a, d)]
      BY <2>1, <3>2 DEF Puts, Applies
    <3>6. \A x \in Node : x # n => dcdValInList'[x] = dcdValInList[x] /\ applied'[x] = applied[x]
      BY <1>1, <1>7, <3>5
    <3>7. EachOnce(chosenValOut'[n], dcdValInList'[n], applied'[n])
      BY <1>1, <1>7, <2>1, <3>3, <3>4, <3>5
    <3> QED BY <1>8, <3>4, <3>6, <3>7 DEF KeepsOnce
  <2>4. CASE AfterIncrement(n) /\ p # << >>
    <3>1. PICK d, t : d = Head(p) /\ t = Tail(p)
      OBVIOUS
    <3>2. chosenValOut' = chosenValOut /\ (Puts(n, d, t) \/ Applies(n, d, t))
      BY <2>1, <2>4, <3>1 DEF AfterIncrement, srvHandleDecidedValue, Puts, Applies, learnerVars
    <3>3. EachOnce(c, Append(t, d), a) /\ EachOnce(c, t, Append(a, d))
      BY <2>2, <2>4, <3>1, RetriedOnce
    <3>4. \/ /\ dcdValInList' = [dcdValInList EXCEPT ![n] = Append(t, d)]
             /\ applied' = applied
          \/ /\ dcdValInList' = [dcdValInList EXCEPT ![n] = t]
             /\ applied' = [applied EXCEPT ![n] = Append(a, d)]
      BY <2>1, <3>2 DEF Puts, Applies
    <3>5. \A x \in Node : x # n => dcdValInList'[x] = dcdValInList[x] /\ applied'[x] = applied[x]
      BY <1>1, <1>7, <3>4
    <3>6. EachOnce(chosenValOut'[n], dcdValInList'[n], applied'[n])
      BY <1>1, <1>7, <2>1, <3>2, <3>3, <3>4
    <3> QED BY <1>8, <3>2, <3>5, <3>6 DEF KeepsOnce
  <2>5. CASE AfterIncrement(n) /\ p = << >>
    <3>1. UNCHANGED <<chosenValOut, dcdValInList, applied>>
      BY <2>1, <2>5 DEF AfterIncrement, learnerVars
    <3> QED BY <1>8, <3>1 DEF KeepsOnce
  <2> QED BY <1>2, <2>3, <2>4, <2>5
<1>9. ChosenTwice' <=> ChosenTwice
  BY <1>3 DEF ChosenTwice
<1> QED BY <1>1, <1>3, <1>5, <1>6, <1>8, <1>9 DEF ReplicaInv

LEMMA NextReplica == ReplicaInv /\ [Next]_vars => ReplicaInv'
<1> SUFFICES ASSUME ReplicaInv, [Next]_vars PROVE ReplicaInv'
  OBVIOUS
<1>1. ASSUME NEW n \in Late, SomeLearnArrives(n) PROVE ReplicaInv'
  BY <1>1, LearnArrivesKeeps DEF SomeLearnArrives
<1>2. ASSUME NEW n \in Late, ValueDecided(n) \/ Incremented(n) PROVE ReplicaInv'
  BY <1>2, ServerStepKeeps
<1>3. CASE UNCHANGED vars
  <2>1. UNCHANGED <<learnerVars, serverVars, net, sent>>
    BY <1>3 DEF vars, netVars
  <2>2. UNCHANGED <<learns, decisions, chosenValOut, dcdValInList, applied>>
    BY <2>1 DEF learnerVars, serverVars
  <2>3. ServerInv /\ sent \in Histories
    BY DEF ReplicaInv
  <2>4. ServerInv'
    <3>1. VotesGrow
      BY <2>1, <2>3, HistoryVotes DEF VotesGrow, Sent
    <3> QED BY <2>1, <2>3, <3>1, QuietKeeps
  <2>5. \A n \in Node : Spent(n)'
    BY <2>1, <2>2 DEF ReplicaInv, Spent, Left, OnWay
  <2>6. CodePoints /\ ~ ChosenTwice' => \A n \in Node : KeepsOnce(n)'
    BY <2>1, <2>2 DEF ReplicaInv, ChosenTwice, KeepsOnce
  <2> QED BY <2>1, <2>3, <2>4, <2>5, <2>6 DEF ReplicaInv
<1> QED BY <1>1, <1>2, <1>3 DEF Next

\* The learners and servers of the nodes reached late keep the invariant.
THEOREM ReplicaInvariance == Spec => []ReplicaInv
BY InitReplica, NextReplica, PTL DEF Spec

-----------------------------------------------------------------------------
\* The variables of the learners and servers have their types.
THEOREM ReplicaTypes == Spec => []TypeOK
<1>1. ReplicaInv => TypeOK
  <2> SUFFICES ASSUME ReplicaInv PROVE TypeOK
    OBVIOUS
  <2>1. ServerTypes
    BY DEF ReplicaInv, ServerInv
  <2>2. learns \in [Node -> SUBSET Learn]
    BY <2>1 DEF ServerTypes
  <2> QED BY <2>1, <2>2 DEF TypeOK, ServerTypes
<1> QED BY <1>1, ReplicaInvariance, PTL

\* No decided value is lost between the learner and the accounts, whatever the
\* order of the learns, and however often a value waits for its turn.
THEOREM NothingLost == Spec => []DecisionsKept
<1>1. ReplicaInv => DecisionsKept
  <2> SUFFICES ASSUME ReplicaInv, NEW n \in Node, NEW d \in decisions[n]
               PROVE  LET val == [SlotID |-> d.Slot, Value |-> d.Val]
                      IN  \E q \in {chosenValOut[n], dcdValInList[n], applied[n]} :
                              \E i \in DOMAIN q : q[i] = val
    BY DEF DecisionsKept
  <2>1. ValueOf(d) \in Keeps(n)
    BY DEF ReplicaInv, ServerInv, Serving
  <2>2. PICK q \in {chosenValOut[n], dcdValInList[n], applied[n]} : ValueOf(d) \in Entries(q)
    BY <2>1 DEF Keeps
  <2> QED BY <2>2 DEF Entries, ValueOf
<1> QED BY <1>1, ReplicaInvariance, PTL

\* What a late node decides had its majority, as long as string(int) tells the
\* rounds and slots apart.
THEOREM LateDecisionsHaveMajority ==
    ASSUME CodePoints
    PROVE  Spec => []DecisionsHaveMajority
<1>1. ReplicaInv => DecisionsHaveMajority
  BY HistoryVotes DEF ReplicaInv, ServerInv
<1> QED BY <1>1, ReplicaInvariance, PTL

\* A late node that applied no slot twice applied 1, 2, 3, ... with the values
\* the majorities voted for.
THEOREM LateAppliesInOrder ==
    ASSUME CodePoints
    PROVE  Spec => []AppliedInOrder
<1>1. ReplicaInv => AppliedInOrder
  <2> SUFFICES ASSUME ReplicaInv, NEW n \in Node, ~ Repeats(n), NEW i \in DOMAIN applied[n]
               PROVE  /\ applied[n][i].SlotID = i
                      /\ \E r \in Round : Majority(sent, i, r, applied[n][i].Value)
    BY DEF AppliedInOrder
  <2>1. /\ ServerInv /\ sent \in Histories
    BY DEF ReplicaInv
  <2>2. /\ SlotsArePositive /\ Sent("LEARN") = sent /\ DecisionsHaveMajority
    BY <2>1, HistoryVotes DEF ServerInv
  <2>3. applied[n][i].SlotID = i
    BY <2>1, <2>2 DEF ServerInv, InOrder
  <2>4. applied[n][i] \in Keeps(n)
    BY DEF Keeps, Entries
  <2>5. PICK d \in decisions[n] : applied[n][i] = ValueOf(d)
    BY <2>1, <2>4 DEF ServerInv, Serving
  <2>6. d.Slot = i /\ d.Val = applied[n][i].Value
    BY <2>3, <2>5 DEF ValueOf
  <2>7. d \in Decision
    BY <2>1 DEF ServerInv, ServerTypes
  <2>8. d.Rnd \in Round
    BY <2>7 DEF Decision
  <2>9. Majority(sent, i, d.Rnd, applied[n][i].Value)
    BY <2>2, <2>6 DEF DecisionsHaveMajority, Majority
  <2> QED BY <2>3, <2>8, <2>9
<1> QED BY <1>1, ReplicaInvariance, PTL

\* When every slot has its majority in one round only, no slot is applied twice,
\* however many learns come after the decision.
THEOREM LateAppliesOnce ==
    ASSUME CodePoints
    PROVE  Spec => []ChosenOnceAppliedOnce
<1>1. ReplicaInv => ChosenOnceAppliedOnce
  <2> SUFFICES ASSUME ReplicaInv, ~ ChosenTwice, NEW n \in Node, Repeats(n)
               PROVE  FALSE
    BY DEF ChosenOnceAppliedOnce
  <2>1. Distinct(applied[n])
    BY DEF ReplicaInv, KeepsOnce, EachOnce
  <2>2. PICK i, j \in DOMAIN applied[n] :
            i < j /\ applied[n][i].SlotID = applied[n][j].SlotID
    BY DEF Repeats
  <2>3. applied[n] \in Seq(DecidedValue)
    BY DEF ReplicaInv, ServerInv, ServerTypes
  <2>4. i = j /\ i \in Int
    BY <2>1, <2>2, <2>3 DEF Distinct
  <2> QED BY <2>2, <2>4
<1> QED BY <1>1, ReplicaInvariance, PTL
=============================================================================
