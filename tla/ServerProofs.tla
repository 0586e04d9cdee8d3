---------------------------- MODULE ServerProofs ----------------------------
(***************************************************************************)
(* What the learners and the servers guarantee whatever learns arrive, in  *)
(* whatever order: no decided value is lost or made up, decisions have     *)
(* majorities, and a node that applied no slot twice applied 1, 2, 3, ...  *)
(***************************************************************************)
EXTENDS Server, InductionProofs

-----------------------------------------------------------------------------
\* Majorities of the nodes (proposer.go:71, learner.go:32).

\* Sets of nodes are finite, and a majority stays one when nodes join.
LEMMA NodesAreFinite == ASSUME NEW Q \in SUBSET Node PROVE IsFiniteSet(Q)
<1>1. IsFiniteSet(Node)
  BY NAssumption, FS_Interval DEF Node
<1> QED BY <1>1, FS_Subset

LEMMA QuorumGrows ==
    ASSUME NEW Q, NEW R \in SUBSET Node, Q \subseteq R, IsQuorum(Q)
    PROVE  IsQuorum(R)
<1>1. IsFiniteSet(R) /\ IsFiniteSet(Q)
  BY NodesAreFinite
<1>2. Cardinality(Q) <= Cardinality(R)
  BY <1>1, FS_Subset
<1>3. Cardinality(Q) \in Nat /\ Cardinality(R) \in Nat /\ quorum \in Int
  BY <1>1, FS_CardinalityType, NAssumption DEF quorum
<1> QED BY <1>2, <1>3 DEF IsQuorum

\* Two majorities meet.
LEMMA QuorumsMeet ==
    ASSUME NEW Q \in SUBSET Node, NEW R \in SUBSET Node, IsQuorum(Q), IsQuorum(R)
    PROVE  \E a \in Q : a \in R
<1>1. IsFiniteSet(Q) /\ IsFiniteSet(R) /\ IsFiniteSet(Node)
  BY NodesAreFinite
<1>2. SUFFICES ASSUME Q \cap R = {} PROVE FALSE
  OBVIOUS
<1>3. Cardinality(Q \cup R) = Cardinality(Q) + Cardinality(R)
  <2>1. Cardinality(Q \cup R)
          = Cardinality(Q) + Cardinality(R) - Cardinality(Q \cap R)
    BY <1>1, FS_Union
  <2>2. Cardinality(Q \cap R) = 0
    BY <1>2, FS_EmptySet
  <2>3. Cardinality(Q) \in Nat /\ Cardinality(R) \in Nat
    BY <1>1, FS_CardinalityType
  <2> QED BY <2>1, <2>2, <2>3
<1>4. Cardinality(Q \cup R) <= N
  <2>1. Cardinality(Node) = N
    BY NAssumption, FS_Interval DEF Node
  <2>2. Q \cup R \subseteq Node
    OBVIOUS
  <2> QED BY <1>1, <2>1, <2>2, FS_Subset
<1>5. 2 * quorum > N
  BY NAssumption DEF quorum
<1>6. Cardinality(Q) \in Nat /\ Cardinality(R) \in Nat /\ quorum \in Int
  BY <1>1, FS_CardinalityType, NAssumption DEF quorum
<1> QED BY <1>3, <1>4, <1>5, <1>6, NAssumption DEF IsQuorum

-----------------------------------------------------------------------------
\* string(i) tells rounds and slots apart.
CodePoints == \A i \in Round \cup SlotID : runeOf(i) = i

\* So it is as long as rounds and slots stay below the surrogates; slot 55296
\* is the first whose key is another one's, too (learner.go:112).
LEMMA KeysAreDistinct ==
    ASSUME MaxRound < 55296, MaxSlot < 55296
    PROVE  CodePoints
  BY BoundAssumption DEF CodePoints, runeOf, Round, SlotID

Entries(q) == {q[i] : i \in DOMAIN q}

ValueOf(d) == [SlotID |-> d.Slot, Value |-> d.Val]

\* What the learner and the server of n hold or have applied.
Keeps(n) == Entries(chosenValOut[n]) \cup Entries(dcdValInList[n]) \cup Entries(applied[n])

SlotsArePositive == \A l \in Sent("LEARN") : l.Slot > 0

\* No two votes for one slot and round have different values.
OneVotePerRound ==
    \A l, m \in Sent("LEARN") : l.Slot = m.Slot /\ l.Rnd = m.Rnd => l.Val = m.Val

-----------------------------------------------------------------------------
Decision == [Slot : SlotID, Rnd : Round, Val : AnyValue]

ServerTypes ==
    /\ learns \in [Node -> SUBSET Sent("LEARN")]
    /\ Sent("LEARN") \subseteq Learn
    /\ chosenValOut \in [Node -> Seq(DecidedValue)]
    /\ decisions \in [Node -> SUBSET Decision]
    /\ srvAdu \in [Node -> Nat]
    /\ dcdValInList \in [Node -> Seq(DecidedValue)]
    /\ srvPc \in [Node -> {"loop", "inc"}]
    /\ applied \in [Node -> Seq(DecidedValue)]

\* The learner holds one learn per key, and decides on what it heard.
Learning(n) ==
    /\ \A k, l \in learns[n] : keyOf(k) = keyOf(l) => k = l
    /\ \A d \in decisions[n] :
          \E k, l \in Sent("LEARN") : k.Slot = d.Slot /\ k.Rnd = d.Rnd /\ l.Val = d.Val

\* What is decided is kept, and nothing else; the server counts what it applied.
Serving(n) ==
    /\ Keeps(n) = {ValueOf(d) : d \in decisions[n]}
    /\ srvAdu[n] = Len(applied[n])

InOrder(n) == ~ Repeats(n) => \A i \in DOMAIN applied[n] : applied[n][i].SlotID = i

ServerInv ==
    /\ ServerTypes
    /\ \A n \in Node : Learning(n) /\ Serving(n)
    /\ SlotsArePositive => \A n \in Node : InOrder(n)
    /\ CodePoints /\ OneVotePerRound => DecisionsHaveMajority

-----------------------------------------------------------------------------
\* The entries of a queue that grows at its end and shrinks at its head.
LEMMA AppendedEntries ==
    ASSUME NEW S, NEW q \in Seq(S), NEW e \in S
    PROVE  /\ Append(q, e) \in Seq(S)
           /\ Entries(Append(q, e)) = Entries(q) \cup {e}
<1>1. /\ Append(q, e) \in Seq(S) /\ Len(Append(q, e)) = Len(q) + 1
      /\ \A i \in 1 .. Len(q) : Append(q, e)[i] = q[i]
      /\ Append(q, e)[Len(q) + 1] = e
  BY AppendProperties
<1>2. /\ Len(q) \in Nat /\ DOMAIN q = 1 .. Len(q)
      /\ DOMAIN Append(q, e) = 1 .. (Len(q) + 1)
  BY <1>1, LenProperties
<1>3. \A i \in 1 .. (Len(q) + 1) : i \in 1 .. Len(q) \/ i = Len(q) + 1
  BY <1>2
<1>4. Entries(Append(q, e)) \subseteq Entries(q) \cup {e}
  BY <1>1, <1>2, <1>3 DEF Entries
<1>5. \A i \in 1 .. Len(q) : i \in 1 .. (Len(q) + 1)
  BY <1>2
<1>6. Len(q) + 1 \in 1 .. (Len(q) + 1)
  BY <1>2
<1>7. Entries(q) \cup {e} \subseteq Entries(Append(q, e))
  BY <1>1, <1>2, <1>5, <1>6 DEF Entries
<1> QED BY <1>1, <1>4, <1>7

LEMMA HeadAndTailEntries ==
    ASSUME NEW S, NEW q \in Seq(S), q # << >>
    PROVE  /\ Head(q) \in S /\ Tail(q) \in Seq(S)
           /\ Entries(q) = {Head(q)} \cup Entries(Tail(q))
<1>1. /\ Head(q) \in S /\ Tail(q) \in Seq(S) /\ Len(Tail(q)) = Len(q) - 1
      /\ \A i \in 1 .. Len(Tail(q)) : Tail(q)[i] = q[i + 1]
  BY HeadTailProperties
<1>2. /\ Len(q) \in Nat /\ Len(q) > 0 /\ DOMAIN q = 1 .. Len(q)
      /\ DOMAIN Tail(q) = 1 .. (Len(q) - 1) /\ Head(q) = q[1]
  BY <1>1, LenProperties, EmptySeq
<1>3. \A i \in 1 .. Len(q) : i = 1 \/ (i - 1 \in 1 .. (Len(q) - 1) /\ q[i] = Tail(q)[i - 1])
  <2> TAKE i \in 1 .. Len(q)
  <2>1. CASE i # 1
    <3>1. i - 1 \in 1 .. (Len(q) - 1) /\ (i - 1) + 1 = i
      BY <1>2, <2>1
    <3> QED BY <1>1, <1>2, <3>1
  <2> QED BY <2>1
<1>4. \A i \in 1 .. (Len(q) - 1) : i + 1 \in 1 .. Len(q)
  BY <1>2
<1>5. 1 \in 1 .. Len(q)
  BY <1>2
<1>6. Entries(q) \subseteq {Head(q)} \cup Entries(Tail(q))
  BY <1>2, <1>3 DEF Entries
<1>7. {Head(q)} \cup Entries(Tail(q)) \subseteq Entries(q)
  BY <1>1, <1>2, <1>4, <1>5 DEF Entries
<1> QED BY <1>1, <1>6, <1>7

\* Learns with a key each that are for one slot come from different nodes.
LEMMA SendersDiffer ==
    ASSUME NEW D \in SUBSET Learn, \A k, l \in D : keyOf(k) = keyOf(l) => k = l,
           \A k, l \in D : k.Slot = l.Slot, IsQuorum(D)
    PROVE  IsQuorum({l.From : l \in D})
<1> DEFINE F == {l.From : l \in D}
           f == [l \in D |-> l.From]
<1>1. IsFiniteSet(F)
  <2>1. F \in SUBSET Node
    BY DEF Learn
  <2> QED BY <2>1, NodesAreFinite
<1>2. f \in Injection(D, F)
  <2>1. f \in [D -> F]
    OBVIOUS
  <2>2. \A k, l \in D : f[k] = f[l] => k = l
    BY DEF keyOf
  <2> HIDE DEF F, f
  <2> QED BY <2>1, <2>2 DEF Injection, IsInjective
<1>3. Cardinality(D) <= Cardinality(F) /\ IsFiniteSet(D)
  <2> HIDE DEF F, f
  <2> QED BY <1>1, <1>2, FS_Injection
<1>4. Cardinality(D) \in Nat /\ Cardinality(F) \in Nat /\ quorum \in Int
  BY <1>1, <1>3, FS_CardinalityType, NAssumption DEF quorum
<1> QED BY <1>3, <1>4 DEF IsQuorum

\* Storing a learn keeps one per key.
LEMMA StoredLearns ==
    ASSUME NEW S, NEW m, \A k, l \in S : keyOf(k) = keyOf(l) => k = l
    PROVE  /\ store(S, m) \subseteq S \cup {m}
           /\ \A k, l \in store(S, m) : keyOf(k) = keyOf(l) => k = l
BY DEF store

\* Appending the value of a slot up to the next one keeps the order or repeats.
LEMMA AppendedInOrder ==
    ASSUME NEW q \in Seq(DecidedValue), NEW e \in DecidedValue,
           e.SlotID > 0, e.SlotID <= Len(q) + 1,
           (\A i, j \in DOMAIN q : i < j => q[i].SlotID # q[j].SlotID)
              => \A i \in DOMAIN q : q[i].SlotID = i,
           NEW r, r = Append(q, e),
           \A i, j \in DOMAIN r : i < j => r[i].SlotID # r[j].SlotID
    PROVE  \A i \in DOMAIN r : r[i].SlotID = i
<1> DEFINE L == Len(q)
<1>1. /\ L \in Nat /\ DOMAIN q = 1 .. L /\ DOMAIN r = 1 .. (L + 1)
      /\ \A i \in 1 .. L : r[i] = q[i]
      /\ r[L + 1] = e
  BY AppendProperties, LenProperties
<1>2. /\ \A i \in 1 .. L : i \in 1 .. (L + 1) /\ i < L + 1
      /\ L + 1 \in 1 .. (L + 1)
      /\ \A i \in 1 .. (L + 1) : i \in 1 .. L \/ i = L + 1
  BY <1>1
<1>3. e.SlotID \in Int
  BY BoundAssumption DEF DecidedValue, SlotID
<1> HIDE DEF L
<1>4. \A i \in 1 .. L : q[i].SlotID = i
  <2>1. \A i, j \in 1 .. L : i < j => q[i].SlotID # q[j].SlotID
    BY <1>1, <1>2
  <2> QED BY <1>1, <2>1
<1>5. e.SlotID \notin 1 .. L
  <2> SUFFICES ASSUME e.SlotID \in 1 .. L PROVE FALSE
    OBVIOUS
  <2>1. PICK i \in 1 .. L : i = e.SlotID
    OBVIOUS
  <2>2. r[i].SlotID = i /\ r[L + 1].SlotID = i
    BY <1>1, <1>4, <2>1
  <2>3. i \in DOMAIN r /\ L + 1 \in DOMAIN r /\ i < L + 1
    BY <1>1, <1>2
  <2> QED BY <2>2, <2>3
<1>6. e.SlotID = L + 1
  BY <1>1, <1>3, <1>5 DEF L
<1> QED BY <1>1, <1>2, <1>4, <1>6

-----------------------------------------------------------------------------
\* A majority is the learns of one slot and round, from different nodes.
LEMMA MajorityIsOfRound ==
    ASSUME NEW S \in SUBSET Learn, \A k, l \in S : keyOf(k) = keyOf(l) => k = l,
           NEW D \in majorities(S), NEW l \in D
    PROVE  /\ l \in S /\ D = {k \in S : k.Rnd = l.Rnd /\ k.Slot = l.Slot}
           /\ IsQuorum({k.From : k \in D})
<1>1. PICK h \in S : D = {k \in S : k.Rnd = h.Rnd /\ k.Slot = h.Slot}
  BY DEF majorities
<1>2. l \in S /\ D = {k \in S : k.Rnd = l.Rnd /\ k.Slot = l.Slot}
  BY <1>1
<1>3. D \in SUBSET Learn /\ IsQuorum(D)
  BY <1>1 DEF majorities
<1>4. /\ \A j, k \in D : keyOf(j) = keyOf(k) => j = k
      /\ \A j, k \in D : j.Slot = k.Slot
  BY <1>2
<1> QED BY <1>2, <1>3, <1>4, SendersDiffer

\* The value decided with a majority of one value is that value.
LEMMA ValueOfRound ==
    ASSUME CodePoints, NEW S \in SUBSET Learn,
           \A k, l \in S : k.Slot = l.Slot /\ k.Rnd = l.Rnd => k.Val = l.Val,
           NEW l \in S, NEW val \in valuesFor(S, l)
    PROVE  val = l.Val
<1>1. PICK k \in S : /\ runeOf(k.Rnd) = runeOf(l.Rnd) /\ runeOf(k.Slot) = runeOf(l.Slot)
                     /\ val = k.Val
  BY DEF valuesFor
<1>2. /\ k.Rnd \in Round /\ l.Rnd \in Round /\ k.Slot \in SlotID /\ l.Slot \in SlotID
  BY DEF Learn
<1>3. k.Rnd = l.Rnd /\ k.Slot = l.Slot
  BY <1>1, <1>2 DEF CodePoints
<1> QED BY <1>1, <1>3

-----------------------------------------------------------------------------
\* What a learner that decides does with the learns S it holds.
Decides(n, S, D, l, val) ==
    /\ D \in majorities(S) /\ l \in D /\ val \in valuesFor(S, l)
    /\ learns' = [learns EXCEPT ![n] = S \ D]
    /\ chosenValOut' = [chosenValOut EXCEPT ![n] =
           Append(@, [SlotID |-> l.Slot, Value |-> val])]
    /\ decisions' = [decisions EXCEPT ![n] =
           @ \cup {[Slot |-> l.Slot, Rnd |-> l.Rnd, Val |-> val]}]

\* handleLearn by outcome.
LEMMA LearnOutcome ==
    ASSUME NEW n, NEW m, handleLearn(n, m), NEW S, S = store(learns[n], m)
    PROVE  /\ sent' = sent /\ net' = net \ {<<n, m>>}
           /\ \/ /\ learns' = [learns EXCEPT ![n] = S]
                 /\ UNCHANGED <<chosenValOut, decisions>>
              \/ \E D, l, val : Decides(n, S, D, l, val)
<1>1. sent' = sent /\ net' = net \ {<<n, m>>}
  <2>1. Exchange({<<n, m>>}, {}, {})
    BY DEF handleLearn
  <2> QED BY <2>1 DEF Exchange
<1>2. CASE majorities(S) = {}
  BY <1>1, <1>2 DEF handleLearn
<1>3. CASE majorities(S) # {}
  <2>1. PICK D \in majorities(S), l \in S :
            /\ l \in D
            /\ learns' = [learns EXCEPT ![n] = remove_learn(S, D)]
            /\ \E val \in valuesFor(S, l) :
                  /\ chosenValOut' = [chosenValOut EXCEPT ![n] =
                         Append(@, [SlotID |-> l.Slot, Value |-> val])]
                  /\ decisions' = [decisions EXCEPT ![n] =
                         @ \cup {[Slot |-> l.Slot, Rnd |-> l.Rnd, Val |-> val]}]
    BY <1>3 DEF handleLearn
  <2>2. PICK val \in valuesFor(S, l) :
                  /\ chosenValOut' = [chosenValOut EXCEPT ![n] =
                         Append(@, [SlotID |-> l.Slot, Value |-> val])]
                  /\ decisions' = [decisions EXCEPT ![n] =
                         @ \cup {[Slot |-> l.Slot, Rnd |-> l.Rnd, Val |-> val]}]
    BY <2>1
  <2>3. Decides(n, S, D, l, val)
    BY <2>1, <2>2 DEF Decides, remove_learn
  <2> QED BY <1>1, <2>3
<1> QED BY <1>2, <1>3

\* The votes are as before or more.
VotesGrow ==
    /\ \A l : l \in Sent("LEARN") => l \in Sent("LEARN")'
    /\ Sent("LEARN")' \subseteq Learn

\* With more votes, what had a majority has it still.
LEMMA MajoritiesStay ==
    ASSUME VotesGrow, NEW n, NEW d, NEW D, IsQuorum(D),
           D \subseteq {l.From : l \in {k \in Sent("LEARN") :
                            k.Slot = d.Slot /\ k.Rnd = d.Rnd /\ k.Val = d.Val}}
    PROVE  IsQuorum({l.From : l \in {k \in Sent("LEARN") :
                            k.Slot = d.Slot /\ k.Rnd = d.Rnd /\ k.Val = d.Val}})'
<1> DEFINE V == {l.From : l \in {k \in Sent("LEARN") :
                            k.Slot = d.Slot /\ k.Rnd = d.Rnd /\ k.Val = d.Val}}
           W == {l.From : l \in {k \in Sent("LEARN")' :
                            k.Slot = d.Slot /\ k.Rnd = d.Rnd /\ k.Val = d.Val}}
<1>1. W \in SUBSET Node
  BY DEF VotesGrow, Learn
<1>2. D \subseteq W
  BY DEF VotesGrow
<1>3. IsQuorum(W)
  <2> HIDE DEF W, V
  <2> QED BY <1>1, <1>2, QuorumGrows
<1> QED BY <1>3

\* A learner that stores a learn and decides nothing.
LEMMA StoresOnly ==
    ASSUME ServerInv, NEW n \in Node, NEW m \in Sent("LEARN"),
           NEW S, S = store(learns[n], m),
           sent' = sent, learns' = [learns EXCEPT ![n] = S],
           UNCHANGED <<chosenValOut, decisions>>, UNCHANGED serverVars
    PROVE  ServerInv'
<1>1. /\ ServerTypes /\ \A x \in Node : Learning(x) /\ Serving(x)
      /\ Sent("LEARN")' = Sent("LEARN")
  BY DEF ServerInv, Sent
<1>2. learns[n] \in SUBSET Sent("LEARN") /\ \A k, l \in learns[n] : keyOf(k) = keyOf(l) => k = l
  BY <1>1 DEF ServerTypes, Learning
<1>3. S \in SUBSET Sent("LEARN") /\ \A k, l \in S : keyOf(k) = keyOf(l) => k = l
  BY <1>2, StoredLearns
<1>4. /\ learns' \in [Node -> SUBSET Sent("LEARN")]
      /\ \A x \in Node : learns'[x] = IF x = n THEN S ELSE learns[x]
  BY <1>1, <1>3 DEF ServerTypes
<1>5. ServerTypes'
  BY <1>1, <1>4 DEF ServerTypes, serverVars
<1>6. ASSUME NEW x \in Node PROVE Learning(x)'
  BY <1>1, <1>3, <1>4 DEF Learning
<1>7. \A x \in Node : Serving(x)'
  BY <1>1 DEF Serving, Keeps, serverVars
<1>8. SlotsArePositive' => \A x \in Node : InOrder(x)'
  BY <1>1 DEF ServerInv, SlotsArePositive, InOrder, Repeats, serverVars
<1>9. CodePoints /\ OneVotePerRound' => DecisionsHaveMajority'
  BY <1>1 DEF ServerInv, OneVotePerRound, DecisionsHaveMajority
<1> QED BY <1>5, <1>6, <1>7, <1>8, <1>9 DEF ServerInv

\* A learner that decides.
LEMMA DecidesKeeps ==
    ASSUME ServerInv, NEW n \in Node, NEW m \in Sent("LEARN"),
           NEW S, S = store(learns[n], m),
           NEW D, NEW l, NEW val, Decides(n, S, D, l, val),
           sent' = sent, UNCHANGED serverVars
    PROVE  ServerInv'
<1>1. /\ ServerTypes /\ \A x \in Node : Learning(x) /\ Serving(x)
      /\ Sent("LEARN")' = Sent("LEARN") /\ Sent("LEARN") \subseteq Learn
  BY DEF ServerInv, Sent, ServerTypes
<1>2. learns[n] \in SUBSET Sent("LEARN") /\ \A j, k \in learns[n] : keyOf(j) = keyOf(k) => j = k
  BY <1>1 DEF ServerTypes, Learning
<1>3. /\ S \in SUBSET Sent("LEARN") /\ S \in SUBSET Learn
      /\ \A j, k \in S : keyOf(j) = keyOf(k) => j = k
  BY <1>1, <1>2, StoredLearns
<1>4. D \in majorities(S) /\ l \in D /\ val \in valuesFor(S, l)
  BY DEF Decides
<1>5. /\ l \in S /\ D = {k \in S : k.Rnd = l.Rnd /\ k.Slot = l.Slot}
      /\ IsQuorum({k.From : k \in D})
  BY <1>3, <1>4, MajorityIsOfRound
<1>6. PICK h \in S : h.Val = val
  BY <1>4 DEF valuesFor
<1>7. PICK d : d = [Slot |-> l.Slot, Rnd |-> l.Rnd, Val |-> val]
  OBVIOUS
<1>8. PICK e : e = [SlotID |-> l.Slot, Value |-> val]
  OBVIOUS
<1>9. /\ learns' = [learns EXCEPT ![n] = S \ D]
      /\ chosenValOut' = [chosenValOut EXCEPT ![n] = Append(@, e)]
      /\ decisions' = [decisions EXCEPT ![n] = @ \cup {d}]
  BY <1>7, <1>8 DEF Decides
<1>10. /\ d.Slot = l.Slot /\ d.Rnd = l.Rnd /\ d.Val = val
       /\ e = ValueOf(d) /\ e \in DecidedValue
  BY <1>3, <1>5, <1>6, <1>7, <1>8 DEF ValueOf, DecidedValue, Learn
<1> HIDE DEF Decides
<1>11. /\ chosenValOut[n] \in Seq(DecidedValue)
       /\ Append(chosenValOut[n], e) \in Seq(DecidedValue)
       /\ Entries(Append(chosenValOut[n], e)) = Entries(chosenValOut[n]) \cup {e}
  BY <1>1, <1>10, AppendedEntries DEF ServerTypes
<1>12. /\ learns' \in [Node -> SUBSET Sent("LEARN")]
       /\ \A x \in Node : learns'[x] = IF x = n THEN S \ D ELSE learns[x]
  BY <1>1, <1>3, <1>9 DEF ServerTypes
<1>13. /\ chosenValOut' \in [Node -> Seq(DecidedValue)]
       /\ chosenValOut'[n] = Append(chosenValOut[n], e)
       /\ \A x \in Node : x # n => chosenValOut'[x] = chosenValOut[x]
  BY <1>1, <1>9, <1>11 DEF ServerTypes
<1>14. d \in Decision
  BY <1>3, <1>5, <1>6, <1>7 DEF Decision, Learn
<1>15. /\ decisions' \in [Node -> SUBSET Decision]
       /\ decisions'[n] = decisions[n] \cup {d}
       /\ \A x \in Node : x # n => decisions'[x] = decisions[x]
  BY <1>1, <1>9, <1>14 DEF ServerTypes
<1>16. ServerTypes'
  BY <1>1, <1>12, <1>13, <1>15 DEF ServerTypes, serverVars
<1>17. ASSUME NEW x \in Node PROVE Learning(x)'
  <2>1. \A j, k \in learns'[x] : keyOf(j) = keyOf(k) => j = k
    BY <1>1, <1>3, <1>12 DEF Learning
  <2>2. ASSUME NEW c \in decisions'[x]
        PROVE  \E j, k \in Sent("LEARN") : j.Slot = c.Slot /\ j.Rnd = c.Rnd /\ k.Val = c.Val
    <3>1. CASE c \in decisions[x]
      BY <1>1, <3>1 DEF Learning
    <3>2. CASE c = d
      BY <1>3, <1>5, <1>6, <1>10, <3>2
    <3> QED BY <1>15, <2>2, <3>1, <3>2
  <2> QED BY <1>1, <2>1, <2>2 DEF Learning
<1>18. ASSUME NEW x \in Node PROVE Serving(x)'
  <2>1. Serving(x)
    BY <1>1
  <2>2. CASE x = n
    <3>1. {ValueOf(c) : c \in decisions'[n]} = {ValueOf(c) : c \in decisions[n]} \cup {e}
      BY <1>10, <1>15
    <3>2. Keeps(n)' = Keeps(n) \cup {e}
      <4>1. Keeps(n)' = Entries(chosenValOut'[n]) \cup Entries(dcdValInList'[n])
                            \cup Entries(applied'[n])
        BY DEF Keeps, Entries
      <4>2. dcdValInList'[n] = dcdValInList[n] /\ applied'[n] = applied[n]
        BY DEF serverVars
      <4> QED BY <1>11, <1>13, <4>1, <4>2 DEF Keeps
    <3> QED BY <2>1, <2>2, <3>1, <3>2 DEF Serving, serverVars
  <2>3. CASE x # n
    BY <1>13, <1>15, <2>1, <2>3 DEF Serving, Keeps, serverVars
  <2> QED BY <2>2, <2>3
<1>19. SlotsArePositive' => \A x \in Node : InOrder(x)'
  BY <1>1 DEF ServerInv, SlotsArePositive, InOrder, Repeats, serverVars
<1>20. ASSUME CodePoints, OneVotePerRound'
       PROVE  DecisionsHaveMajority'
  <2>1. OneVotePerRound /\ DecisionsHaveMajority
    BY <1>1, <1>20 DEF ServerInv, OneVotePerRound
  <2>2. val = l.Val
    BY <1>3, <1>4, <1>5, <1>20, <2>1, ValueOfRound DEF OneVotePerRound
  <2>3. VotesGrow
    BY <1>1 DEF VotesGrow
  <2>4. ASSUME NEW x \in Node, NEW c \in decisions'[x]
        PROVE  IsQuorum({k.From : k \in {j \in Sent("LEARN") :
                            j.Slot = c.Slot /\ j.Rnd = c.Rnd /\ j.Val = c.Val}})
    <3>1. CASE c \in decisions[x]
      BY <2>1, <3>1 DEF DecisionsHaveMajority
    <3>2. CASE c = d
      <4> DEFINE V == {k.From : k \in {j \in Sent("LEARN") :
                            j.Slot = c.Slot /\ j.Rnd = c.Rnd /\ j.Val = c.Val}}
      <4>1. V \in SUBSET Node
        BY <1>1 DEF Learn
      <4>2. \A k \in D : /\ k \in Sent("LEARN")
                         /\ k.Slot = c.Slot /\ k.Rnd = c.Rnd /\ k.Val = c.Val
        BY <1>3, <1>5, <1>10, <2>1, <2>2, <3>2 DEF OneVotePerRound
      <4>3. {k.From : k \in D} \subseteq V
        BY <4>2
      <4>4. IsQuorum(V)
        <5> HIDE DEF V
        <5> QED BY <1>5, <4>1, <4>3, QuorumGrows
      <4> QED BY <4>4
    <3> QED BY <1>15, <2>4, <3>1, <3>2
  <2> QED BY <1>1, <2>4 DEF DecisionsHaveMajority
<1> QED BY <1>16, <1>17, <1>18, <1>19, <1>20 DEF ServerInv

\* Whatever a learner does with a learn that was sent.
LEMMA LearnKeeps ==
    ASSUME ServerInv, NEW n \in Node, NEW m \in Sent("LEARN"),
           handleLearn(n, m), UNCHANGED serverVars
    PROVE  ServerInv'
<1>1. PICK S : S = store(learns[n], m)
  OBVIOUS
<1>2. /\ sent' = sent
      /\ \/ learns' = [learns EXCEPT ![n] = S] /\ UNCHANGED <<chosenValOut, decisions>>
         \/ \E D, l, val : Decides(n, S, D, l, val)
  BY <1>1, LearnOutcome
<1> QED BY <1>1, <1>2, StoresOnly, DecidesKeeps

-----------------------------------------------------------------------------
\* With more votes and all else as it was.
LEMMA VotesKeep ==
    ASSUME ServerInv, VotesGrow, UNCHANGED <<learns, decisions>>
    PROVE  /\ learns' \in [Node -> SUBSET Sent("LEARN")'] /\ Sent("LEARN")' \subseteq Learn
           /\ \A n \in Node : Learning(n)'
           /\ CodePoints /\ OneVotePerRound' => DecisionsHaveMajority'
<1>1. ServerTypes /\ \A n \in Node : Learning(n)
  BY DEF ServerInv
<1>2. learns' \in [Node -> SUBSET Sent("LEARN")'] /\ Sent("LEARN")' \subseteq Learn
  BY <1>1 DEF ServerTypes, VotesGrow
<1>3. \A n \in Node : Learning(n)'
  BY <1>1 DEF Learning, VotesGrow
<1>4. ASSUME CodePoints, OneVotePerRound'
      PROVE  DecisionsHaveMajority'
  <2>1. DecisionsHaveMajority
    BY <1>4 DEF ServerInv, OneVotePerRound, VotesGrow
  <2>2. ASSUME NEW n \in Node, NEW d \in decisions[n]
        PROVE  IsQuorum({l.From : l \in {k \in Sent("LEARN") :
                      k.Slot = d.Slot /\ k.Rnd = d.Rnd /\ k.Val = d.Val}})'
    <3> DEFINE D == {l.From : l \in {k \in Sent("LEARN") :
                      k.Slot = d.Slot /\ k.Rnd = d.Rnd /\ k.Val = d.Val}}
    <3>1. IsQuorum(D)
      BY <2>1 DEF DecisionsHaveMajority
    <3> QED BY <3>1, MajoritiesStay
  <2> QED BY <2>2 DEF DecisionsHaveMajority
<1> QED BY <1>2, <1>3, <1>4

LEMMA QuietKeeps ==
    ASSUME ServerInv, VotesGrow, UNCHANGED <<learnerVars, serverVars>>
    PROVE  ServerInv'
<1>1. UNCHANGED <<learns, chosenValOut, decisions, srvAdu, dcdValInList, srvPc, applied>>
  BY DEF learnerVars, serverVars
<1>2. /\ ServerTypes /\ \A n \in Node : Serving(n)
      /\ SlotsArePositive => \A n \in Node : InOrder(n)
  BY DEF ServerInv
<1>3. /\ learns' \in [Node -> SUBSET Sent("LEARN")'] /\ Sent("LEARN")' \subseteq Learn
      /\ \A n \in Node : Learning(n)'
      /\ CodePoints /\ OneVotePerRound' => DecisionsHaveMajority'
  BY <1>1, VotesKeep
<1>4. ServerTypes'
  BY <1>1, <1>2, <1>3 DEF ServerTypes
<1>5. \A n \in Node : Serving(n)'
  BY <1>1, <1>2 DEF Serving, Keeps
<1>6. SlotsArePositive' => \A n \in Node : InOrder(n)'
  BY <1>1, <1>2 DEF SlotsArePositive, VotesGrow, InOrder, Repeats
<1> QED BY <1>3, <1>4, <1>5, <1>6 DEF ServerInv

\* The outcome of srvHandleDecidedValue, with cho left in the channel.
Puts(n, d, pending) ==
    /\ d.SlotID > srvAdu[n] + 1
    /\ dcdValInList' = [dcdValInList EXCEPT ![n] = Append(pending, d)]
    /\ srvPc' = [srvPc EXCEPT ![n] = "loop"]
    /\ UNCHANGED <<srvAdu, applied>>

Applies(n, d, pending) ==
    /\ d.SlotID <= srvAdu[n] + 1
    /\ dcdValInList' = [dcdValInList EXCEPT ![n] = pending]
    /\ applied' = [applied EXCEPT ![n] = Append(@, d)]
    /\ srvAdu' = [srvAdu EXCEPT ![n] = @ + 1]
    /\ srvPc' = [srvPc EXCEPT ![n] = "inc"]

LEMMA ServerKeeps ==
    ASSUME ServerInv, VotesGrow, NEW n \in Node,
           NEW cho \in Seq(DecidedValue), NEW pend \in Seq(DecidedValue),
           NEW d \in DecidedValue,
           Entries(chosenValOut[n]) \cup Entries(dcdValInList[n])
                = Entries(cho) \cup Entries(pend) \cup {d},
           chosenValOut' = [chosenValOut EXCEPT ![n] = cho],
           UNCHANGED <<learns, decisions>>,
           Puts(n, d, pend) \/ Applies(n, d, pend)
    PROVE  ServerInv'
<1>1. /\ ServerTypes /\ \A x \in Node : Learning(x) /\ Serving(x)
      /\ SlotsArePositive => \A x \in Node : InOrder(x)
  BY DEF ServerInv
<1>2. /\ learns' \in [Node -> SUBSET Sent("LEARN")'] /\ Sent("LEARN")' \subseteq Learn
      /\ \A x \in Node : Learning(x)'
      /\ CodePoints /\ OneVotePerRound' => DecisionsHaveMajority'
  BY VotesKeep
<1>3. /\ chosenValOut' \in [Node -> Seq(DecidedValue)] /\ chosenValOut'[n] = cho
      /\ \A x \in Node : x # n => chosenValOut'[x] = chosenValOut[x]
  BY <1>1 DEF ServerTypes
<1>4. /\ Append(pend, d) \in Seq(DecidedValue)
      /\ Entries(Append(pend, d)) = Entries(pend) \cup {d}
      /\ applied[n] \in Seq(DecidedValue)
      /\ Append(applied[n], d) \in Seq(DecidedValue)
      /\ Entries(Append(applied[n], d)) = Entries(applied[n]) \cup {d}
      /\ Len(Append(applied[n], d)) = Len(applied[n]) + 1
  BY <1>1, AppendedEntries, AppendProperties DEF ServerTypes
<1>5. \A x \in Node : Keeps(x)' = Entries(chosenValOut'[x]) \cup Entries(dcdValInList'[x])
                                      \cup Entries(applied'[x])
  BY DEF Keeps, Entries
<1>6. ASSUME NEW x \in Node, x # n,
             dcdValInList'[x] = dcdValInList[x], applied'[x] = applied[x], srvAdu'[x] = srvAdu[x]
      PROVE  Serving(x)' /\ (InOrder(x) => InOrder(x)')
  <2>1. Keeps(x)' = Keeps(x)
    BY <1>3, <1>5, <1>6 DEF Keeps
  <2>2. Serving(x)
    BY <1>1
  <2> QED BY <1>6, <2>1, <2>2 DEF Serving, InOrder, Repeats
<1>7. CASE Puts(n, d, pend)
  <2>1. /\ dcdValInList' \in [Node -> Seq(DecidedValue)] /\ dcdValInList'[n] = Append(pend, d)
        /\ \A x \in Node : x # n => dcdValInList'[x] = dcdValInList[x]
        /\ srvPc' \in [Node -> {"loop", "inc"}]
        /\ srvAdu' = srvAdu /\ applied' = applied
    BY <1>1, <1>4, <1>7 DEF ServerTypes, Puts
  <2>2. ServerTypes'
    BY <1>1, <1>2, <1>3, <2>1 DEF ServerTypes
  <2>3. Keeps(n)' = Keeps(n)
    BY <1>3, <1>4, <1>5, <2>1 DEF Keeps
  <2>4. Serving(n)' /\ (InOrder(n) => InOrder(n)')
    BY <1>1, <2>1, <2>3 DEF Serving, InOrder, Repeats
  <2>5. \A x \in Node : Serving(x)' /\ (InOrder(x) => InOrder(x)')
    BY <1>6, <2>1, <2>4
  <2>6. SlotsArePositive' => \A x \in Node : InOrder(x)'
    BY <1>1, <2>5 DEF SlotsArePositive, VotesGrow
  <2> QED BY <1>2, <2>2, <2>5, <2>6 DEF ServerInv
<1>8. CASE Applies(n, d, pend)
  <2>1. /\ dcdValInList' \in [Node -> Seq(DecidedValue)] /\ dcdValInList'[n] = pend
        /\ \A x \in Node : x # n => dcdValInList'[x] = dcdValInList[x]
    BY <1>1, <1>8 DEF ServerTypes, Applies
  <2>2. /\ applied' \in [Node -> Seq(DecidedValue)] /\ applied'[n] = Append(applied[n], d)
        /\ \A x \in Node : x # n => applied'[x] = applied[x]
    BY <1>1, <1>4, <1>8 DEF ServerTypes, Applies
  <2>3. /\ srvAdu' \in [Node -> Nat] /\ srvAdu'[n] = srvAdu[n] + 1
        /\ \A x \in Node : x # n => srvAdu'[x] = srvAdu[x]
        /\ srvPc' \in [Node -> {"loop", "inc"}]
    BY <1>1, <1>8 DEF ServerTypes, Applies
  <2>4. ServerTypes'
    BY <1>1, <1>2, <1>3, <2>1, <2>2, <2>3 DEF ServerTypes
  <2>5. Keeps(n)' = Keeps(n)
    BY <1>3, <1>4, <1>5, <2>1, <2>2 DEF Keeps
  <2>6. Serving(n)'
    BY <1>1, <1>4, <2>2, <2>3, <2>5 DEF Serving
  <2>7. ASSUME InOrder(n), SlotsArePositive PROVE InOrder(n)'
    <3>1. d \in Keeps(n)
      BY DEF Keeps
    <3>2. PICK c \in decisions[n] : d = ValueOf(c)
      BY <1>1, <3>1 DEF Serving
    <3>3. d.SlotID > 0
      BY <1>1, <2>7, <3>2 DEF Learning, ValueOf, SlotsArePositive
    <3>4. d.SlotID <= Len(applied[n]) + 1
      BY <1>1, <1>8 DEF Applies, Serving
    <3>5. PICK q \in Seq(DecidedValue) : q = applied[n]
      BY <1>4
    <3>6. PICK r : r = applied'[n]
      OBVIOUS
    <3>7. (\A i, j \in DOMAIN q : i < j => q[i].SlotID # q[j].SlotID)
              => \A i \in DOMAIN q : q[i].SlotID = i
      BY <2>7, <3>5 DEF InOrder, Repeats
    <3>8. r = Append(q, d) /\ d.SlotID <= Len(q) + 1
      BY <2>2, <3>4, <3>5, <3>6
    <3>9. (\A i, j \in DOMAIN r : i < j => r[i].SlotID # r[j].SlotID)
              => \A i \in DOMAIN r : r[i].SlotID = i
      BY <3>3, <3>7, <3>8, AppendedInOrder
    <3> QED BY <3>6, <3>9 DEF InOrder, Repeats
  <2>8. \A x \in Node : x # n => Serving(x)' /\ (InOrder(x) => InOrder(x)')
    BY <1>6, <2>1, <2>2, <2>3
  <2>9. SlotsArePositive' => \A x \in Node : InOrder(x)'
    <3>1. SlotsArePositive' => SlotsArePositive
      BY DEF SlotsArePositive, VotesGrow
    <3> QED BY <1>1, <2>7, <2>8, <3>1
  <2> QED BY <1>2, <2>4, <2>6, <2>8, <2>9 DEF ServerInv
<1> QED BY <1>7, <1>8

LEMMA TakeKeeps ==
    ASSUME ServerInv, VotesGrow, NEW n \in Node, TakeDecidedValue(n)
    PROVE  ServerInv'
<1>1. chosenValOut[n] \in Seq(DecidedValue) /\ dcdValInList[n] \in Seq(DecidedValue)
  BY DEF ServerInv, ServerTypes
<1>2. PICK d, cho : d = Head(chosenValOut[n]) /\ cho = Tail(chosenValOut[n])
  OBVIOUS
<1>3. PICK pend : pend = dcdValInList[n]
  OBVIOUS
<1>4. /\ chosenValOut[n] # << >> /\ chosenValOut' = [chosenValOut EXCEPT ![n] = cho]
      /\ UNCHANGED <<learns, decisions>>
      /\ Puts(n, d, pend) \/ Applies(n, d, pend)
  BY <1>2, <1>3 DEF TakeDecidedValue, srvHandleDecidedValue, Puts, Applies
<1>5. /\ d \in DecidedValue /\ cho \in Seq(DecidedValue) /\ pend \in Seq(DecidedValue)
      /\ Entries(chosenValOut[n]) = {d} \cup Entries(cho)
  BY <1>1, <1>2, <1>3, <1>4, HeadAndTailEntries
<1> QED BY <1>3, <1>4, <1>5, ServerKeeps

LEMMA AfterIncrementKeeps ==
    ASSUME ServerInv, VotesGrow, NEW n \in Node, AfterIncrement(n)
    PROVE  ServerInv'
<1>1. /\ chosenValOut \in [Node -> Seq(DecidedValue)] /\ dcdValInList[n] \in Seq(DecidedValue)
      /\ ServerTypes
  BY DEF ServerInv, ServerTypes
<1>2. UNCHANGED <<learns, chosenValOut, decisions>>
  BY DEF AfterIncrement, learnerVars
<1>3. CASE dcdValInList[n] # << >>
  <2>1. PICK d, pend : d = Head(dcdValInList[n]) /\ pend = Tail(dcdValInList[n])
    OBVIOUS
  <2>2. PICK cho : cho = chosenValOut[n]
    OBVIOUS
  <2>3. chosenValOut' = [chosenValOut EXCEPT ![n] = cho]
    BY <1>1, <1>2, <2>2
  <2>4. Puts(n, d, pend) \/ Applies(n, d, pend)
    BY <1>3, <2>1 DEF AfterIncrement, srvHandleDecidedValue, Puts, Applies
  <2>5. /\ d \in DecidedValue /\ cho \in Seq(DecidedValue) /\ pend \in Seq(DecidedValue)
        /\ Entries(dcdValInList[n]) = {d} \cup Entries(pend)
    BY <1>1, <1>3, <2>1, <2>2, HeadAndTailEntries
  <2> QED BY <1>2, <2>2, <2>3, <2>4, <2>5, ServerKeeps
<1>4. CASE dcdValInList[n] = << >>
  <2>1. srvPc' = [srvPc EXCEPT ![n] = "loop"] /\ UNCHANGED <<srvAdu, dcdValInList, applied>>
    BY <1>4 DEF AfterIncrement
  <2>2. srvPc' \in [Node -> {"loop", "inc"}]
    BY <1>1, <2>1 DEF ServerTypes
  <2>3. /\ learns' \in [Node -> SUBSET Sent("LEARN")'] /\ Sent("LEARN")' \subseteq Learn
        /\ \A x \in Node : Learning(x)'
        /\ CodePoints /\ OneVotePerRound' => DecisionsHaveMajority'
    BY <1>2, VotesKeep
  <2>4. ServerTypes'
    BY <1>1, <1>2, <2>1, <2>2, <2>3 DEF ServerTypes
  <2>5. \A x \in Node : Serving(x)'
    BY <1>2, <2>1 DEF ServerInv, Serving, Keeps
  <2>6. SlotsArePositive' => \A x \in Node : InOrder(x)'
    BY <2>1 DEF ServerInv, SlotsArePositive, VotesGrow, InOrder, Repeats
  <2> QED BY <2>3, <2>4, <2>5, <2>6 DEF ServerInv
<1> QED BY <1>3, <1>4

LEMMA InitServer ==
    ASSUME LearnerInit, ServerInit, Sent("LEARN") \subseteq Learn
    PROVE  ServerInv
<1>1. /\ learns = [n \in Node |-> {}] /\ chosenValOut = [n \in Node |-> << >>]
      /\ decisions = [n \in Node |-> {}] /\ srvAdu = [n \in Node |-> 0]
      /\ dcdValInList = [n \in Node |-> << >>] /\ srvPc = [n \in Node |-> "loop"]
      /\ applied = [n \in Node |-> << >>]
  BY DEF LearnerInit, ServerInit
<1>2. << >> \in Seq(DecidedValue) /\ Len(<< >>) = 0 /\ DOMAIN << >> = {}
  OBVIOUS
<1>3. ServerTypes
  BY <1>1, <1>2 DEF ServerTypes
<1>4. \A n \in Node : Keeps(n) = {}
  BY <1>1, <1>2 DEF Keeps, Entries
<1>5. \A n \in Node : Learning(n) /\ Serving(n) /\ InOrder(n)
  BY <1>1, <1>2, <1>4 DEF Learning, Serving, InOrder
<1>6. DecisionsHaveMajority
  BY <1>1 DEF DecisionsHaveMajority
<1> QED BY <1>3, <1>5, <1>6 DEF ServerInv
=============================================================================
