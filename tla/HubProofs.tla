------------------------------- MODULE HubProofs -------------------------------
(***************************************************************************)
(* The web chat: types, the order of the frames on the wire, what every    *)
(* browser is told and what is heard of it, for any number of browsers,    *)
(* messages, channel places and buffer sizes.                              *)
(***************************************************************************)
EXTENDS Hub, InductionProofs

-----------------------------------------------------------------------------
\* Sequences of sequences, put together.

\* What is put together: a set of sequences, closed under concatenation.
Strings(Q) ==
    /\ <<>> \in Q
    /\ \A u, v \in Q : u \o v \in Q
    /\ \A u \in Q : <<>> \o u = u /\ u \o <<>> = u
    /\ \A u, v, w \in Q : (u \o v) \o w = u \o (v \o w)

LEMMA SequencesAreStrings ==
    ASSUME NEW S
    PROVE  Strings(Seq(S))
<1>1. <<>> \in Seq(S)
  BY EmptySeq
<1>2. \A u, v \in Seq(S) : u \o v \in Seq(S)
  BY ConcatProperties
<1>3. \A u \in Seq(S) : <<>> \o u = u /\ u \o <<>> = u
  BY ConcatEmptySeq
<1>4. \A u, v, w \in Seq(S) : (u \o v) \o w = u \o (v \o w)
  BY ConcatAssociative
<1> QED BY <1>1, <1>2, <1>3, <1>4 DEF Strings

\* The steps of FlattenSeq, from the empty sequence on.
FlatIterates(t, s) ==
    t[0] = <<>> /\ \A i \in 1 .. Len(s) : t[i] = t[i - 1] \o s[i]

LEMMA FlatExistsIn ==
    ASSUME NEW Q, Strings(Q), NEW s \in Seq(Q)
    PROVE  \E t \in [0 .. Len(s) -> Q] : FlatIterates(t, s)
<1> DEFINE step == [i \in 1 .. Len(s) |-> [u \in Q |-> u \o s[i]]]
<1>1. Len(s) \in Nat /\ <<>> \in Q
  BY DEF Strings
<1>2. \A i \in 1 .. Len(s) : s[i] \in Q
  OBVIOUS
<1>3. \A i \in 1 .. Len(s), u \in Q : step[i][u] = u \o s[i] /\ u \o s[i] \in Q
  BY <1>2 DEF Strings
<1>4. step \in [1 .. Len(s) -> [Q -> Q]]
  BY <1>3
<1> HIDE DEF step
<1>5. PICK t : Iterates(t, Len(s), <<>>, step)
  BY <1>1, <1>4, IterationExists
<1>6. t \in [0 .. Len(s) -> Q]
  BY <1>1, <1>4, <1>5, IterationStays
<1>7. ASSUME NEW i \in 1 .. Len(s)
      PROVE  t[i] = t[i - 1] \o s[i]
  <2>1. t[i] = step[i][t[i - 1]]
    BY <1>5 DEF Iterates
  <2>2. t[i - 1] \in Q
    BY <1>1, <1>6
  <2> QED BY <1>3, <2>1, <2>2
<1>8. t[0] = <<>>
  BY <1>1, <1>5 DEF Iterates
<1>9. FlatIterates(t, s)
  BY <1>7, <1>8 DEF FlatIterates
<1> QED BY <1>6, <1>9

LEMMA FlatIsIn ==
    ASSUME NEW Q, Strings(Q), NEW s \in Seq(Q),
           NEW t \in [0 .. Len(s) -> Q], FlatIterates(t, s)
    PROVE  FlattenSeq(s) = t[Len(s)]
<1>1. Len(s) \in Nat
  OBVIOUS
<1>2. t[0] = <<>> /\ \A i \in 1 .. Len(s) : t[i] = t[i - 1] \o s[i]
  BY <1>1 DEF FlatIterates
<1>3. CASE Len(s) = 0
  <2>1. s = <<>>
    BY <1>3
  <2> QED BY <1>2, <1>3, <2>1 DEF FlattenSeq
<1>4. CASE Len(s) # 0
  <2> DEFINE Flat(g) == g = [i \in 1 .. Len(s) |-> IF i = 1 THEN s[i] ELSE g[i - 1] \o s[i]]
             f == CHOOSE g : Flat(g)
             h == [i \in 1 .. Len(s) |-> t[i]]
  <2>1. FlattenSeq(s) = f[Len(s)]
    BY <1>4 DEF FlattenSeq
  <2>2. \A i \in 1 .. Len(s) : s[i] \in Q
    OBVIOUS
  <2>3. t[1] = s[1]
    <3>1. 1 \in 1 .. Len(s) /\ 1 - 1 = 0
      BY <1>1, <1>4
    <3>2. t[1] = <<>> \o s[1]
      BY <1>2, <3>1
    <3> QED BY <2>2, <3>1, <3>2 DEF Strings
  <2>4. \A i \in 1 .. Len(s) : i # 1 => i - 1 \in 1 .. Len(s)
    BY <1>1
  <2>5. \A i \in 1 .. Len(s) : h[i] = IF i = 1 THEN s[i] ELSE h[i - 1] \o s[i]
    BY <1>2, <2>3, <2>4
  <2>6. Flat(h)
    BY <2>5
  <2>7. Flat(f)
    <3> HIDE DEF h
    <3> QED BY <2>6
  <2>8. \A i \in 1 .. Len(s) : f[i] = t[i]
    <3> HIDE DEF f, h
    <3> DEFINE Bad == {i \in 1 .. Len(s) : f[i] # t[i]}
    <3>1. SUFFICES ASSUME Bad # {} PROVE FALSE
      OBVIOUS
    <3>2. PICK m \in Bad : \A k \in Bad : m <= k
      <4>1. Bad \in SUBSET Nat
        BY <1>1
      <4> HIDE DEF Bad
      <4> QED BY <3>1, <4>1, LeastOne
    <3>3. m # 1
      BY <2>3, <2>7, <3>2
    <3>4. m \in 1 .. Len(s) /\ m - 1 \in 1 .. Len(s) /\ m - 1 \notin Bad
      BY <1>1, <2>4, <3>2, <3>3
    <3>5. f[m] = f[m - 1] \o s[m]
      BY <2>7, <3>2, <3>3
    <3> QED BY <1>2, <3>2, <3>4, <3>5
  <2> QED BY <1>1, <1>4, <2>1, <2>8
<1> QED BY <1>3, <1>4

LEMMA FlatTypeIn ==
    ASSUME NEW Q, Strings(Q), NEW s \in Seq(Q)
    PROVE  FlattenSeq(s) \in Q
<1>1. PICK t \in [0 .. Len(s) -> Q] : FlatIterates(t, s)
  BY FlatExistsIn
<1>2. Len(s) \in 0 .. Len(s)
  OBVIOUS
<1> QED BY <1>1, <1>2, FlatIsIn

LEMMA FlatEmpty ==
    FlattenSeq(<<>>) = <<>>
BY DEF FlattenSeq

LEMMA FlatOneIn ==
    ASSUME NEW Q, Strings(Q), NEW e \in Q
    PROVE  FlattenSeq(<<e>>) = e
<1>1. <<e>> \in Seq(Q) /\ Len(<<e>>) = 1 /\ <<e>>[1] = e
  OBVIOUS
<1>2. PICK t \in [0 .. 1 -> Q] : FlatIterates(t, <<e>>)
  BY <1>1, FlatExistsIn
<1>3. FlattenSeq(<<e>>) = t[1]
  BY <1>1, <1>2, FlatIsIn
<1>4. t[1] = <<>> \o e
  <2>1. 1 \in 1 .. 1 /\ 1 - 1 = 0
    OBVIOUS
  <2> QED BY <1>1, <1>2, <2>1 DEF FlatIterates
<1> QED BY <1>3, <1>4 DEF Strings

LEMMA FlatCatIn ==
    ASSUME NEW Q, Strings(Q), NEW s \in Seq(Q), NEW u \in Seq(Q)
    PROVE  FlattenSeq(s \o u) = FlattenSeq(s) \o FlattenSeq(u)
<1> DEFINE n == Len(s)
           m == Len(u)
<1>1. n \in Nat /\ m \in Nat
  OBVIOUS
<1>2. PICK v : v = s \o u
  OBVIOUS
<1>3. v \in Seq(Q) /\ Len(v) = n + m
  BY <1>2, ConcatProperties
<1>4. /\ \A i \in 1 .. n : v[i] = s[i]
      /\ \A i \in 1 .. m : v[n + i] = u[i]
  BY <1>1, <1>2, ConcatProperties
<1>5. PICK a \in [0 .. n -> Q] : FlatIterates(a, s)
  BY FlatExistsIn
<1>6. PICK b \in [0 .. m -> Q] : FlatIterates(b, u)
  BY FlatExistsIn
<1>7. PICK t \in [0 .. n + m -> Q] : FlatIterates(t, v)
  BY <1>3, FlatExistsIn
<1> HIDE DEF n, m
<1>8. a[0] = <<>> /\ \A i \in 1 .. n : a[i] = a[i - 1] \o s[i]
  BY <1>1, <1>5 DEF FlatIterates, n
<1>9. b[0] = <<>> /\ \A i \in 1 .. m : b[i] = b[i - 1] \o u[i]
  BY <1>1, <1>6 DEF FlatIterates, m
<1>10. t[0] = <<>> /\ \A i \in 1 .. n + m : t[i] = t[i - 1] \o v[i]
  BY <1>1, <1>3, <1>7 DEF FlatIterates
<1>11. \A i \in 0 .. n : t[i] = a[i]
  <2> DEFINE Bad == {i \in 0 .. n : t[i] # a[i]}
  <2>1. SUFFICES ASSUME Bad # {} PROVE FALSE
    OBVIOUS
  <2>2. PICK k \in Bad : \A j \in Bad : k <= j
    <3>1. Bad \in SUBSET Nat
      BY <1>1
    <3> HIDE DEF Bad
    <3> QED BY <2>1, <3>1, LeastOne
  <2>3. k # 0
    BY <1>8, <1>10, <2>2
  <2>4. k \in 1 .. n /\ k \in 1 .. n + m /\ k - 1 \in 0 .. n /\ k - 1 \notin Bad
    BY <1>1, <2>2, <2>3
  <2>5. t[k] = a[k]
    BY <1>4, <1>8, <1>10, <2>4
  <2> QED BY <2>2, <2>5
<1>12. \A i \in 0 .. m : t[n + i] = a[n] \o b[i]
  <2> DEFINE Bad == {i \in 0 .. m : t[n + i] # a[n] \o b[i]}
  <2>1. SUFFICES ASSUME Bad # {} PROVE FALSE
    OBVIOUS
  <2>2. PICK k \in Bad : \A j \in Bad : k <= j
    <3>1. Bad \in SUBSET Nat
      BY <1>1
    <3> HIDE DEF Bad
    <3> QED BY <2>1, <3>1, LeastOne
  <2>3. a[n] \in Q
    BY <1>1
  <2>4. k # 0
    <3>1. n \in 0 .. n /\ n + 0 = n
      BY <1>1
    <3>2. t[n + 0] = a[n]
      BY <1>11, <3>1
    <3>3. a[n] \o b[0] = a[n]
      BY <1>9, <2>3 DEF Strings
    <3>4. t[n + 0] = a[n] \o b[0]
      BY <3>2, <3>3
    <3> QED BY <2>2, <3>4
  <2>5. k \in 1 .. m /\ n + k \in 1 .. n + m /\ k - 1 \in 0 .. m /\ k - 1 \notin Bad
    <3>1. k \in 0 .. m
      BY <2>2
    <3>2. k \in 1 .. m /\ n + k \in 1 .. n + m /\ k - 1 \in 0 .. m /\ ~ (k <= k - 1)
      BY <1>1, <2>4, <3>1
    <3> HIDE DEF Bad
    <3> QED BY <2>2, <3>2
  <2>6. t[n + (k - 1)] = a[n] \o b[k - 1]
    BY <2>5
  <2>7. t[n + k] = t[n + (k - 1)] \o u[k]
    <3>1. PICK j \in 1 .. n + m : j = n + k
      BY <2>5
    <3>2. t[j] = t[j - 1] \o v[j]
      BY <1>10, <3>1
    <3>3. v[n + k] = u[k]
      BY <1>4, <2>5
    <3>4. j - 1 = n + (k - 1)
      BY <1>1, <2>5, <3>1
    <3> QED BY <3>1, <3>2, <3>3, <3>4
  <2>8. u[k] \in Q /\ b[k - 1] \in Q
    <3>1. k \in 1 .. Len(u) /\ k - 1 \in 0 .. m
      BY <2>5 DEF m
    <3> QED BY <3>1, ElementOfSeq
  <2>9. t[n + k] = a[n] \o b[k]
    <3>1. b[k] = b[k - 1] \o u[k]
      BY <1>9, <2>5
    <3>2. (a[n] \o b[k - 1]) \o u[k] = a[n] \o (b[k - 1] \o u[k])
      BY <2>3, <2>8 DEF Strings
    <3> QED BY <2>6, <2>7, <3>1, <3>2
  <2> QED BY <2>2, <2>9
<1>13. FlattenSeq(v) = t[n + m] /\ FlattenSeq(s) = a[n] /\ FlattenSeq(u) = b[m]
  BY <1>3, <1>5, <1>6, <1>7, FlatIsIn DEF n, m
<1>14. m \in 0 .. m
  BY <1>1
<1>15. t[n + m] = a[n] \o b[m]
  BY <1>12, <1>14
<1> QED BY <1>2, <1>13, <1>15

LEMMA FlatAppendIn ==
    ASSUME NEW Q, Strings(Q), NEW s \in Seq(Q), NEW e \in Q
    PROVE  FlattenSeq(Append(s, e)) = FlattenSeq(s) \o e
<1>1. <<e>> \in Seq(Q) /\ Append(s, e) = s \o <<e>>
  BY AppendIsConcat
<1>2. FlattenSeq(s \o <<e>>) = FlattenSeq(s) \o FlattenSeq(<<e>>)
  BY <1>1, FlatCatIn
<1>3. FlattenSeq(<<e>>) = e
  BY FlatOneIn
<1> QED BY <1>1, <1>2, <1>3

LEMMA FlatHeadIn ==
    ASSUME NEW Q, Strings(Q), NEW s \in Seq(Q), s # <<>>
    PROVE  FlattenSeq(s) = Head(s) \o FlattenSeq(Tail(s))
<1>1. Head(s) \in Q /\ Tail(s) \in Seq(Q) /\ <<Head(s)>> \in Seq(Q)
  BY HeadTailProperties
<1>2. s = <<Head(s)>> \o Tail(s)
  OBVIOUS
<1>3. FlattenSeq(<<Head(s)>> \o Tail(s)) = FlattenSeq(<<Head(s)>>) \o FlattenSeq(Tail(s))
  BY <1>1, FlatCatIn
<1>4. FlattenSeq(<<Head(s)>>) = Head(s)
  BY <1>1, FlatOneIn
<1> QED BY <1>2, <1>3, <1>4

\* The same for sequences over a set.
LEMMA FlatType ==
    ASSUME NEW S, NEW s \in Seq(Seq(S))
    PROVE  FlattenSeq(s) \in Seq(S)
BY SequencesAreStrings, FlatTypeIn

LEMMA FlatCat ==
    ASSUME NEW S, NEW s \in Seq(Seq(S)), NEW u \in Seq(Seq(S))
    PROVE  FlattenSeq(s \o u) = FlattenSeq(s) \o FlattenSeq(u)
BY SequencesAreStrings, FlatCatIn

LEMMA FlatAppend ==
    ASSUME NEW S, NEW s \in Seq(Seq(S)), NEW e \in Seq(S)
    PROVE  FlattenSeq(Append(s, e)) = FlattenSeq(s) \o e
BY SequencesAreStrings, FlatAppendIn

LEMMA FlatHead ==
    ASSUME NEW S, NEW s \in Seq(Seq(S)), s # <<>>
    PROVE  FlattenSeq(s) = Head(s) \o FlattenSeq(Tail(s))
BY SequencesAreStrings, FlatHeadIn

-----------------------------------------------------------------------------
\* What frames carry, and what of it is of users.

Unit == Client \X (Nat \ {0})
AnyUnit == Unit \cup {BankResult}

FrameOf(U) ==
    [op : {"text", "cont", "close", "ping", "pong", "torn"}, fin : BOOLEAN, data : Seq(U)]

LEMMA BankIsNoUser ==
    BankResult \notin Unit
BY DEF BankResult, Unit

\* One more element.
LEMMA IsAppend ==
    ASSUME NEW Q, NEW a \in Seq(Q), NEW x \in Q, NEW b \in Seq(Q), Len(b) = Len(a) + 1,
           b[Len(a) + 1] = x, \A i \in 1 .. Len(a) : b[i] = a[i]
    PROVE  b = Append(a, x)
<1>1. PICK n \in Nat : n = Len(a)
  OBVIOUS
<1>2. /\ Append(a, x) \in Seq(Q) /\ Len(Append(a, x)) = n + 1
      /\ Append(a, x)[n + 1] = x /\ \A i \in 1 .. n : Append(a, x)[i] = a[i]
  BY <1>1, AppendProperties
<1>3. \A i \in 1 .. n + 1 : b[i] = Append(a, x)[i]
  BY <1>1, <1>2
<1> QED BY <1>1, <1>2, <1>3, SeqEqual

\* The part of a frame that DataOf takes.
Carried(f) == IF f.op \in Data THEN f.data ELSE <<>>

LEMMA CarriedType ==
    ASSUME NEW U, NEW f \in FrameOf(U)
    PROVE  Carried(f) \in Seq(U)
BY EmptySeq DEF Carried, FrameOf

LEMMA CarriedParts ==
    ASSUME NEW U, NEW fs \in Seq(FrameOf(U))
    PROVE  /\ [i \in DOMAIN fs |-> Carried(fs[i])] \in Seq(Seq(U))
           /\ Len([i \in DOMAIN fs |-> Carried(fs[i])]) = Len(fs)
<1>1. PICK Q : Q = Seq(U)
  OBVIOUS
<1>2. PICK n \in Nat : n = Len(fs)
  OBVIOUS
<1>3. \A i \in 1 .. n : Carried(fs[i]) \in Q
  BY <1>1, <1>2, ElementOfSeq, CarriedType
<1>4. DOMAIN fs = 1 .. n
  BY <1>2
<1>5. [i \in DOMAIN fs |-> Carried(fs[i])] \in [1 .. n -> Q]
  BY <1>3, <1>4
<1>6. [i \in DOMAIN fs |-> Carried(fs[i])] \in Seq(Q)
  BY <1>5
<1> QED BY <1>1, <1>2, <1>5, <1>6

LEMMA DataType ==
    ASSUME NEW U, NEW fs \in Seq(FrameOf(U))
    PROVE  DataOf(fs) \in Seq(U)
<1>1. DataOf(fs) = FlattenSeq([i \in DOMAIN fs |-> Carried(fs[i])])
  BY DEF DataOf, Carried
<1> QED BY <1>1, CarriedParts, FlatType

LEMMA DataEmpty ==
    DataOf(<<>>) = <<>>
<1>1. [i \in DOMAIN <<>> |-> IF <<>>[i].op \in Data THEN <<>>[i].data ELSE <<>>] = <<>>
  OBVIOUS
<1> QED BY <1>1, FlatEmpty DEF DataOf

LEMMA DataAppend ==
    ASSUME NEW U, NEW fs \in Seq(FrameOf(U)), NEW f \in FrameOf(U)
    PROVE  DataOf(Append(fs, f)) = DataOf(fs) \o Carried(f)
<1> DEFINE a == [i \in DOMAIN fs |-> Carried(fs[i])]
           b == [i \in DOMAIN Append(fs, f) |-> Carried(Append(fs, f)[i])]
<1>1. a \in Seq(Seq(U)) /\ Len(a) = Len(fs)
  BY CarriedParts
<1>2. Carried(f) \in Seq(U)
  BY CarriedType
<1>3. b \in Seq(Seq(U)) /\ Len(b) = Len(Append(fs, f))
  <2>1. Append(fs, f) \in Seq(FrameOf(U))
    BY AppendProperties
  <2> QED BY <2>1, CarriedParts
<1>4. DataOf(fs) = FlattenSeq(a) /\ DataOf(Append(fs, f)) = FlattenSeq(b)
  BY DEF DataOf, Carried
<1>5. PICK n \in Nat : n = Len(fs)
  OBVIOUS
<1>6. /\ DOMAIN fs = 1 .. n /\ DOMAIN Append(fs, f) = 1 .. n + 1 /\ Len(Append(fs, f)) = n + 1
      /\ Append(fs, f)[n + 1] = f /\ \A i \in 1 .. n : Append(fs, f)[i] = fs[i]
  BY <1>5, AppendProperties
<1>7. b[n + 1] = Carried(f) /\ \A i \in 1 .. n : b[i] = a[i]
  BY <1>6
<1> HIDE DEF a, b
<1>8. b = Append(a, Carried(f))
  <2>1. PICK Q : Q = Seq(U)
    OBVIOUS
  <2>2. /\ a \in Seq(Q) /\ b \in Seq(Q) /\ Carried(f) \in Q /\ Len(a) = n /\ Len(b) = n + 1
    BY <1>1, <1>2, <1>3, <1>5, <1>6, <2>1
  <2> QED BY <1>7, <2>2, IsAppend
<1> QED BY <1>1, <1>2, <1>4, <1>8, FlatAppend

\* The unit as a sequence, unless the bank wrote it.
User(u) == IF u = BankResult THEN <<>> ELSE <<u>>

LEMMA UserType ==
    ASSUME NEW u \in AnyUnit
    PROVE  User(u) \in Seq(Unit)
BY EmptySeq DEF User, AnyUnit

LEMMA UserParts ==
    ASSUME NEW us \in Seq(AnyUnit)
    PROVE  /\ [i \in DOMAIN us |-> User(us[i])] \in Seq(Seq(Unit))
           /\ Len([i \in DOMAIN us |-> User(us[i])]) = Len(us)
<1>1. PICK Q : Q = Seq(Unit)
  OBVIOUS
<1>2. PICK n \in Nat : n = Len(us)
  OBVIOUS
<1>3. \A i \in 1 .. n : User(us[i]) \in Q
  BY <1>1, <1>2, ElementOfSeq, UserType
<1>4. DOMAIN us = 1 .. n
  BY <1>2
<1>5. [i \in DOMAIN us |-> User(us[i])] \in [1 .. n -> Q]
  BY <1>3, <1>4
<1>6. [i \in DOMAIN us |-> User(us[i])] \in Seq(Q)
  BY <1>5
<1> QED BY <1>1, <1>2, <1>5, <1>6

LEMMA UsersType ==
    ASSUME NEW us \in Seq(AnyUnit)
    PROVE  OfUsers(us) \in Seq(Unit)
<1>1. OfUsers(us) = FlattenSeq([i \in DOMAIN us |-> User(us[i])])
  BY DEF OfUsers, User
<1> QED BY <1>1, UserParts, FlatType

LEMMA UsersEmpty ==
    OfUsers(<<>>) = <<>>
<1>1. [i \in DOMAIN <<>> |-> IF <<>>[i] = BankResult THEN <<>> ELSE <<(<<>>[i])>>] = <<>>
  OBVIOUS
<1> QED BY <1>1, FlatEmpty DEF OfUsers

LEMMA UsersOfBank ==
    OfUsers(<<BankResult>>) = <<>>
<1>1. [i \in DOMAIN <<BankResult>> |->
          IF <<BankResult>>[i] = BankResult THEN <<>> ELSE <<(<<BankResult>>[i])>>] = << <<>> >>
  OBVIOUS
<1>2. FlattenSeq(<< <<>> >>) = <<>>
  BY EmptySeq, SequencesAreStrings, FlatOneIn
<1> QED BY <1>1, <1>2 DEF OfUsers

LEMMA UsersCat ==
    ASSUME NEW s \in Seq(AnyUnit), NEW t \in Seq(AnyUnit)
    PROVE  OfUsers(s \o t) = OfUsers(s) \o OfUsers(t)
<1> DEFINE a == [i \in DOMAIN s |-> User(s[i])]
           b == [i \in DOMAIN t |-> User(t[i])]
           d == [i \in DOMAIN (s \o t) |-> User((s \o t)[i])]
<1>1. a \in Seq(Seq(Unit)) /\ Len(a) = Len(s) /\ b \in Seq(Seq(Unit)) /\ Len(b) = Len(t)
  BY UserParts
<1>2. s \o t \in Seq(AnyUnit)
  BY ConcatProperties
<1>3. d \in Seq(Seq(Unit)) /\ Len(d) = Len(s \o t)
  BY <1>2, UserParts
<1>4. OfUsers(s) = FlattenSeq(a) /\ OfUsers(t) = FlattenSeq(b) /\ OfUsers(s \o t) = FlattenSeq(d)
  BY DEF OfUsers, User
<1>5. PICK n \in Nat, m \in Nat : n = Len(s) /\ m = Len(t)
  OBVIOUS
<1>6. Len(s \o t) = n + m /\ \A i \in 1 .. n + m : (s \o t)[i] = IF i <= n THEN s[i] ELSE t[i - n]
  BY <1>5, ConcatProperties
<1>7. \A i \in 1 .. n : a[i] = User(s[i])
  BY <1>5
<1>8. \A i \in 1 .. m : b[i] = User(t[i])
  BY <1>5
<1>9. \A i \in 1 .. n + m : d[i] = User((s \o t)[i])
  BY <1>2, <1>6
<1> HIDE DEF a, b, d
<1>10. PICK Q : Q = Seq(Unit)
  OBVIOUS
<1>11. a \in Seq(Q) /\ b \in Seq(Q) /\ d \in Seq(Q) /\ Len(a) = n /\ Len(b) = m
  BY <1>1, <1>3, <1>5, <1>10
<1>12. /\ a \o b \in Seq(Q) /\ Len(a \o b) = n + m
       /\ \A i \in 1 .. n + m : (a \o b)[i] = IF i <= n THEN a[i] ELSE b[i - n]
  BY <1>11, ConcatProperties
<1>13. \A i \in 1 .. n + m : d[i] = (a \o b)[i]
  <2> TAKE i \in 1 .. n + m
  <2>1. i <= n => i \in 1 .. n
    BY <1>5
  <2>2. ~ i <= n => i - n \in 1 .. m
    BY <1>5
  <2> QED BY <1>6, <1>7, <1>8, <1>9, <1>12, <2>1, <2>2
<1>14. d = a \o b
  <2>1. Len(d) = n + m
    BY <1>3, <1>6
  <2> QED BY <1>11, <1>12, <1>13, <2>1, SeqEqual
<1> QED BY <1>1, <1>4, <1>14, FlatCat

\* Where only users wrote, nothing is left out.
LEMMA UsersOnly ==
    ASSUME NEW s \in Seq(Unit)
    PROVE  OfUsers(s) = s
<1> DEFINE a == [i \in DOMAIN s |-> User(s[i])]
           t == [i \in 0 .. Len(s) |-> SubSeq(s, 1, i)]
<1>1. PICK n \in Nat : n = Len(s)
  OBVIOUS
<1>2. s \in Seq(AnyUnit)
  BY SeqMonotonic DEF AnyUnit
<1>3. a \in Seq(Seq(Unit)) /\ Len(a) = n
  BY <1>1, <1>2, UserParts
<1>4. OfUsers(s) = FlattenSeq(a)
  BY DEF OfUsers, User
<1>5. \A i \in 1 .. n : s[i] \in Unit /\ a[i] = <<s[i]>>
  BY <1>1, BankIsNoUser DEF User
<1>6. \A i \in 0 .. n : SubSeq(s, 1, i) \in Seq(Unit)
  BY <1>1, <1>5, SubSeqProperties
<1>7. t \in [0 .. n -> Seq(Unit)] /\ \A i \in 0 .. n : t[i] = SubSeq(s, 1, i)
  BY <1>1, <1>6
<1> HIDE DEF a, t
<1>8. t[0] = <<>>
  BY <1>7, SubSeqEmpty
<1>9. ASSUME NEW i \in 1 .. n
      PROVE  t[i] = t[i - 1] \o a[i]
  <2>1. i \in 0 .. n /\ i - 1 \in 0 .. n /\ 1 \in 1 .. Len(s) /\ i \in 1 .. Len(s)
    BY <1>1
  <2>2. SubSeq(s, 1, i) = SubSeq(s, 1, i - 1) \o <<s[i]>>
    BY <2>1, SubSeqRecursiveSecond
  <2> QED BY <1>5, <1>7, <2>1, <2>2
<1>10. FlattenSeq(a) = t[n]
  BY <1>3, <1>7, <1>8, <1>9, SequencesAreStrings, FlatIsIn DEF FlatIterates
<1>11. t[n] = s
  BY <1>1, <1>7, SubSeqFull
<1> QED BY <1>4, <1>10, <1>11

-----------------------------------------------------------------------------
\* What the hub took.

\* The messages of browser c, and nothing for those of others.
HeardOf(c, m) == IF m[1][1] = c THEN m ELSE <<>>

LEMMA HeardParts ==
    ASSUME NEW c, NEW log \in Seq(Seq(Unit))
    PROVE  /\ [i \in DOMAIN log |-> HeardOf(c, log[i])] \in Seq(Seq(Unit))
           /\ Len([i \in DOMAIN log |-> HeardOf(c, log[i])]) = Len(log)
<1>1. PICK Q : Q = Seq(Unit)
  OBVIOUS
<1>2. log \in Seq(Q) /\ <<>> \in Q
  BY <1>1, EmptySeq
<1>3. PICK n \in Nat : n = Len(log)
  BY <1>2
<1>4. \A i \in 1 .. n : HeardOf(c, log[i]) \in Q
  BY <1>2, <1>3, ElementOfSeq DEF HeardOf
<1>5. DOMAIN log = 1 .. n
  BY <1>2, <1>3
<1>6. [i \in DOMAIN log |-> HeardOf(c, log[i])] \in [1 .. n -> Q]
  BY <1>4, <1>5
<1>7. [i \in DOMAIN log |-> HeardOf(c, log[i])] \in Seq(Q)
  BY <1>6
<1> QED BY <1>1, <1>3, <1>6, <1>7

LEMMA HeardType ==
    ASSUME NEW c, NEW log \in Seq(Seq(Unit))
    PROVE  Heard(c, log) \in Seq(Unit)
<1>1. Heard(c, log) = FlattenSeq([i \in DOMAIN log |-> HeardOf(c, log[i])])
  BY DEF Heard, HeardOf
<1> QED BY <1>1, HeardParts, FlatType

LEMMA HeardEmpty ==
    ASSUME NEW c
    PROVE  Heard(c, <<>>) = <<>>
<1>1. [i \in DOMAIN <<>> |-> IF <<>>[i][1][1] = c THEN <<>>[i] ELSE <<>>] = <<>>
  OBVIOUS
<1> QED BY <1>1, FlatEmpty DEF Heard

LEMMA HeardAppend ==
    ASSUME NEW c, NEW log \in Seq(Seq(Unit)), NEW m \in Seq(Unit)
    PROVE  Heard(c, Append(log, m)) = Heard(c, log) \o HeardOf(c, m)
<1> DEFINE a == [i \in DOMAIN log |-> HeardOf(c, log[i])]
           b == [i \in DOMAIN Append(log, m) |-> HeardOf(c, Append(log, m)[i])]
<1>1. a \in Seq(Seq(Unit)) /\ Len(a) = Len(log)
  BY HeardParts
<1>2. PICK Q : Q = Seq(Unit)
  OBVIOUS
<1>3. HeardOf(c, m) \in Q /\ log \in Seq(Q) /\ m \in Q
  BY <1>2, EmptySeq DEF HeardOf
<1>4. b \in Seq(Q) /\ Len(b) = Len(Append(log, m))
  <2>1. Append(log, m) \in Seq(Q)
    BY <1>3, AppendProperties
  <2>2. Append(log, m) \in Seq(Seq(Unit))
    BY <1>2, <2>1
  <2> QED BY <1>2, <2>2, HeardParts
<1>5. Heard(c, log) = FlattenSeq(a) /\ Heard(c, Append(log, m)) = FlattenSeq(b)
  BY DEF Heard, HeardOf
<1>6. PICK n \in Nat : n = Len(log)
  BY <1>3
<1>7. /\ DOMAIN log = 1 .. n /\ DOMAIN Append(log, m) = 1 .. n + 1 /\ Len(Append(log, m)) = n + 1
      /\ Append(log, m)[n + 1] = m /\ \A i \in 1 .. n : Append(log, m)[i] = log[i]
  BY <1>3, <1>6, AppendProperties
<1>8. b[n + 1] = HeardOf(c, m) /\ \A i \in 1 .. n : b[i] = a[i]
  BY <1>7
<1> HIDE DEF a, b
<1>9. b = Append(a, HeardOf(c, m))
  <2>1. a \in Seq(Q) /\ Len(a) = n /\ Len(b) = n + 1
    BY <1>1, <1>2, <1>4, <1>6, <1>7
  <2> QED BY <1>3, <1>4, <1>8, <2>1, IsAppend
<1>10. HeardOf(c, m) \in Seq(Unit)
  BY <1>2, <1>3
<1> QED BY <1>1, <1>5, <1>9, <1>10, FlatAppend

\* The first elements of a sequence stay what they were.
LEMMA SubSeqOfAppend ==
    ASSUME NEW T, NEW s \in Seq(T), NEW e \in T, NEW j \in 0 .. Len(s)
    PROVE  SubSeq(Append(s, e), 1, j) = SubSeq(s, 1, j)
<1>1. PICK n \in Nat : n = Len(s)
  OBVIOUS
<1>2. /\ Len(Append(s, e)) = n + 1 /\ Append(s, e) \in Seq(T)
      /\ \A i \in 1 .. n : Append(s, e)[i] = s[i] /\ s[i] \in T
  BY <1>1, AppendProperties
<1>3. \A i \in 1 .. j : s[i] \in T /\ Append(s, e)[i] = s[i]
  BY <1>1, <1>2
<1>4. /\ SubSeq(s, 1, j) \in Seq(T) /\ SubSeq(Append(s, e), 1, j) \in Seq(T)
      /\ Len(SubSeq(s, 1, j)) = j /\ Len(SubSeq(Append(s, e), 1, j)) = j
      /\ \A i \in 1 .. j : SubSeq(Append(s, e), 1, j)[i] = SubSeq(s, 1, j)[i]
  <2>1. j \in Int /\ 1 \in Int
    BY <1>1
  <2>2. /\ SubSeq(s, 1, j) \in Seq(T)
        /\ Len(SubSeq(s, 1, j)) = IF 1 <= j THEN j - 1 + 1 ELSE 0
        /\ \A i \in 1 .. j - 1 + 1 : SubSeq(s, 1, j)[i] = s[1 + i - 1]
    BY <1>3, <2>1, SubSeqProperties
  <2>3. \A i \in 1 .. j : Append(s, e)[i] \in T
    BY <1>3
  <2>4. /\ SubSeq(Append(s, e), 1, j) \in Seq(T)
        /\ Len(SubSeq(Append(s, e), 1, j)) = IF 1 <= j THEN j - 1 + 1 ELSE 0
        /\ \A i \in 1 .. j - 1 + 1 : SubSeq(Append(s, e), 1, j)[i] = Append(s, e)[1 + i - 1]
    BY <2>1, <2>3, SubSeqProperties
  <2>5. j \in Nat
    BY <1>1
  <2> QED BY <1>3, <2>2, <2>4, <2>5
<1> QED BY <1>4, SeqEqual

\* Also from later on.
LEMMA SubSeqToAppended ==
    ASSUME NEW T, NEW s \in Seq(T), NEW e \in T, NEW m \in 1 .. Len(s) + 1
    PROVE  SubSeq(Append(s, e), m, Len(s) + 1) = Append(SubSeq(s, m, Len(s)), e)
<1>1. PICK n \in Nat : n = Len(s)
  OBVIOUS
<1>2. /\ Len(Append(s, e)) = n + 1 /\ Append(s, e) \in Seq(T)
      /\ \A i \in 1 .. n : Append(s, e)[i] = s[i] /\ s[i] \in T
      /\ Append(s, e)[n + 1] = e
  BY <1>1, AppendProperties
<1>3. m \in Int /\ n \in Int /\ n + 1 \in Int /\ m \in 1 .. n + 1
  BY <1>1
<1>4. \A i \in m .. n : s[i] \in T
  BY <1>2, <1>3
<1>5. /\ SubSeq(s, m, n) \in Seq(T) /\ Len(SubSeq(s, m, n)) = n - m + 1
      /\ \A i \in 1 .. n - m + 1 : SubSeq(s, m, n)[i] = s[m + i - 1]
  BY <1>3, <1>4, SubSeqProperties
<1>6. PICK v \in Seq(T), k \in Int : v = Append(s, e) /\ k = n + 1
  BY <1>2, <1>3
<1>7. /\ SubSeq(v, m, k) \in Seq(T) /\ Len(SubSeq(v, m, k)) = n - m + 2
      /\ \A i \in 1 .. n - m + 2 : SubSeq(v, m, k)[i] = v[m + i - 1]
  <2>1. \A i \in m .. k : v[i] \in T
    <3>1. \A i \in m .. k : i \in 1 .. n \/ i = n + 1
      BY <1>3, <1>6
    <3> QED BY <1>2, <1>6, <3>1
  <2>2. m \in Int
    BY <1>3
  <2>3. /\ SubSeq(v, m, k) \in Seq(T)
        /\ Len(SubSeq(v, m, k)) = IF m <= k THEN k - m + 1 ELSE 0
        /\ \A i \in 1 .. k - m + 1 : SubSeq(v, m, k)[i] = v[m + i - 1]
    BY <2>1, <2>2, SubSeqProperties
  <2>4. k - m + 1 = n - m + 2 /\ m <= k
    BY <1>3, <1>6
  <2> QED BY <2>3, <2>4
<1>8. PICK u \in Seq(T), q \in Nat : u = SubSeq(s, m, n) /\ q = n - m + 1 /\ Len(u) = q
  <2>1. n - m + 1 \in Nat
    BY <1>3
  <2> QED BY <1>5, <2>1
<1>9. /\ Append(u, e) \in Seq(T) /\ Len(Append(u, e)) = q + 1 /\ Append(u, e)[q + 1] = e
      /\ \A i \in 1 .. q : Append(u, e)[i] = u[i]
  BY <1>8, AppendProperties
<1>10. \A i \in 1 .. q + 1 : SubSeq(v, m, k)[i] = Append(u, e)[i]
  <2> TAKE i \in 1 .. q + 1
  <2>1. i \in 1 .. n - m + 2
    BY <1>3, <1>8
  <2>2. CASE i = q + 1
    <3>1. m + i - 1 = n + 1
      BY <1>3, <1>8, <2>2
    <3> QED BY <1>2, <1>6, <1>7, <1>9, <2>1, <2>2, <3>1
  <2>3. CASE i # q + 1
    <3>1. i \in 1 .. q /\ i \in 1 .. n - m + 1 /\ m + i - 1 \in 1 .. n
      BY <1>3, <1>8, <2>3
    <3>2. u[i] = s[m + i - 1]
      BY <1>5, <1>8, <3>1
    <3> QED BY <1>2, <1>6, <1>7, <1>9, <2>1, <3>1, <3>2
  <2> QED BY <2>2, <2>3
<1>11. q + 1 = n - m + 2
  BY <1>3, <1>8
<1> QED BY <1>1, <1>6, <1>7, <1>8, <1>9, <1>10, <1>11, SeqEqual

\* Where messages start and end, after one more frame, and after one more message.
LEMMA StartsAppend ==
    ASSUME NEW U, NEW fs \in Seq(FrameOf(U)), NEW f \in FrameOf(U)
    PROVE  Starts(Append(fs, f)) =
               Starts(fs) \cup (IF f.op = "text" THEN {Len(DataOf(fs))} ELSE {})
<1>1. PICK n \in Nat : n = Len(fs)
  OBVIOUS
<1>2. /\ DOMAIN fs = 1 .. n /\ DOMAIN Append(fs, f) = 1 .. n + 1
      /\ Append(fs, f)[n + 1] = f /\ \A i \in 1 .. n : Append(fs, f)[i] = fs[i]
  BY <1>1, AppendProperties
<1>3. \A j \in 1 .. n + 1 : SubSeq(Append(fs, f), 1, j - 1) = SubSeq(fs, 1, j - 1)
  <2> TAKE j \in 1 .. n + 1
  <2>1. PICK i \in 0 .. Len(fs) : i = j - 1
    BY <1>1
  <2>2. SubSeq(Append(fs, f), 1, i) = SubSeq(fs, 1, i)
    BY SubSeqOfAppend
  <2> QED BY <2>1, <2>2
<1>4. SubSeq(fs, 1, (n + 1) - 1) = fs
  BY <1>1, SubSeqFull
<1> DEFINE at(j) == Len(DataOf(SubSeq(fs, 1, j - 1)))
<1>5. Starts(fs) = {at(j) : j \in {k \in 1 .. n : fs[k].op = "text"}}
  BY <1>2 DEF Starts
<1>6. Starts(Append(fs, f)) = {at(j) : j \in {k \in 1 .. n + 1 : Append(fs, f)[k].op = "text"}}
  BY <1>2, <1>3 DEF Starts
<1>7. at(n + 1) = Len(DataOf(fs))
  BY <1>4
<1> HIDE DEF at
<1>8. {k \in 1 .. n + 1 : Append(fs, f)[k].op = "text"} =
          {k \in 1 .. n : fs[k].op = "text"} \cup (IF f.op = "text" THEN {n + 1} ELSE {})
  BY <1>2
<1> QED BY <1>5, <1>6, <1>7, <1>8

LEMMA FinalsAppend ==
    ASSUME NEW U, NEW fs \in Seq(FrameOf(U)), NEW f \in FrameOf(U)
    PROVE  Finals(Append(fs, f)) =
               Finals(fs) \cup (IF f.op \in Data /\ f.fin THEN {Len(DataOf(Append(fs, f)))} ELSE {})
<1>1. PICK n \in Nat : n = Len(fs)
  OBVIOUS
<1>2. /\ DOMAIN fs = 1 .. n /\ DOMAIN Append(fs, f) = 1 .. n + 1 /\ Append(fs, f) \in Seq(FrameOf(U))
      /\ Append(fs, f)[n + 1] = f /\ \A i \in 1 .. n : Append(fs, f)[i] = fs[i]
  BY <1>1, AppendProperties
<1>3. \A j \in 1 .. n : SubSeq(Append(fs, f), 1, j) = SubSeq(fs, 1, j)
  BY <1>1, SubSeqOfAppend
<1>4. SubSeq(Append(fs, f), 1, n + 1) = Append(fs, f)
  <2>1. Len(Append(fs, f)) = n + 1
    BY <1>1, AppendProperties
  <2> QED BY <1>2, <2>1, SubSeqFull
<1> DEFINE at(j) == Len(DataOf(SubSeq(fs, 1, j)))
           now(j) == Len(DataOf(SubSeq(Append(fs, f), 1, j)))
           Ended(k) == fs[k].op \in Data /\ fs[k].fin
           EndedNow(k) == Append(fs, f)[k].op \in Data /\ Append(fs, f)[k].fin
           Here == IF f.op \in Data /\ f.fin THEN {n + 1} ELSE {}
<1>5. Finals(fs) = {at(j) : j \in {k \in 1 .. n : Ended(k)}}
  BY <1>2 DEF Finals
<1>6. Finals(Append(fs, f)) = {now(j) : j \in {k \in 1 .. n + 1 : EndedNow(k)}}
  BY <1>2 DEF Finals
<1>7. now(n + 1) = Len(DataOf(Append(fs, f))) /\ \A j \in 1 .. n : now(j) = at(j)
  BY <1>3, <1>4
<1>8. {k \in 1 .. n + 1 : EndedNow(k)} = {k \in 1 .. n : Ended(k)} \cup Here
  BY <1>2
<1> HIDE DEF at, now, Ended, EndedNow
<1>9. CASE f.op \in Data /\ f.fin
  BY <1>5, <1>6, <1>7, <1>8, <1>9
<1>10. CASE ~ (f.op \in Data /\ f.fin)
  BY <1>5, <1>6, <1>7, <1>8, <1>10
<1> QED BY <1>9, <1>10

LEMMA EndsAppend ==
    ASSUME NEW c, NEW log \in Seq(Seq(Unit)), NEW m \in Seq(Unit)
    PROVE  Ends(c, Append(log, m)) =
               Ends(c, log) \cup (IF m[1][1] = c THEN {Len(Heard(c, Append(log, m)))} ELSE {})
<1>1. PICK Q : Q = Seq(Unit)
  OBVIOUS
<1>2. log \in Seq(Q) /\ m \in Q
  BY <1>1
<1>3. PICK n \in Nat : n = Len(log)
  BY <1>2
<1>4. /\ DOMAIN log = 1 .. n /\ DOMAIN Append(log, m) = 1 .. n + 1 /\ Append(log, m) \in Seq(Q)
      /\ Append(log, m)[n + 1] = m /\ \A i \in 1 .. n : Append(log, m)[i] = log[i]
  BY <1>2, <1>3, AppendProperties
<1>5. \A j \in 1 .. n : SubSeq(Append(log, m), 1, j) = SubSeq(log, 1, j)
  BY <1>2, <1>3, SubSeqOfAppend
<1>6. SubSeq(Append(log, m), 1, n + 1) = Append(log, m)
  <2>1. Len(Append(log, m)) = n + 1
    BY <1>2, <1>3, AppendProperties
  <2> QED BY <1>4, <2>1, SubSeqFull
<1> DEFINE at(j) == Len(Heard(c, SubSeq(log, 1, j)))
           now(j) == Len(Heard(c, SubSeq(Append(log, m), 1, j)))
           Ours(k) == log[k][1][1] = c
           OursNow(k) == Append(log, m)[k][1][1] = c
           Here == IF m[1][1] = c THEN {n + 1} ELSE {}
<1>7. Ends(c, log) = {at(j) : j \in {k \in 1 .. n : Ours(k)}}
  BY <1>4 DEF Ends
<1>8. Ends(c, Append(log, m)) = {now(j) : j \in {k \in 1 .. n + 1 : OursNow(k)}}
  BY <1>4 DEF Ends
<1>9. now(n + 1) = Len(Heard(c, Append(log, m))) /\ \A j \in 1 .. n : now(j) = at(j)
  BY <1>5, <1>6
<1>10. {k \in 1 .. n + 1 : OursNow(k)} = {k \in 1 .. n : Ours(k)} \cup Here
  BY <1>4
<1> HIDE DEF at, now, Ours, OursNow
<1>11. CASE m[1][1] = c
  BY <1>7, <1>8, <1>9, <1>10, <1>11
<1>12. CASE m[1][1] # c
  BY <1>7, <1>8, <1>9, <1>10, <1>12
<1> QED BY <1>11, <1>12

-----------------------------------------------------------------------------
\* The frames on the wire.

\* FramesInOrder, of one connection.
Ordered(w) ==
    \A i \in DOMAIN w :
        /\ w[i].op \in Data => (w[i].op = "text" <=> \A j \in Previous(w, i) : w[j].fin)
        /\ w[i].op \in {"close", "torn"} => i = Len(w)

\* The last message on the wire has no final frame yet.
Unfinished(w) == \E j \in Previous(w, Len(w) + 1) : ~ w[j].fin

LEMMA PreviousAppend ==
    ASSUME NEW U, NEW w \in Seq(FrameOf(U)), NEW f \in FrameOf(U), NEW i \in 1 .. Len(w) + 1
    PROVE  /\ Previous(Append(w, f), i) = Previous(w, i)
           /\ \A j \in Previous(w, i) : Append(w, f)[j] = w[j]
<1>1. PICK n \in Nat : n = Len(w)
  OBVIOUS
<1>2. \A k \in 1 .. n : Append(w, f)[k] = w[k]
  BY <1>1, AppendProperties
<1>3. i \in Nat /\ \A j \in 1 .. i - 1 : j \in 1 .. n
  BY <1>1
<1>4. \A j \in 1 .. i - 1 : \A k \in j + 1 .. i - 1 : k \in 1 .. n
  BY <1>1
<1> QED BY <1>2, <1>3, <1>4 DEF Previous

LEMMA OrderedAppend ==
    ASSUME NEW U, NEW w \in Seq(FrameOf(U)), NEW f \in FrameOf(U), Ordered(w),
           \A i \in DOMAIN w : w[i].op \notin {"close", "torn"},
           f.op \in Data => (f.op = "text" <=> ~ Unfinished(w))
    PROVE  Ordered(Append(w, f))
<1>1. PICK n \in Nat : n = Len(w)
  OBVIOUS
<1>2. PICK v \in Seq(FrameOf(U)) : v = Append(w, f)
  BY AppendProperties
<1>3. /\ DOMAIN w = 1 .. n /\ DOMAIN v = 1 .. n + 1 /\ Len(v) = n + 1
      /\ v[n + 1] = f /\ \A k \in 1 .. n : v[k] = w[k]
  BY <1>1, <1>2, AppendProperties
<1>4. ASSUME NEW i \in 1 .. n + 1
      PROVE  Previous(v, i) = Previous(w, i) /\ \A j \in Previous(w, i) : v[j] = w[j]
  <2>1. i \in 1 .. Len(w) + 1
    BY <1>1
  <2>2. /\ Previous(Append(w, f), i) = Previous(w, i)
        /\ \A j \in Previous(w, i) : Append(w, f)[j] = w[j]
    BY <2>1, PreviousAppend
  <2> QED BY <1>2, <2>2
<1>5. ASSUME NEW i \in 1 .. n + 1
      PROVE  /\ v[i].op \in Data => (v[i].op = "text" <=> \A j \in Previous(v, i) : v[j].fin)
             /\ v[i].op \in {"close", "torn"} => i = n + 1
  <2>1. CASE i \in 1 .. n
    <3>1. v[i] = w[i] /\ i \in DOMAIN w
      BY <1>3, <2>1
    <3>2. (\A j \in Previous(v, i) : v[j].fin) <=> (\A j \in Previous(w, i) : w[j].fin)
      BY <1>4
    <3>3. w[i].op \in Data => (w[i].op = "text" <=> \A j \in Previous(w, i) : w[j].fin)
      BY <3>1 DEF Ordered
    <3> QED BY <3>1, <3>2, <3>3
  <2>2. CASE i = n + 1
    <3>1. v[i] = f
      BY <1>3, <2>2
    <3>2. (\A j \in Previous(v, i) : v[j].fin) <=> (\A j \in Previous(w, i) : w[j].fin)
      BY <1>4
    <3>3. (\A j \in Previous(w, i) : w[j].fin) <=> ~ Unfinished(w)
      BY <1>1, <2>2 DEF Unfinished
    <3> QED BY <2>2, <3>1, <3>2, <3>3
  <2> QED BY <2>1, <2>2
<1> QED BY <1>2, <1>3, <1>5 DEF Ordered

LEMMA UnfinishedAppend ==
    ASSUME NEW U, NEW w \in Seq(FrameOf(U)), NEW f \in FrameOf(U)
    PROVE  Unfinished(Append(w, f)) <=> IF f.op \in Data THEN ~ f.fin ELSE Unfinished(w)
<1>1. PICK n \in Nat : n = Len(w)
  OBVIOUS
<1>2. PICK v \in Seq(FrameOf(U)) : v = Append(w, f)
  BY AppendProperties
<1>3. Len(v) = n + 1 /\ v[n + 1] = f /\ \A k \in 1 .. n : v[k] = w[k]
  BY <1>1, <1>2, AppendProperties
<1>4. CASE f.op \in Data
  <2>1. Previous(v, n + 2) = {n + 1}
    <3>1. n + 1 \in Previous(v, n + 2)
      BY <1>3, <1>4 DEF Previous
    <3>2. ASSUME NEW j \in Previous(v, n + 2)
          PROVE  j = n + 1
      <4>1. j \in 1 .. n + 1 /\ \A k \in j + 1 .. n + 1 : v[k].op \notin Data
        BY DEF Previous
      <4> QED BY <1>3, <1>4, <4>1
    <3> QED BY <3>1, <3>2
  <2>2. Len(v) + 1 = n + 2
    BY <1>3
  <2>3. Unfinished(v) <=> ~ v[n + 1].fin
    BY <2>1, <2>2 DEF Unfinished
  <2> QED BY <1>2, <1>3, <1>4, <2>3
<1>5. CASE f.op \notin Data
  <2>1. Previous(v, n + 2) = Previous(w, n + 1)
    <3>1. ASSUME NEW j \in Previous(v, n + 2)
          PROVE  j \in Previous(w, n + 1)
      <4>1. j \in 1 .. n + 1 /\ v[j].op \in Data /\ \A k \in j + 1 .. n + 1 : v[k].op \notin Data
        BY DEF Previous
      <4>2. j \in 1 .. n /\ \A k \in j + 1 .. n : k \in j + 1 .. n + 1 /\ k \in 1 .. n
        BY <1>3, <1>5, <4>1
      <4>3. w[j].op \in Data /\ \A k \in j + 1 .. n : w[k].op \notin Data
        BY <1>3, <4>1, <4>2
      <4>4. n + 1 - 1 = n
        OBVIOUS
      <4> QED BY <4>2, <4>3, <4>4 DEF Previous
    <3>2. ASSUME NEW j \in Previous(w, n + 1)
          PROVE  j \in Previous(v, n + 2)
      <4>1. j \in 1 .. n /\ w[j].op \in Data /\ \A k \in j + 1 .. n : w[k].op \notin Data
        BY DEF Previous
      <4>2. \A k \in j + 1 .. n + 1 : k = n + 1 \/ (k \in 1 .. n /\ k \in j + 1 .. n)
        BY <4>1
      <4>3. \A k \in j + 1 .. n + 1 : v[k].op \notin Data
        BY <1>3, <1>5, <4>1, <4>2
      <4>4. n + 2 - 1 = n + 1 /\ j \in 1 .. n + 1 /\ v[j] = w[j]
        BY <1>3, <4>1
      <4> QED BY <4>1, <4>3, <4>4 DEF Previous
    <3> QED BY <3>1, <3>2
  <2>2. Len(v) + 1 = n + 2
    BY <1>3
  <2>3. \A j \in Previous(w, n + 1) : v[j] = w[j]
    BY <1>3 DEF Previous
  <2>4. Unfinished(v) <=> Unfinished(w)
    BY <1>1, <2>1, <2>2, <2>3 DEF Unfinished
  <2> QED BY <1>2, <1>5, <2>4
<1> QED BY <1>4, <1>5

-----------------------------------------------------------------------------
\* The types.

Text == Seq(Unit)
Texts == Seq(Seq(Unit))
Content == Seq(AnyUnit)
OnWire == Seq(FrameOf(AnyUnit))
OfBrowser == Seq(FrameOf(Unit))
Writer == [op : {"closed", "text", "cont"}, buf : Content]

ConnTypes ==
    /\ net \in [Client -> {"none", "open", "left", "closed"}]
    /\ wire \in [Client -> OnWire]
    /\ writeErr \in [Client -> {"nil", "ErrCloseSent", "failed"}]
    /\ writer \in [Client -> Writer] /\ \A c \in Client : Len(writer[c].buf) <= BufSize
    /\ frames \in [Client -> OfBrowser]
    /\ readFinal \in [Client -> BOOLEAN]
    /\ partial \in [Client -> Text] /\ \A c \in Client : Len(partial[c]) <= ReadLimit

HubTypes ==
    /\ clients \subseteq Client \ sendClosed /\ sendClosed \subseteq Client
    /\ hubLog \in Texts
    /\ since \in [Client -> Nat] /\ \A c \in Client : since[c] <= Len(hubLog)
    /\ send \in [Client -> Texts] /\ \A c \in Client : Len(send[c]) <= SendCap

PumpTypes ==
    /\ rp \in [Client -> {"none", "read", "broadcast", "giveUp", "leave", "close", "returned"}]
    /\ wp \in [Client -> {"none", "select", "write", "returned"}]
    /\ todo \in [Client -> Content]
    /\ queued \in [Client -> BOOLEAN]
    /\ results \in [Client -> Nat] /\ pings \in [Client -> Nat]
    /\ exited \in BOOLEAN

Types == ConnTypes /\ HubTypes /\ PumpTypes

\* A browser that did not connect yet.
Fresh(c) ==
    net[c] = "none" =>
        /\ c \notin clients \cup sendClosed /\ rp[c] = "none" /\ wp[c] = "none"
        /\ wire[c] = <<>> /\ send[c] = <<>>

\* Between messages no writer is open, and within one it is.
Writers(c) ==
    /\ wp[c] \in {"none", "select"} => writer[c] = Closed /\ todo[c] = <<>>
    /\ wp[c] = "write" => writer[c].op \in Data

Pumps == \A c \in Client : Fresh(c) /\ Writers(c)

LEMMA Sets ==
    /\ <<>> \in Text /\ <<>> \in Texts /\ <<>> \in Content /\ <<>> \in OnWire /\ <<>> \in OfBrowser
    /\ \A s \in Text : s \in Content /\ Len(s) \in Nat
    /\ \A s, t \in Content : s \o t \in Content /\ Len(s) \in Nat
    /\ \A s \in Texts : Len(s) \in Nat /\ FlattenSeq(s) \in Text
    /\ \A s \in Texts, m \in Text : Append(s, m) \in Texts /\ Len(Append(s, m)) = Len(s) + 1
<1>1. /\ <<>> \in Text /\ <<>> \in Texts /\ <<>> \in Content /\ <<>> \in OnWire /\ <<>> \in OfBrowser
  BY EmptySeq DEF Text, Texts, Content, OnWire, OfBrowser
<1>2. \A s \in Text : s \in Content /\ Len(s) \in Nat
  BY SeqMonotonic DEF Text, Content, AnyUnit
<1>3. \A s, t \in Content : s \o t \in Content /\ Len(s) \in Nat
  BY ConcatProperties DEF Content
<1>4. ASSUME NEW s \in Texts
      PROVE  Len(s) \in Nat /\ FlattenSeq(s) \in Text
  BY FlatType, LenProperties DEF Text, Texts
<1>5. ASSUME NEW s \in Texts, NEW m \in Text
      PROVE  Append(s, m) \in Texts /\ Len(Append(s, m)) = Len(s) + 1
  <2>1. PICK Q : Q = Seq(Unit)
    OBVIOUS
  <2>2. s \in Seq(Q) /\ m \in Q
    BY <2>1 DEF Texts, Text
  <2>3. Append(s, m) \in Seq(Q) /\ Len(Append(s, m)) = Len(s) + 1
    BY <2>2, AppendProperties
  <2> QED BY <2>1, <2>3 DEF Texts
<1> QED BY <1>1, <1>2, <1>3, <1>4, <1>5

\* A channel gives its first message.
LEMMA HeadOfTexts ==
    ASSUME NEW s \in Texts, s # <<>>
    PROVE  Head(s) \in Text /\ Tail(s) \in Texts /\ Len(Tail(s)) <= Len(s)
<1>1. PICK Q : Q = Seq(Unit)
  OBVIOUS
<1>2. s \in Seq(Q)
  BY <1>1 DEF Texts
<1>3. Head(s) \in Q /\ Tail(s) \in Seq(Q) /\ Len(Tail(s)) = Len(s) - 1 /\ Len(s) \in Nat
  BY <1>2, HeadTailProperties
<1> QED BY <1>1, <1>3 DEF Text, Texts

\* What the buffer holds, and the rest.
LEMMA Cut ==
    ASSUME NEW s \in Content, Len(s) > BufSize
    PROVE  /\ SubSeq(s, 1, BufSize) \in Content /\ SubSeq(s, BufSize + 1, Len(s)) \in Content
           /\ SubSeq(s, 1, BufSize) \o SubSeq(s, BufSize + 1, Len(s)) = s
<1>1. PICK n \in Nat : n = Len(s)
  BY DEF Content
<1>2. BufSize \in Nat \ {0} /\ BufSize <= n
  BY <1>1, WebSocketAssumption
<1>3. \A i \in 1 .. n : s[i] \in AnyUnit
  BY <1>1 DEF Content
<1>4. \A i \in 1 .. BufSize : s[i] \in AnyUnit
  BY <1>2, <1>3
<1>5. \A i \in BufSize + 1 .. n : s[i] \in AnyUnit
  BY <1>2, <1>3
<1>6. SubSeq(s, 1, BufSize) \in Content
  <2>1. 1 \in Int /\ BufSize \in Int
    BY <1>2
  <2> QED BY <1>4, <2>1, SubSeqProperties DEF Content
<1>7. SubSeq(s, BufSize + 1, n) \in Content
  <2>1. PICK k \in Int : k = BufSize + 1
    BY <1>2
  <2> QED BY <1>1, <1>5, <2>1, SubSeqProperties DEF Content
<1>8. SubSeq(s, 1, BufSize) \o SubSeq(s, BufSize + 1, n) = SubSeq(s, 1, n)
  <2>1. 1 \in 1 .. Len(s) + 1 /\ BufSize \in 1 - 1 .. Len(s) /\ n \in BufSize .. Len(s)
    BY <1>1, <1>2
  <2> QED BY <2>1, ConcatAdjacentSubSeq DEF Content
<1>9. SubSeq(s, 1, n) = s
  BY <1>1, SubSeqFull DEF Content
<1> QED BY <1>1, <1>6, <1>7, <1>8, <1>9

LEMMA FrameTypes ==
    ASSUME NEW fin \in BOOLEAN
    PROVE  /\ \A op \in Data, data \in Content : Frame(op, fin, data) \in FrameOf(AnyUnit)
           /\ \A op \in {"close", "ping", "pong", "torn"} : Frame(op, fin, <<>>) \in FrameOf(AnyUnit)
BY Sets DEF Frame, FrameOf, Data, Content

\* What writing a frame may give.
LEMMA WriteTypes ==
    ASSUME ConnTypes, NEW c \in Client, NEW f \in FrameOf(AnyUnit), NEW o \in write(c, f)
    PROVE  /\ o.wire \in OnWire /\ o.err \in {"nil", "ErrCloseSent", "failed"} /\ o.ok \in BOOLEAN
           /\ \/ /\ o.ok /\ writeErr[c] = "nil" /\ o.wire = Append(wire[c], f)
                 /\ o.err = IF f.op = "close" THEN "ErrCloseSent" ELSE "nil"
              \/ /\ ~ o.ok /\ o.err # "nil"
                 /\ \/ o.wire = wire[c]
                    \/ writeErr[c] = "nil" /\ o.wire = Append(wire[c], Frame("torn", TRUE, <<>>))
           /\ net[c] = "none" => o.wire = wire[c]
<1>1. wire[c] \in OnWire /\ writeErr[c] \in {"nil", "ErrCloseSent", "failed"}
  BY DEF ConnTypes
<1>2. Append(wire[c], f) \in OnWire /\ Append(wire[c], Frame("torn", TRUE, <<>>)) \in OnWire
  BY <1>1, FrameTypes, AppendProperties DEF OnWire
<1>3. \/ o = [ok |-> FALSE, wire |-> wire[c], err |-> writeErr[c]] /\ writeErr[c] # "nil"
      \/ /\ writeErr[c] = "nil" /\ net[c] = "open"
         /\ o = [ok |-> TRUE, wire |-> Append(wire[c], f),
                 err |-> IF f.op = "close" THEN "ErrCloseSent" ELSE "nil"]
      \/ writeErr[c] = "nil" /\ o = [ok |-> FALSE, wire |-> wire[c], err |-> "failed"]
      \/ /\ writeErr[c] = "nil" /\ net[c] = "open"
         /\ o = [ok |-> FALSE, wire |-> Append(wire[c], Frame("torn", TRUE, <<>>)), err |-> "failed"]
  BY Zenon DEF write
<1>4. CASE o = [ok |-> FALSE, wire |-> wire[c], err |-> writeErr[c]] /\ writeErr[c] # "nil"
  <2>1. o.ok = FALSE /\ o.wire = wire[c] /\ o.err = writeErr[c]
    BY <1>4
  <2> QED BY <1>1, <1>4, <2>1
<1>5. CASE /\ writeErr[c] = "nil" /\ net[c] = "open"
           /\ o = [ok |-> TRUE, wire |-> Append(wire[c], f),
                   err |-> IF f.op = "close" THEN "ErrCloseSent" ELSE "nil"]
  <2>1. /\ o.ok = TRUE /\ o.wire = Append(wire[c], f)
        /\ o.err = IF f.op = "close" THEN "ErrCloseSent" ELSE "nil"
    BY <1>5
  <2> QED BY <1>2, <1>5, <2>1
<1>6. CASE writeErr[c] = "nil" /\ o = [ok |-> FALSE, wire |-> wire[c], err |-> "failed"]
  <2>1. o.ok = FALSE /\ o.wire = wire[c] /\ o.err = "failed"
    BY <1>6
  <2> QED BY <1>1, <2>1
<1>7. CASE /\ writeErr[c] = "nil" /\ net[c] = "open"
           /\ o = [ok |-> FALSE, wire |-> Append(wire[c], Frame("torn", TRUE, <<>>)),
                   err |-> "failed"]
  <2>1. o.ok = FALSE /\ o.wire = Append(wire[c], Frame("torn", TRUE, <<>>)) /\ o.err = "failed"
    BY <1>7
  <2> QED BY <1>2, <1>7, <2>1
<1> QED BY <1>3, <1>4, <1>5, <1>6, <1>7

\* A control frame, or none.
LEMMA ControlTypes ==
    ASSUME ConnTypes, NEW c \in Client, NEW op \in {"close", "ping", "pong"}, NEW o \in Outcome(c, op)
    PROVE  /\ o.wire \in OnWire /\ o.err \in {"nil", "ErrCloseSent", "failed"} /\ o.ok \in BOOLEAN
           /\ \/ o.wire = wire[c] /\ (o.err = "nil" => writeErr[c] = "nil")
              \/ /\ writeErr[c] = "nil" /\ o.wire = Append(wire[c], Frame(op, TRUE, <<>>))
                 /\ o.err = IF op = "close" THEN "ErrCloseSent" ELSE "nil"
              \/ /\ writeErr[c] = "nil" /\ o.wire = Append(wire[c], Frame("torn", TRUE, <<>>))
                 /\ o.err # "nil"
           /\ net[c] = "none" => o.wire = wire[c]
<1>1. PICK f \in FrameOf(AnyUnit) : f = Frame(op, TRUE, <<>>)
  BY FrameTypes
<1>2. f.op = op
  BY <1>1 DEF Frame
<1>3. o \in write(c, f) \/ o = [ok |-> TRUE, wire |-> wire[c], err |-> writeErr[c]]
  BY <1>1, Zenon DEF Outcome
<1>4. CASE o \in write(c, f)
  <2>1. /\ o.wire \in OnWire /\ o.err \in {"nil", "ErrCloseSent", "failed"} /\ o.ok \in BOOLEAN
        /\ \/ /\ o.ok /\ writeErr[c] = "nil" /\ o.wire = Append(wire[c], f)
              /\ o.err = IF f.op = "close" THEN "ErrCloseSent" ELSE "nil"
           \/ /\ ~ o.ok /\ o.err # "nil"
              /\ \/ o.wire = wire[c]
                 \/ writeErr[c] = "nil" /\ o.wire = Append(wire[c], Frame("torn", TRUE, <<>>))
        /\ net[c] = "none" => o.wire = wire[c]
    BY <1>4, WriteTypes
  <2> QED BY <1>1, <1>2, <2>1
<1>5. CASE o = [ok |-> TRUE, wire |-> wire[c], err |-> writeErr[c]]
  <2>1. o.ok = TRUE /\ o.wire = wire[c] /\ o.err = writeErr[c]
    BY <1>5
  <2> QED BY <2>1 DEF ConnTypes
<1> QED BY <1>3, <1>4, <1>5

\* A frame of a browser.
LEMMA NextFrameIs ==
    ASSUME NEW c \in Client, frames[c] \in OfBrowser, NEW f \in NextFrame(c)
    PROVE  /\ f \in FrameOf(Unit) /\ f.op \in {"text", "cont", "ping", "close"}
           /\ f.op \in Data =>
                 /\ Len(f.data) \in Nat \ {0}
                 /\ \A i \in 1 .. Len(f.data) : f.data[i] = <<c, Len(DataOf(frames[c])) + i>>
           /\ f.op \notin Data => f.data = <<>>
<1>1. PICK sent \in Nat : sent = Len(DataOf(frames[c]))
  BY DataType DEF OfBrowser
<1>2. CASE f \in [op : Data, fin : BOOLEAN, data : NextUnits(c)]
  <2>1. f.op \in Data /\ f.fin \in BOOLEAN /\ f.data \in NextUnits(c)
    BY <1>2
  <2>2. PICK n \in 1 .. MaxUnits : f.data = [i \in 1 .. n |-> <<c, sent + i>>]
    BY <1>1, <2>1 DEF NextUnits
  <2>3. n \in Nat \ {0}
    BY <2>2, HubAssumption
  <2>4. \A i \in 1 .. n : <<c, sent + i>> \in Unit
    BY <2>3 DEF Unit
  <2>5. f.data \in Seq(Unit) /\ Len(f.data) = n
    <3>1. f.data \in [1 .. n -> Unit]
      BY <2>2, <2>4
    <3> QED BY <2>3, <3>1
  <2>6. f \in FrameOf(Unit)
    BY <1>2, <2>1, <2>5 DEF FrameOf, Data
  <2>7. f.op \in {"text", "cont", "ping", "close"}
    BY <2>1 DEF Data
  <2> QED BY <1>1, <2>1, <2>2, <2>3, <2>5, <2>6, <2>7
<1>3. CASE f \in [op : {"ping", "close"}, fin : {TRUE}, data : {<<>>}]
  <2>1. f.op \in {"ping", "close"} /\ f.data = <<>>
    BY <1>3
  <2>2. f \in FrameOf(Unit)
    BY <1>3, EmptySeq DEF FrameOf
  <2> QED BY <2>1, <2>2 DEF Data
<1> QED BY <1>2, <1>3 DEF NextFrame

LEMMA InitTypes ==
    Init => Types /\ Pumps
<1> SUFFICES ASSUME Init PROVE Types /\ Pumps
  OBVIOUS
<1>1. Closed \in Writer /\ Closed.buf = <<>> /\ Len(<<>>) = 0 /\ 0 <= BufSize /\ 0 <= ReadLimit
      /\ 0 <= SendCap
  BY Sets, WebSocketAssumption, HubAssumption DEF Closed, Writer
<1>2. ConnTypes
  BY <1>1, Sets DEF Init, newConn, ConnTypes
<1>3. HubTypes
  BY <1>1, Sets DEF Init, HubTypes
<1>4. PumpTypes
  BY Sets DEF Init, PumpTypes
<1>5. Pumps
  BY Sets DEF Init, newConn, Pumps, Fresh, Writers
<1> QED BY <1>2, <1>3, <1>4, <1>5 DEF Types

LEMMA RegisterTypes ==
    ASSUME Types, Pumps, NEW c \in Client, Register(c)
    PROVE  Types' /\ Pumps'
<1>1. ConnTypes'
  BY DEF Types, ConnTypes, Register, writeVars, readVars
<1>2. c \notin sendClosed /\ wp[c] = "none"
  BY DEF Pumps, Fresh, Register
<1>3. HubTypes'
  <2>1. Len(hubLog) \in Nat
    BY Sets DEF Types, HubTypes
  <2> QED BY <1>2, <2>1 DEF Types, HubTypes, Register
<1>4. PumpTypes'
  BY DEF Types, PumpTypes, Register
<1>5. ASSUME NEW d \in Client PROVE Fresh(d)' /\ Writers(d)'
  BY DEF Types, ConnTypes, PumpTypes, Pumps, Fresh, Writers, Register, writeVars
<1> QED BY <1>1, <1>3, <1>4, <1>5 DEF Types, Pumps

\* A step that changes nothing but where readPump is.
LEMMA ReadPumpMoves ==
    ASSUME Types, Pumps, NEW c \in Client, rp[c] # "none",
           rp' = [rp EXCEPT ![c] = "leave"],
           UNCHANGED <<connVars, hubVars, wp, todo, queued, results, pings, exited>>
    PROVE  Types' /\ Pumps'
<1>1. ConnTypes' /\ HubTypes'
  BY DEF Types, ConnTypes, HubTypes, connVars, writeVars, readVars, hubVars
<1>2. PumpTypes'
  BY DEF Types, PumpTypes
<1>3. ASSUME NEW d \in Client PROVE Fresh(d)' /\ Writers(d)'
  BY DEF Types, PumpTypes, Pumps, Fresh, Writers, connVars, writeVars, hubVars
<1> QED BY <1>1, <1>2, <1>3 DEF Types, Pumps

\* The control frames.
LEMMA WroteControl ==
    ASSUME Types, NEW c \in Client, NEW op \in {"close", "ping", "pong"}, NEW o \in Outcome(c, op),
           Wrote(c, o)
    PROVE  /\ wire' \in [Client -> OnWire]
           /\ writeErr' \in [Client -> {"nil", "ErrCloseSent", "failed"}]
           /\ \A d \in Client : net[d] = "none" => wire'[d] = wire[d]
           /\ \A d \in Client \ {c} : wire'[d] = wire[d] /\ writeErr'[d] = writeErr[d]
           /\ wire'[c] = o.wire /\ writeErr'[c] = o.err
<1>1. o.wire \in OnWire /\ o.err \in {"nil", "ErrCloseSent", "failed"}
      /\ (net[c] = "none" => o.wire = wire[c])
  BY ControlTypes DEF Types
<1> QED BY <1>1 DEF Wrote, Types, ConnTypes

LEMMA AdvanceTypes ==
    ASSUME Types, NEW c \in Client, NEW f \in NextFrame(c), NEW ok \in BOOLEAN,
           advanceFrame(c, f, ok), UNCHANGED net
    PROVE  /\ ConnTypes' /\ writer' = writer
           /\ \A d \in Client : net[d] = "none" => wire'[d] = wire[d]
<1>1. /\ f \in FrameOf(Unit) /\ f.op \in {"text", "cont", "ping", "close"}
      /\ f.data \in Text /\ f.fin \in BOOLEAN
  BY NextFrameIs DEF Types, ConnTypes, FrameOf, Text
<1>2. frames' \in [Client -> OfBrowser]
  <2>1. \A fs \in OfBrowser : Append(fs, f) \in OfBrowser
    BY <1>1, AppendProperties DEF OfBrowser
  <2> QED BY <2>1 DEF advanceFrame, Types, ConnTypes
<1>3. CASE BreaksProtocol(c, f) \/ TooBig(c, f) \/ f.op = "close"
  <2>1. PICK o \in Outcome(c, "close") : WriteControl(c, "close", o)
    BY <1>3 DEF advanceFrame
  <2>2. Wrote(c, o) /\ UNCHANGED writer /\ UNCHANGED <<readFinal, partial>>
    BY <1>3, <2>1 DEF advanceFrame, WriteControl
  <2>3. /\ wire' \in [Client -> OnWire]
        /\ writeErr' \in [Client -> {"nil", "ErrCloseSent", "failed"}]
        /\ \A d \in Client : net[d] = "none" => wire'[d] = wire[d]
    BY <2>2, WroteControl
  <2> QED BY <1>2, <2>2, <2>3 DEF Types, ConnTypes
<1>4. CASE ~ (BreaksProtocol(c, f) \/ TooBig(c, f) \/ f.op = "close") /\ f.op = "ping"
  <2>1. PICK o \in Outcome(c, "pong") : WriteControl(c, "pong", o)
    BY <1>4 DEF advanceFrame
  <2>2. Wrote(c, o) /\ UNCHANGED writer /\ UNCHANGED <<readFinal, partial>>
    BY <1>4, <2>1 DEF advanceFrame, WriteControl
  <2>3. /\ wire' \in [Client -> OnWire]
        /\ writeErr' \in [Client -> {"nil", "ErrCloseSent", "failed"}]
        /\ \A d \in Client : net[d] = "none" => wire'[d] = wire[d]
    BY <2>2, WroteControl
  <2> QED BY <1>2, <2>2, <2>3 DEF Types, ConnTypes
<1>5. CASE ~ (BreaksProtocol(c, f) \/ TooBig(c, f) \/ f.op = "close") /\ f.op # "ping"
  <2>1. f.op \in Data
    BY <1>1, <1>5 DEF Data
  <2>2. /\ readFinal' = [readFinal EXCEPT ![c] = f.fin]
        /\ partial' = [partial EXCEPT ![c] = @ \o f.data] /\ UNCHANGED writeVars
    BY <1>5, <2>1 DEF advanceFrame
  <2>3. partial[c] \o f.data \in Text /\ Len(partial[c] \o f.data) <= ReadLimit
    <3>1. partial[c] \in Text
      BY DEF Types, ConnTypes
    <3>2. /\ partial[c] \o f.data \in Text
          /\ Len(partial[c] \o f.data) = Len(partial[c]) + Len(f.data)
          /\ Len(partial[c]) \in Nat /\ Len(f.data) \in Nat
      BY <1>1, <3>1, ConcatProperties DEF Text
    <3>3. ReadLimit \in Nat /\ ~ (Len(partial[c]) + Len(f.data) > ReadLimit)
      BY <1>5, <2>1, WebSocketAssumption DEF TooBig
    <3>4. PICK t \in Text, m \in Nat, n \in Nat :
             t = partial[c] \o f.data /\ m = Len(partial[c]) /\ n = Len(f.data)
      BY <3>2
    <3>5. Len(t) = m + n /\ ~ (m + n > ReadLimit)
      BY <3>2, <3>3, <3>4
    <3>6. Len(t) <= ReadLimit
      BY <3>3, <3>5
    <3> QED BY <3>4, <3>6
  <2> QED BY <1>1, <1>2, <2>2, <2>3 DEF Types, ConnTypes, writeVars
<1> QED BY <1>3, <1>4, <1>5

LEMMA ReadFrameTypes ==
    ASSUME Types, Pumps, NEW c \in Client, ReadFrame(c)
    PROVE  Types' /\ Pumps'
<1>1. PICK f \in NextFrame(c), ok \in BOOLEAN :
          /\ advanceFrame(c, f, ok)
          /\ rp' = [rp EXCEPT ![c] = IF ~ok THEN "leave"
                                     ELSE IF f.op \in Data /\ f.fin THEN "broadcast" ELSE "read"]
  BY DEF ReadFrame
<1>2. ConnTypes' /\ writer' = writer /\ \A d \in Client : net[d] = "none" => wire'[d] = wire[d]
  BY <1>1, AdvanceTypes DEF ReadFrame
<1>3. HubTypes'
  BY DEF Types, HubTypes, ReadFrame, hubVars
<1>4. PumpTypes'
  BY <1>1 DEF Types, PumpTypes, ReadFrame
<1>5. ASSUME NEW d \in Client PROVE Fresh(d)' /\ Writers(d)'
  <2>1. Fresh(d)'
    BY <1>1, <1>2 DEF Types, PumpTypes, Pumps, Fresh, ReadFrame, hubVars
  <2>2. Writers(d)'
    BY <1>2 DEF Pumps, Writers, ReadFrame
  <2> QED BY <2>1, <2>2
<1> QED BY <1>2, <1>3, <1>4, <1>5 DEF Types, Pumps

LEMMA SendToHubTypes ==
    ASSUME Types, Pumps, NEW c \in Client, SendToHub(c)
    PROVE  Types' /\ Pumps'
<1>1. ConnTypes'
  <2>1. <<>> \in Text /\ Len(<<>>) = 0 /\ 0 <= ReadLimit
    BY Sets, WebSocketAssumption
  <2>2. PICK e : e = <<>>
    OBVIOUS
  <2>3. partial' = [partial EXCEPT ![c] = e] /\ UNCHANGED <<net, writeVars, frames, readFinal>>
    BY <2>2 DEF SendToHub
  <2> QED BY <2>1, <2>2, <2>3 DEF Types, ConnTypes, writeVars
<1>2. partial[c] \in Text /\ Full \subseteq clients
  BY DEF Types, ConnTypes, Full
<1>3. HubTypes'
  <2>1. clients' \subseteq Client \ sendClosed' /\ sendClosed' \subseteq Client
    BY <1>2 DEF Types, HubTypes, SendToHub, Broadcast
  <2>2. hubLog' \in Texts /\ \A d \in Client : since'[d] <= Len(hubLog')
    <3>1. PICK m \in Text, log \in Texts : m = partial[c] /\ log = hubLog
      BY <1>2 DEF Types, HubTypes
    <3>2. Append(log, m) \in Texts /\ Len(Append(log, m)) = Len(log) + 1 /\ Len(log) \in Nat
      BY Sets
    <3>3. hubLog' = Append(log, m) /\ since' = since
      BY <3>1 DEF SendToHub, Broadcast
    <3>4. \A d \in Client : since[d] \in Nat /\ since[d] <= Len(log)
      BY <3>1 DEF Types, HubTypes
    <3> QED BY <3>2, <3>3, <3>4
  <2>3. ASSUME NEW d \in Client
        PROVE  send'[d] \in Texts /\ Len(send'[d]) <= SendCap
    <3>1. send[d] \in Texts /\ Len(send[d]) \in Nat /\ Len(send[d]) <= SendCap /\ SendCap \in Nat
      BY Sets, HubAssumption DEF Types, HubTypes
    <3>2. CASE d \in clients \ Full
      <4>1. send'[d] = Append(send[d], partial[c])
        BY <3>2 DEF SendToHub, Broadcast
      <4>2. ~ (Len(send[d]) >= SendCap)
        BY <3>2 DEF Full
      <4>3. Append(send[d], partial[c]) \in Texts
            /\ Len(Append(send[d], partial[c])) = Len(send[d]) + 1
        BY <1>2, <3>1, Sets
      <4>4. Len(send[d]) + 1 <= SendCap
        BY <3>1, <4>2
      <4> QED BY <4>1, <4>3, <4>4
    <3>3. CASE d \notin clients \ Full
      BY <3>1, <3>3 DEF SendToHub, Broadcast
    <3> QED BY <3>2, <3>3
  <2>4. send' \in [Client -> Texts]
    BY <2>3 DEF SendToHub, Broadcast
  <2> QED BY <2>1, <2>2, <2>3, <2>4 DEF Types, HubTypes, SendToHub, Broadcast
<1>4. PumpTypes'
  <2>1. \E pc \in {"read", "giveUp", "leave"} : rp' = [rp EXCEPT ![c] = pc]
    BY DEF SendToHub
  <2>2. results' = [results EXCEPT ![c] = @ + 1] \/ results' = results
    BY DEF SendToHub
  <2>3. results' \in [Client -> Nat]
    BY <2>2 DEF Types, PumpTypes
  <2>4. exited' \in BOOLEAN
    BY DEF Types, PumpTypes, SendToHub
  <2> QED BY <2>1, <2>3, <2>4 DEF Types, PumpTypes, SendToHub
<1>5. ASSUME NEW d \in Client PROVE Fresh(d)' /\ Writers(d)'
  <2>1. Fresh(d)'
    BY <1>2 DEF Types, PumpTypes, Pumps, Fresh, SendToHub, Broadcast, writeVars
  <2>2. Writers(d)'
    BY DEF Pumps, Writers, SendToHub, writeVars
  <2> QED BY <2>1, <2>2
<1> QED BY <1>1, <1>3, <1>4, <1>5 DEF Types, Pumps

LEMMA GiveUpTypes ==
    ASSUME Types, Pumps, NEW c \in Client, GiveUp(c)
    PROVE  Types' /\ Pumps'
<1>1. ConnTypes' /\ HubTypes'
  BY DEF Types, ConnTypes, HubTypes, connVars, writeVars, readVars, hubVars, GiveUp
<1>2. PumpTypes'
  BY DEF Types, PumpTypes, GiveUp, pumpVars
<1>3. ASSUME NEW d \in Client PROVE Fresh(d)' /\ Writers(d)'
  BY DEF Pumps, Fresh, Writers, connVars, writeVars, hubVars, GiveUp, pumpVars
<1> QED BY <1>1, <1>2, <1>3 DEF Types, Pumps

LEMMA LeaveTypes ==
    ASSUME Types, Pumps, NEW c \in Client, Leave(c)
    PROVE  Types' /\ Pumps'
<1>1. ConnTypes'
  BY DEF Types, ConnTypes, connVars, writeVars, readVars, Leave
<1>2. HubTypes'
  BY DEF Types, HubTypes, Leave, Unregister
<1>3. PumpTypes'
  BY DEF Types, PumpTypes, Leave
<1>4. ASSUME NEW d \in Client PROVE Fresh(d)' /\ Writers(d)'
  <2>1. Fresh(d)'
    BY DEF Types, PumpTypes, Pumps, Fresh, connVars, writeVars, Leave, Unregister
  <2>2. Writers(d)'
    BY DEF Pumps, Writers, Leave, connVars, writeVars
  <2> QED BY <2>1, <2>2
<1> QED BY <1>1, <1>2, <1>3, <1>4 DEF Types, Pumps

LEMMA ReadPumpReturnsTypes ==
    ASSUME Types, Pumps, NEW c \in Client, ReadPumpReturns(c)
    PROVE  Types' /\ Pumps'
<1>1. ConnTypes'
  BY DEF Types, ConnTypes, writeVars, readVars, ReadPumpReturns
<1>2. HubTypes'
  BY DEF Types, HubTypes, ReadPumpReturns, hubVars
<1>3. PumpTypes'
  BY DEF Types, PumpTypes, ReadPumpReturns
<1>4. ASSUME NEW d \in Client PROVE Fresh(d)' /\ Writers(d)'
  <2>1. Fresh(d)'
    BY DEF Types, ConnTypes, PumpTypes, Pumps, Fresh, writeVars, ReadPumpReturns, hubVars
  <2>2. Writers(d)'
    BY DEF Pumps, Writers, ReadPumpReturns, writeVars
  <2> QED BY <2>1, <2>2
<1> QED BY <1>1, <1>2, <1>3, <1>4 DEF Types, Pumps

LEMMA BrowserLeavesTypes ==
    ASSUME Types, Pumps, NEW c \in Client, BrowserLeaves(c)
    PROVE  Types' /\ Pumps'
<1>1. ConnTypes'
  BY DEF Types, ConnTypes, writeVars, readVars, BrowserLeaves
<1>2. HubTypes' /\ PumpTypes'
  BY DEF Types, HubTypes, PumpTypes, BrowserLeaves, hubVars, pumpVars
<1>3. ASSUME NEW d \in Client PROVE Fresh(d)' /\ Writers(d)'
  BY DEF Types, ConnTypes, Pumps, Fresh, Writers, writeVars, hubVars, pumpVars, BrowserLeaves
<1> QED BY <1>1, <1>2, <1>3 DEF Types, Pumps

-----------------------------------------------------------------------------
\* What is written: the order of the frames, and what was to be sent.

\* Between messages the last one is finished, and within one a frame of it continues
\* what is on the wire.
Orderly(w, err, op, pc) ==
    /\ Ordered(w)
    /\ err = "nil" =>
          /\ \A i \in DOMAIN w : w[i].op \notin {"close", "torn"}
          /\ pc = "write" => (op = "cont" <=> Unfinished(w))
          /\ pc \in {"none", "select"} => ~ Unfinished(w)

\* What a browser is to get, what was written of it, and what waits in the writer and
\* in the channel.
Due(c) == FlattenSeq(SubSeq(hubLog, since[c] + 1, Len(hubLog)))
Shown(c) == OfUsers(DataOf(wire[c]))
Pending(c) == OfUsers(writer[c].buf) \o OfUsers(todo[c]) \o FlattenSeq(send[c])

\* As long as it can be written, nothing is lost between what was shown and what waits;
\* and for a client of the hub nothing else is due.
Delivering(due, shown, pending, err, pc, registered) ==
    /\ \E rest \in Text : due = shown \o rest
    /\ err = "nil" /\ pc \in {"select", "write"} =>
          \E rest \in Text : due = (shown \o pending) \o rest /\ (registered => rest = <<>>)

OrderlyAt(c) == Orderly(wire[c], writeErr[c], writer[c].op, wp[c])
DeliversAt(c) == Delivering(Due(c), Shown(c), Pending(c), writeErr[c], wp[c], c \in clients)
Written == \A c \in Client : OrderlyAt(c) /\ DeliversAt(c)

LEMMA ShownType ==
    ASSUME Types, NEW c \in Client
    PROVE  /\ Shown(c) \in Text /\ Pending(c) \in Text /\ Due(c) \in Text
           /\ OfUsers(writer[c].buf) \in Text /\ OfUsers(todo[c]) \in Text
           /\ FlattenSeq(send[c]) \in Text
<1>1. wire[c] \in OnWire /\ writer[c] \in Writer /\ todo[c] \in Content /\ send[c] \in Texts
  BY DEF Types, ConnTypes, HubTypes, PumpTypes
<1>2. DataOf(wire[c]) \in Content
  BY <1>1, DataType DEF OnWire, Content
<1>3. Shown(c) \in Text
  BY <1>2, UsersType DEF Shown, Content, Text
<1>4. OfUsers(writer[c].buf) \in Text /\ OfUsers(todo[c]) \in Text
  BY <1>1, UsersType DEF Writer, Content, Text
<1>5. FlattenSeq(send[c]) \in Text
  BY <1>1, Sets
<1>6. Pending(c) \in Text
  <2>1. \A s, t \in Text : s \o t \in Text
    BY ConcatProperties DEF Text
  <2> QED BY <1>4, <1>5, <2>1 DEF Pending
<1>7. Due(c) \in Text
  <2>1. PICK Q : Q = Seq(Unit)
    OBVIOUS
  <2>2. hubLog \in Seq(Q) /\ since[c] \in Nat
    BY <2>1 DEF Types, HubTypes, Texts
  <2>3. PICK m \in Int, n \in Int : m = since[c] + 1 /\ n = Len(hubLog)
    BY <2>2
  <2>4. \A i \in m .. n : hubLog[i] \in Q
    BY <2>2, <2>3
  <2>5. SubSeq(hubLog, m, n) \in Seq(Q)
    BY <2>4, SubSeqProperties
  <2>6. SubSeq(hubLog, since[c] + 1, Len(hubLog)) \in Texts
    BY <2>1, <2>3, <2>5 DEF Texts
  <2> QED BY <2>6, Sets DEF Due
<1> QED BY <1>3, <1>4, <1>5, <1>6, <1>7

\* Sequences over units, put together.
LEMMA TextCat ==
    /\ \A s, t \in Text : s \o t \in Text
    /\ \A s, t, u \in Text : (s \o t) \o u = s \o (t \o u)
    /\ \A s \in Text : s \o <<>> = s /\ <<>> \o s = s
<1>1. Strings(Text)
  BY SequencesAreStrings DEF Text
<1> QED BY <1>1 DEF Strings

\* Nothing more will be written.
LEMMA StopsDelivering ==
    ASSUME NEW due, NEW shown, NEW pending, NEW err, NEW pc, NEW registered,
           Delivering(due, shown, pending, err, pc, registered),
           NEW pending2, NEW err2, NEW pc2, NEW registered2,
           err2 # "nil" \/ pc2 \notin {"select", "write"}
    PROVE  Delivering(due, shown, pending2, err2, pc2, registered2)
BY DEF Delivering

\* What was written and what waits are together what they were.
LEMMA GoesOnDelivering ==
    ASSUME NEW due, NEW shown, NEW pending, NEW pc \in {"select", "write"}, NEW registered,
           Delivering(due, shown, pending, "nil", pc, registered),
           NEW shown2 \in Text, NEW pending2 \in Text, shown2 \o pending2 = shown \o pending,
           NEW err2, NEW pc2
    PROVE  Delivering(due, shown2, pending2, err2, pc2, registered)
<1>1. PICK rest \in Text : due = (shown \o pending) \o rest /\ (registered => rest = <<>>)
  BY DEF Delivering
<1>2. due = (shown2 \o pending2) \o rest
  BY <1>1
<1>3. due = shown2 \o (pending2 \o rest) /\ pending2 \o rest \in Text
  BY <1>2, TextCat
<1> QED BY <1>1, <1>2, <1>3 DEF Delivering

\* The hub took a message: it waits in the channel, or the browser is not registered.
LEMMA HubDelivers ==
    ASSUME NEW due, NEW shown \in Text, NEW pending \in Text, NEW err, NEW pc, NEW registered,
           Delivering(due, shown, pending, err, pc, registered), NEW m \in Text,
           NEW pending2, NEW registered2,
           \/ registered /\ pending2 = pending \o m
           \/ pending2 = pending /\ ~ registered2
    PROVE  Delivering(due \o m, shown, pending2, err, pc, registered2)
<1>1. \E rest \in Text : due \o m = shown \o rest
  <2>1. PICK rest \in Text : due = shown \o rest
    BY DEF Delivering
  <2>2. due \o m = shown \o (rest \o m) /\ rest \o m \in Text
    BY <2>1, TextCat
  <2> QED BY <2>2
<1>2. ASSUME err = "nil", pc \in {"select", "write"}
      PROVE  \E rest \in Text :
                due \o m = (shown \o pending2) \o rest /\ (registered2 => rest = <<>>)
  <2>1. PICK rest \in Text : due = (shown \o pending) \o rest /\ (registered => rest = <<>>)
    BY <1>2 DEF Delivering
  <2>2. shown \o pending \in Text
    BY TextCat
  <2>3. CASE registered /\ pending2 = pending \o m
    <3>1. due = shown \o pending
      BY <2>1, <2>2, <2>3, TextCat
    <3>2. due \o m = shown \o (pending \o m) /\ pending \o m \in Text
      BY <3>1, TextCat
    <3>3. shown \o (pending \o m) \in Text /\ <<>> \in Text
      BY <3>2, TextCat, Sets
    <3>4. due \o m = (shown \o pending2) \o <<>>
      BY <2>3, <3>2, <3>3, TextCat
    <3> QED BY <3>3, <3>4
  <2>4. CASE pending2 = pending /\ ~ registered2
    <3>1. due \o m = (shown \o pending) \o (rest \o m) /\ rest \o m \in Text
      BY <2>1, <2>2, TextCat
    <3> QED BY <2>4, <3>1
  <2> QED BY <2>3, <2>4
<1> QED BY <1>1, <1>2 DEF Delivering

\* A control frame goes between the frames of a message, and nothing after a close.
LEMMA ControlOrdered ==
    ASSUME Types, NEW c \in Client, OrderlyAt(c),
           NEW op \in {"close", "ping", "pong"}, NEW o \in Outcome(c, op)
    PROVE  /\ Orderly(o.wire, o.err, writer[c].op, wp[c])
           /\ OfUsers(DataOf(o.wire)) = Shown(c)
<1>1. PICK w \in OnWire : w = wire[c]
  BY DEF Types, ConnTypes
<1>2. ASSUME NEW x \in {"close", "ping", "pong", "torn"}, writeErr[c] = "nil"
      PROVE  /\ Ordered(Append(w, Frame(x, TRUE, <<>>)))
             /\ Unfinished(Append(w, Frame(x, TRUE, <<>>))) <=> Unfinished(w)
             /\ DataOf(Append(w, Frame(x, TRUE, <<>>))) = DataOf(w)
             /\ x \in {"ping", "pong"} =>
                   \A i \in DOMAIN Append(w, Frame(x, TRUE, <<>>)) :
                      Append(w, Frame(x, TRUE, <<>>))[i].op \notin {"close", "torn"}
  <2>1. PICK f \in FrameOf(AnyUnit) : f = Frame(x, TRUE, <<>>)
    BY FrameTypes
  <2>2. f.op = x /\ f.op \notin Data
    BY <2>1 DEF Frame, Data
  <2>3. Ordered(w) /\ \A i \in DOMAIN w : w[i].op \notin {"close", "torn"}
    BY <1>1, <1>2 DEF OrderlyAt, Orderly
  <2>4. Ordered(Append(w, f))
    BY <2>2, <2>3, OrderedAppend DEF OnWire
  <2>5. Unfinished(Append(w, f)) <=> Unfinished(w)
    BY <2>2, UnfinishedAppend DEF OnWire
  <2>6. DataOf(Append(w, f)) = DataOf(w)
    <3>1. DataOf(Append(w, f)) = DataOf(w) \o <<>>
      BY <2>2, DataAppend DEF OnWire, Carried
    <3>2. DataOf(w) \in Seq(AnyUnit)
      BY DataType DEF OnWire
    <3> QED BY <3>1, <3>2, ConcatEmptySeq
  <2>7. x \in {"ping", "pong"} =>
            \A i \in DOMAIN Append(w, f) : Append(w, f)[i].op \notin {"close", "torn"}
    BY <2>2, <2>3, AppendProperties DEF OnWire
  <2> QED BY <2>1, <2>4, <2>5, <2>6, <2>7
<1>3. \/ o.wire = w /\ (o.err = "nil" => writeErr[c] = "nil")
      \/ /\ writeErr[c] = "nil" /\ o.wire = Append(w, Frame(op, TRUE, <<>>))
         /\ o.err = IF op = "close" THEN "ErrCloseSent" ELSE "nil"
      \/ /\ writeErr[c] = "nil" /\ o.wire = Append(w, Frame("torn", TRUE, <<>>))
         /\ o.err # "nil"
  BY <1>1, ControlTypes DEF Types
<1>4. Orderly(w, writeErr[c], writer[c].op, wp[c]) /\ Shown(c) = OfUsers(DataOf(w))
  BY <1>1 DEF OrderlyAt, Shown
<1>5. CASE o.wire = w /\ (o.err = "nil" => writeErr[c] = "nil")
  BY <1>4, <1>5 DEF Orderly
<1>6. CASE /\ writeErr[c] = "nil" /\ o.wire = Append(w, Frame(op, TRUE, <<>>))
           /\ o.err = IF op = "close" THEN "ErrCloseSent" ELSE "nil"
  <2>1. o.err = "nil" => op \in {"ping", "pong"}
    BY <1>6
  <2> QED BY <1>2, <1>4, <1>6, <2>1 DEF Orderly
<1>7. CASE /\ writeErr[c] = "nil" /\ o.wire = Append(w, Frame("torn", TRUE, <<>>))
           /\ o.err # "nil"
  BY <1>2, <1>4, <1>7 DEF Orderly
<1> QED BY <1>3, <1>5, <1>6, <1>7

\* A frame of the message that is written.
LEMMA DataOrdered ==
    ASSUME Types, NEW c \in Client, OrderlyAt(c), wp[c] = "write", writer[c].op \in Data,
           NEW fin \in BOOLEAN, NEW data \in Content,
           NEW o \in write(c, Frame(writer[c].op, fin, data))
    PROVE  /\ o.wire \in OnWire /\ o.err \in {"nil", "ErrCloseSent", "failed"} /\ o.ok \in BOOLEAN
           /\ o.ok =>
                 /\ writeErr[c] = "nil" /\ o.err = "nil"
                 /\ OfUsers(DataOf(o.wire)) = Shown(c) \o OfUsers(data)
                 /\ fin => Orderly(o.wire, "nil", "closed", "select")
                 /\ ~ fin => Orderly(o.wire, "nil", "cont", "write")
           /\ ~ o.ok =>
                 /\ o.err # "nil" /\ OfUsers(DataOf(o.wire)) = Shown(c)
                 /\ \A op, pc : Orderly(o.wire, o.err, op, pc)
<1>1. PICK w \in OnWire : w = wire[c]
  BY DEF Types, ConnTypes
<1>2. PICK f \in FrameOf(AnyUnit) : f = Frame(writer[c].op, fin, data)
  BY FrameTypes
<1>3. f.op = writer[c].op /\ f.op \in Data /\ (f.fin <=> fin) /\ f.data = data /\ f.op # "close"
  BY <1>2 DEF Frame, Data
<1>4. PICK x \in FrameOf(AnyUnit) : x = Frame("torn", TRUE, <<>>)
  BY FrameTypes
<1>5. /\ o.wire \in OnWire /\ o.err \in {"nil", "ErrCloseSent", "failed"} /\ o.ok \in BOOLEAN
      /\ \/ o.ok /\ writeErr[c] = "nil" /\ o.wire = Append(w, f) /\ o.err = "nil"
         \/ /\ ~ o.ok /\ o.err # "nil"
            /\ o.wire = w \/ (writeErr[c] = "nil" /\ o.wire = Append(w, x))
  <2>1. o \in write(c, f) /\ ConnTypes
    BY <1>2 DEF Types
  <2>2. /\ o.wire \in OnWire /\ o.err \in {"nil", "ErrCloseSent", "failed"} /\ o.ok \in BOOLEAN
        /\ \/ /\ o.ok /\ writeErr[c] = "nil" /\ o.wire = Append(wire[c], f)
              /\ o.err = IF f.op = "close" THEN "ErrCloseSent" ELSE "nil"
           \/ /\ ~ o.ok /\ o.err # "nil"
              /\ \/ o.wire = wire[c]
                 \/ writeErr[c] = "nil" /\ o.wire = Append(wire[c], Frame("torn", TRUE, <<>>))
    BY <2>1, WriteTypes
  <2> QED BY <1>1, <1>3, <1>4, <2>2
<1>6. Orderly(w, writeErr[c], writer[c].op, "write") /\ Shown(c) = OfUsers(DataOf(w))
  BY <1>1 DEF OrderlyAt, Shown
<1>7. DataOf(w) \in Content
  BY DataType DEF OnWire, Content
<1>8. CASE o.ok
  <2>1. writeErr[c] = "nil" /\ o.wire = Append(w, f) /\ o.err = "nil"
    BY <1>5, <1>8
  <2>2. /\ Ordered(w) /\ \A i \in DOMAIN w : w[i].op \notin {"close", "torn"}
        /\ writer[c].op = "cont" <=> Unfinished(w)
    BY <1>6, <2>1 DEF Orderly
  <2>3. f.op = "text" <=> ~ Unfinished(w)
    BY <1>3, <2>2 DEF Data
  <2>4. Ordered(Append(w, f))
    BY <2>2, <2>3, OrderedAppend DEF OnWire
  <2>5. Unfinished(Append(w, f)) <=> ~ fin
    BY <1>3, UnfinishedAppend DEF OnWire
  <2>6. \A i \in DOMAIN Append(w, f) : Append(w, f)[i].op \notin {"close", "torn"}
    BY <1>3, <2>2, AppendProperties DEF OnWire, Data
  <2>7. OfUsers(DataOf(Append(w, f))) = OfUsers(DataOf(w)) \o OfUsers(data)
    <3>1. DataOf(Append(w, f)) = DataOf(w) \o data
      BY <1>3, DataAppend DEF OnWire, Carried
    <3> QED BY <1>7, <3>1, UsersCat DEF Content
  <2>8. fin => Orderly(o.wire, "nil", "closed", "select")
    BY <2>1, <2>4, <2>5, <2>6 DEF Orderly
  <2>9. ~ fin => Orderly(o.wire, "nil", "cont", "write")
    BY <2>1, <2>4, <2>5, <2>6 DEF Orderly
  <2> QED BY <1>5, <1>6, <1>8, <2>1, <2>7, <2>8, <2>9
<1>9. CASE ~ o.ok
  <2>1. o.err # "nil" /\ (o.wire = w \/ (writeErr[c] = "nil" /\ o.wire = Append(w, x)))
    BY <1>5, <1>9
  <2>2. ASSUME writeErr[c] = "nil"
        PROVE  Ordered(Append(w, x)) /\ DataOf(Append(w, x)) = DataOf(w)
    <3>1. x.op = "torn" /\ x.op \notin Data
      BY <1>4 DEF Frame, Data
    <3>2. Ordered(w) /\ \A i \in DOMAIN w : w[i].op \notin {"close", "torn"}
      BY <1>6, <2>2 DEF Orderly
    <3>3. Ordered(Append(w, x))
      BY <3>1, <3>2, OrderedAppend DEF OnWire
    <3>4. DataOf(Append(w, x)) = DataOf(w) \o <<>>
      BY <3>1, DataAppend DEF OnWire, Carried
    <3> QED BY <1>7, <3>3, <3>4, ConcatEmptySeq DEF Content
  <2>3. Ordered(w)
    BY <1>6 DEF Orderly
  <2>4. Ordered(o.wire) /\ DataOf(o.wire) = DataOf(w)
    BY <2>1, <2>2, <2>3
  <2>5. \A op, pc : Orderly(o.wire, o.err, op, pc)
    BY <2>1, <2>4 DEF Orderly
  <2> QED BY <1>5, <1>6, <1>9, <2>1, <2>4, <2>5
<1> QED BY <1>5, <1>8, <1>9

\* What a step of writePump of browser c leaves alone.
LEMMA WritePumpStep ==
    ASSUME Types, Pumps, Written, NEW c \in Client, wp[c] # "none",
           UNCHANGED <<readVars, clients, hubLog, since, sendClosed, rp>>,
           net' \in [Client -> {"none", "open", "left", "closed"}],
           wire' \in [Client -> OnWire],
           writeErr' \in [Client -> {"nil", "ErrCloseSent", "failed"}],
           writer' \in [Client -> Writer], Len(writer'[c].buf) <= BufSize,
           send' \in [Client -> Texts], Len(send'[c]) <= SendCap,
           wp' \in [Client -> {"none", "select", "write", "returned"}],
           todo' \in [Client -> Content], queued' \in [Client -> BOOLEAN],
           results' \in [Client -> Nat], pings' \in [Client -> Nat], exited' \in BOOLEAN,
           net'[c] \in {net[c], "closed"},
           \A d \in Client \ {c} :
              /\ net'[d] = net[d] /\ wire'[d] = wire[d] /\ writeErr'[d] = writeErr[d]
              /\ writer'[d] = writer[d] /\ send'[d] = send[d]
              /\ wp'[d] = wp[d] /\ todo'[d] = todo[d],
           Writers(c)', OrderlyAt(c)', DeliversAt(c)'
    PROVE  Types' /\ Pumps' /\ Written'
<1>1. ConnTypes'
  BY DEF Types, ConnTypes, readVars
<1>2. HubTypes'
  <2>1. \A d \in Client : Len(send'[d]) <= SendCap
    BY DEF Types, HubTypes
  <2> QED BY <2>1 DEF Types, HubTypes
<1>3. PumpTypes'
  BY DEF Types, PumpTypes
<1>4. net[c] # "none"
  BY DEF Pumps, Fresh
<1>5. ASSUME NEW d \in Client
      PROVE  Fresh(d)' /\ Writers(d)' /\ OrderlyAt(d)' /\ DeliversAt(d)'
  <2>1. CASE d = c
    <3>1. Fresh(c)'
      BY <1>4 DEF Fresh
    <3> QED BY <2>1, <3>1
  <2>2. CASE d # c
    <3>1. /\ net'[d] = net[d] /\ wire'[d] = wire[d] /\ writeErr'[d] = writeErr[d]
          /\ writer'[d] = writer[d] /\ send'[d] = send[d] /\ wp'[d] = wp[d] /\ todo'[d] = todo[d]
      BY <2>2
    <3>2. Fresh(d) /\ Writers(d) /\ OrderlyAt(d) /\ DeliversAt(d)
      BY DEF Pumps, Written
    <3>3. Fresh(d)' /\ Writers(d)'
      BY <3>1, <3>2 DEF Fresh, Writers
    <3>4. OrderlyAt(d)'
      BY <3>1, <3>2 DEF OrderlyAt
    <3>5. DeliversAt(d)'
      BY <3>1, <3>2 DEF DeliversAt, Due, Shown, Pending
    <3> QED BY <3>3, <3>4, <3>5
  <2> QED BY <2>1, <2>2
<1> QED BY <1>1, <1>2, <1>3, <1>5 DEF Types, Pumps, Written

\* A message is begun, or writePump returns: of the channel, which gave the message,
\* the rest is left.
LEMMA BeginStep ==
    ASSUME Types, Pumps, Written, NEW c \in Client, wp[c] = "select",
           NEW msg \in Content, NEW alone \in BOOLEAN, Begin(c, msg, alone),
           UNCHANGED <<wire, writeErr, readVars, clients, hubLog, since, sendClosed, rp, pings>>,
           send' \in [Client -> Texts], Len(send'[c]) <= SendCap,
           \A d \in Client \ {c} : send'[d] = send[d],
           OfUsers(msg) \o FlattenSeq(send'[c]) = FlattenSeq(send[c]),
           results' \in [Client -> Nat], exited' \in BOOLEAN
    PROVE  Types' /\ Pumps' /\ Written'
<1>1. writer[c] = Closed /\ todo[c] = <<>> /\ OrderlyAt(c) /\ DeliversAt(c)
  BY DEF Pumps, Writers, Written
<1>2. /\ writer \in [Client -> Writer] /\ wp \in [Client -> {"none", "select", "write", "returned"}]
      /\ todo \in [Client -> Content] /\ queued \in [Client -> BOOLEAN]
      /\ net \in [Client -> {"none", "open", "left", "closed"}] /\ wire \in [Client -> OnWire]
      /\ writeErr \in [Client -> {"nil", "ErrCloseSent", "failed"}] /\ pings \in [Client -> Nat]
      /\ Len(writer[c].buf) <= BufSize
  BY DEF Types, ConnTypes, PumpTypes
<1>3. Due(c)' = Due(c) /\ Shown(c)' = Shown(c)
  BY DEF Due, Shown
<1>4. CASE writeErr[c] = "nil" /\ NextWriter(c)
           /\ todo' = [todo EXCEPT ![c] = msg] /\ queued' = [queued EXCEPT ![c] = alone]
           /\ wp' = [wp EXCEPT ![c] = "write"] /\ UNCHANGED net
  <2>1. PICK w \in Writer : w = [op |-> "text", buf |-> <<>>]
    BY Sets DEF Writer
  <2>2. w.op = "text" /\ w.buf = <<>> /\ Len(w.buf) <= BufSize
    BY <2>1, EmptySeq, WebSocketAssumption
  <2>3. writer' = [writer EXCEPT ![c] = w]
    BY <1>4, <2>1 DEF NextWriter
  <2>4. Writers(c)'
    BY <1>2, <1>4, <2>2, <2>3 DEF Writers, Data
  <2>5. OrderlyAt(c)'
    <3>1. writer'[c].op = "text" /\ wp'[c] = "write"
      BY <1>2, <1>4, <2>2, <2>3
    <3> QED BY <1>1, <3>1 DEF OrderlyAt, Orderly
  <2>6. DeliversAt(c)'
    <3>1. Pending(c) = FlattenSeq(send[c])
      <4>1. OfUsers(writer[c].buf) = <<>> /\ OfUsers(todo[c]) = <<>>
        BY <1>1, UsersEmpty DEF Closed
      <4>2. FlattenSeq(send[c]) \in Text /\ <<>> \in Text
        BY ShownType, Sets
      <4> QED BY <4>1, <4>2, TextCat DEF Pending
    <3>2. Pending(c)' = FlattenSeq(send[c])
      <4>1. writer'[c].buf = <<>> /\ todo'[c] = msg
        BY <1>2, <1>4, <2>2, <2>3
      <4>2. OfUsers(msg) \in Text
        BY UsersType DEF Content, Text
      <4>3. Pending(c)' = (OfUsers(<<>>) \o OfUsers(msg)) \o FlattenSeq(send'[c])
        BY <4>1 DEF Pending
      <4> QED BY <4>2, <4>3, UsersEmpty, TextCat
    <3>3. /\ Delivering(Due(c), Shown(c), Pending(c), "nil", "select", c \in clients)
          /\ Shown(c) \in Text /\ Pending(c) \in Text
      BY <1>1, <1>4, ShownType DEF DeliversAt
    <3>4. Delivering(Due(c), Shown(c), Pending(c)', writeErr'[c], wp'[c], c \in clients)
      BY <3>1, <3>2, <3>3, GoesOnDelivering
    <3> QED BY <1>3, <3>4 DEF DeliversAt
  <2> QED BY <1>2, <1>4, <2>2, <2>3, <2>4, <2>5, <2>6, WritePumpStep
<1>5. CASE writeErr[c] # "nil" /\ WritePumpReturns(c) /\ UNCHANGED <<writer, todo, queued>>
  <2>1. wp' = [wp EXCEPT ![c] = "returned"] /\ net' = [net EXCEPT ![c] = "closed"]
    BY <1>5 DEF WritePumpReturns
  <2>2. Writers(c)'
    BY <1>2, <2>1 DEF Writers
  <2>3. OrderlyAt(c)'
    BY <1>1, <1>5 DEF OrderlyAt, Orderly
  <2>4. DeliversAt(c)'
    <3>1. Delivering(Due(c), Shown(c), Pending(c)', writeErr'[c], wp'[c], c \in clients)
      BY <1>1, <1>5, StopsDelivering DEF DeliversAt
    <3> QED BY <1>3, <3>1 DEF DeliversAt
  <2> QED BY <1>2, <1>5, <2>1, <2>2, <2>3, <2>4, WritePumpStep
<1> QED BY <1>4, <1>5 DEF Begin

\* A frame was written, with whatever outcome, and the channel may have been emptied.
LEMMA FlushedStep ==
    ASSUME Types, Pumps, Written, NEW c \in Client, wp[c] = "write",
           UNCHANGED <<readVars, clients, hubLog, since, sendClosed, rp, results, pings, exited>>,
           NEW w \in OnWire, NEW err \in {"nil", "ErrCloseSent", "failed"},
           wire' = [wire EXCEPT ![c] = w], writeErr' = [writeErr EXCEPT ![c] = err],
           writer' \in [Client -> Writer], Len(writer'[c].buf) <= BufSize,
           todo' \in [Client -> Content], queued' \in [Client -> BOOLEAN],
           \A d \in Client \ {c} : writer'[d] = writer[d] /\ todo'[d] = todo[d],
           send' = send \/ send' = [send EXCEPT ![c] = <<>>],
           \/ wp' = wp /\ net' = net
           \/ wp' = [wp EXCEPT ![c] = "select"] /\ net' = net
           \/ wp' = [wp EXCEPT ![c] = "returned"] /\ net' = [net EXCEPT ![c] = "closed"],
           Writers(c)', OrderlyAt(c)', DeliversAt(c)'
    PROVE  Types' /\ Pumps' /\ Written'
<1>1. /\ wp \in [Client -> {"none", "select", "write", "returned"}]
      /\ net \in [Client -> {"none", "open", "left", "closed"}]
      /\ wire \in [Client -> OnWire] /\ send \in [Client -> Texts] /\ Len(send[c]) <= SendCap
      /\ writeErr \in [Client -> {"nil", "ErrCloseSent", "failed"}]
      /\ results \in [Client -> Nat] /\ pings \in [Client -> Nat] /\ exited \in BOOLEAN
  BY DEF Types, ConnTypes, HubTypes, PumpTypes
<1>2. /\ wp' \in [Client -> {"none", "select", "write", "returned"}]
      /\ net' \in [Client -> {"none", "open", "left", "closed"}]
      /\ net'[c] \in {net[c], "closed"}
      /\ \A d \in Client \ {c} : net'[d] = net[d] /\ wp'[d] = wp[d]
  BY <1>1
<1>3. /\ wire' \in [Client -> OnWire] /\ writeErr' \in [Client -> {"nil", "ErrCloseSent", "failed"}]
      /\ \A d \in Client \ {c} : wire'[d] = wire[d] /\ writeErr'[d] = writeErr[d]
  BY <1>1
<1>4. /\ send' \in [Client -> Texts] /\ Len(send'[c]) <= SendCap
      /\ \A d \in Client \ {c} : send'[d] = send[d]
  <2>1. PICK e \in Texts : e = <<>> /\ Len(e) <= SendCap
    BY Sets, EmptySeq, HubAssumption
  <2>2. send' = send \/ send' = [send EXCEPT ![c] = e]
    BY <2>1
  <2>3. CASE send' = send
    BY <1>1, <2>3
  <2>4. CASE send' = [send EXCEPT ![c] = e]
    <3>1. send'[c] = e /\ send' \in [Client -> Texts]
      BY <1>1, <2>4
    <3>2. \A d \in Client \ {c} : send'[d] = send[d]
      BY <1>1, <2>4
    <3> QED BY <2>1, <3>1, <3>2
  <2> QED BY <2>2, <2>3, <2>4
<1> QED BY <1>1, <1>2, <1>3, <1>4, WritePumpStep

LEMMA TakeMessageStep ==
    ASSUME Types, Pumps, Written, NEW c \in Client, TakeMessage(c)
    PROVE  Types' /\ Pumps' /\ Written'
<1>1. send \in [Client -> Texts] /\ send[c] # <<>> /\ Len(send[c]) <= SendCap
      /\ send' = [send EXCEPT ![c] = Tail(@)] /\ Begin(c, Head(send[c]), FALSE)
  BY DEF Types, HubTypes, TakeMessage
<1>2. Head(send[c]) \in Text /\ Tail(send[c]) \in Texts /\ Len(Tail(send[c])) <= SendCap
  <2>1. Len(send[c]) \in Nat /\ Len(Tail(send[c])) \in Nat /\ SendCap \in Nat
    BY <1>1, HeadOfTexts, Sets, HubAssumption
  <2> QED BY <1>1, <2>1, HeadOfTexts
<1>3. PICK t \in Texts : t = Tail(send[c])
  BY <1>2
<1>4. send' = [send EXCEPT ![c] = t]
  BY <1>1, <1>3
<1>5. OfUsers(Head(send[c])) \o FlattenSeq(t) = FlattenSeq(send[c])
  <2>1. OfUsers(Head(send[c])) = Head(send[c])
    BY <1>2, UsersOnly DEF Text
  <2>2. FlattenSeq(send[c]) = Head(send[c]) \o FlattenSeq(Tail(send[c]))
    BY <1>1, FlatHead DEF Texts
  <2> QED BY <1>3, <2>1, <2>2
<1>6. send' \in [Client -> Texts] /\ send'[c] = t /\ \A d \in Client \ {c} : send'[d] = send[d]
  BY <1>1, <1>4
<1>7. Head(send[c]) \in Content
  BY <1>2, Sets
<1>8. results' \in [Client -> Nat] /\ exited' \in BOOLEAN
  BY DEF Types, PumpTypes, TakeMessage
<1>9. wp[c] = "select" /\ UNCHANGED <<wire, writeErr, readVars, clients, hubLog, since, sendClosed,
                                      rp, pings>>
  BY DEF TakeMessage
<1> QED BY <1>1, <1>2, <1>3, <1>5, <1>6, <1>7, <1>8, <1>9, BeginStep

LEMMA TakeResultStep ==
    ASSUME Types, Pumps, Written, NEW c \in Client, TakeResult(c)
    PROVE  Types' /\ Pumps' /\ Written'
<1>1. results' \in [Client -> Nat]
  BY DEF Types, PumpTypes, TakeResult
<1>2. wp[c] = "select" /\ UNCHANGED <<wire, writeErr, readVars, hubVars, rp, pings>>
  BY DEF TakeResult
<1>3. CASE Begin(c, <<BankResult>>, TRUE) /\ UNCHANGED exited
  <2>1. PICK msg \in Content : msg = <<BankResult>>
    <3>1. PICK u \in AnyUnit : u = BankResult
      BY DEF AnyUnit
    <3>2. <<u>> \in Seq(AnyUnit)
      OBVIOUS
    <3> QED BY <3>1, <3>2 DEF Content
  <2>2. OfUsers(msg) = <<>>
    BY <2>1, UsersOfBank
  <2>3. send' = send /\ send \in [Client -> Texts] /\ Len(send[c]) <= SendCap
    BY <1>2 DEF hubVars, Types, HubTypes
  <2>4. FlattenSeq(send[c]) \in Text
    BY ShownType
  <2>5. OfUsers(msg) \o FlattenSeq(send'[c]) = FlattenSeq(send[c])
    BY <2>2, <2>3, <2>4, TextCat
  <2>6. exited' \in BOOLEAN /\ UNCHANGED <<clients, hubLog, since, sendClosed>>
    BY <1>2, <1>3 DEF hubVars, Types, PumpTypes
  <2> QED BY <1>1, <1>2, <1>3, <2>1, <2>3, <2>5, <2>6, BeginStep
<1>4. CASE exited' = TRUE /\ UNCHANGED <<net, writer, todo, queued, wp>>
  <2>1. Types'
    <3>1. ConnTypes' /\ HubTypes'
      BY <1>2, <1>4 DEF Types, ConnTypes, HubTypes, readVars, hubVars
    <3>2. PumpTypes'
      BY <1>1, <1>2, <1>4 DEF Types, PumpTypes
    <3> QED BY <3>1, <3>2 DEF Types
  <2>2. Pumps'
    BY <1>2, <1>4 DEF Pumps, Fresh, Writers, hubVars
  <2>3. Written'
    BY <1>2, <1>4 DEF Written, OrderlyAt, DeliversAt, Due, Shown, Pending, hubVars
  <2> QED BY <2>1, <2>2, <2>3
<1> QED BY <1>3, <1>4 DEF TakeResult

LEMMA FlushFullStep ==
    ASSUME Types, Pumps, Written, NEW c \in Client, FlushFull(c)
    PROVE  Types' /\ Pumps' /\ Written'
<1>1. PICK data : data = writer[c].buf \o todo[c]
  OBVIOUS
<1>2. PICK o \in write(c, Frame(writer[c].op, FALSE, SubSeq(data, 1, BufSize))) :
          /\ flushFrame(c, FALSE, SubSeq(data, 1, BufSize), o)
          /\ todo' = [todo EXCEPT ![c] = IF o.ok THEN SubSeq(data, BufSize + 1, Len(data)) ELSE <<>>]
  BY <1>1 DEF FlushFull
<1>3. /\ wp[c] = "write" /\ Len(data) > BufSize
      /\ UNCHANGED <<net, readVars, hubVars, rp, wp, queued, results, pings, exited>>
  BY <1>1 DEF FlushFull
<1>4. writer[c].op \in Data /\ OrderlyAt(c) /\ DeliversAt(c)
  BY <1>3 DEF Pumps, Writers, Written
<1>5. /\ writer \in [Client -> Writer] /\ todo \in [Client -> Content] /\ wire \in [Client -> OnWire]
      /\ writeErr \in [Client -> {"nil", "ErrCloseSent", "failed"}]
      /\ Len(writer[c].buf) <= BufSize
  BY DEF Types, ConnTypes, PumpTypes
<1>6. writer[c].buf \in Content /\ todo[c] \in Content /\ data \in Content
  BY <1>1, <1>5, Sets DEF Writer
<1>7. PICK a \in Content, b \in Content :
          a = SubSeq(data, 1, BufSize) /\ b = SubSeq(data, BufSize + 1, Len(data)) /\ a \o b = data
  BY <1>3, <1>6, Cut
<1>8. o \in write(c, Frame(writer[c].op, FALSE, a))
  BY <1>7
<1>9. /\ wire' = [wire EXCEPT ![c] = o.wire] /\ writeErr' = [writeErr EXCEPT ![c] = o.err]
      /\ todo' = [todo EXCEPT ![c] = IF o.ok THEN b ELSE <<>>]
      /\ writer' = [writer EXCEPT ![c] = IF ~o.ok THEN @ ELSE [op |-> "cont", buf |-> <<>>]]
  BY <1>2, <1>7 DEF flushFrame, Wrote
<1>10. /\ o.wire \in OnWire /\ o.err \in {"nil", "ErrCloseSent", "failed"} /\ o.ok \in BOOLEAN
       /\ o.ok =>
             /\ writeErr[c] = "nil" /\ o.err = "nil"
             /\ OfUsers(DataOf(o.wire)) = Shown(c) \o OfUsers(a)
             /\ Orderly(o.wire, "nil", "cont", "write")
       /\ ~ o.ok =>
             /\ o.err # "nil" /\ OfUsers(DataOf(o.wire)) = Shown(c)
             /\ \A op, pc : Orderly(o.wire, o.err, op, pc)
  BY <1>3, <1>4, <1>8, DataOrdered
<1>11. wire'[c] = o.wire /\ writeErr'[c] = o.err /\ Shown(c)' = OfUsers(DataOf(o.wire))
       /\ Due(c)' = Due(c)
  <2>1. wire'[c] = o.wire /\ writeErr'[c] = o.err
    BY <1>5, <1>9
  <2> QED BY <1>3, <2>1 DEF Shown, Due, hubVars
<1>12. queued' \in [Client -> BOOLEAN] /\ send' = send /\ UNCHANGED <<clients, hubLog, since, sendClosed>>
  BY <1>3 DEF hubVars, Types, PumpTypes
<1>13. CASE o.ok
  <2>1. PICK w \in Writer : w = [op |-> "cont", buf |-> <<>>]
    BY Sets DEF Writer
  <2>2. w.op = "cont" /\ w.buf = <<>> /\ Len(w.buf) <= BufSize
    BY <2>1, EmptySeq, WebSocketAssumption
  <2>3. writer' = [writer EXCEPT ![c] = w] /\ todo' = [todo EXCEPT ![c] = b]
    BY <1>9, <1>13, <2>1
  <2>4. writer'[c] = w /\ todo'[c] = b
    BY <1>5, <2>3
  <2>5. Writers(c)' /\ OrderlyAt(c)'
    BY <1>3, <1>10, <1>11, <1>13, <2>2, <2>4 DEF Writers, Data, OrderlyAt
  <2>6. DeliversAt(c)'
    <3>1. OfUsers(data) = OfUsers(writer[c].buf) \o OfUsers(todo[c])
      BY <1>1, <1>6, UsersCat DEF Content
    <3>2. OfUsers(data) = OfUsers(a) \o OfUsers(b)
      BY <1>7, UsersCat DEF Content
    <3>3. Pending(c) = (OfUsers(a) \o OfUsers(b)) \o FlattenSeq(send[c])
      BY <3>1, <3>2 DEF Pending
    <3>4. /\ OfUsers(a) \in Text /\ OfUsers(b) \in Text /\ FlattenSeq(send[c]) \in Text
          /\ Shown(c) \in Text /\ Pending(c) \in Text
      BY <1>7, UsersType, ShownType DEF Content, Text
    <3>5. Pending(c)' = OfUsers(b) \o FlattenSeq(send[c])
      <4>1. Pending(c)' = (OfUsers(<<>>) \o OfUsers(b)) \o FlattenSeq(send[c])
        BY <1>3, <2>2, <2>4 DEF Pending, hubVars
      <4>2. OfUsers(<<>>) \o OfUsers(b) = OfUsers(b)
        BY <3>4, UsersEmpty, TextCat
      <4> QED BY <4>1, <4>2
    <3>6. Shown(c)' = Shown(c) \o OfUsers(a)
      BY <1>10, <1>11, <1>13
    <3>7. Shown(c)' \o Pending(c)' = Shown(c) \o Pending(c)
      <4>1. PICK s \in Text, x \in Text, y \in Text, z \in Text :
                s = Shown(c) /\ x = OfUsers(a) /\ y = OfUsers(b) /\ z = FlattenSeq(send[c])
        BY <3>4
      <4>2. Shown(c)' \o Pending(c)' = (s \o x) \o (y \o z)
        BY <3>5, <3>6, <4>1
      <4>3. Shown(c) \o Pending(c) = s \o ((x \o y) \o z)
        BY <3>3, <4>1
      <4>4. (s \o x) \o (y \o z) = s \o ((x \o y) \o z)
        BY TextCat
      <4> QED BY <4>2, <4>3, <4>4, Zenon
    <3>8. Shown(c)' \in Text /\ Pending(c)' \in Text
      BY <3>4, <3>5, <3>6, TextCat
    <3>9. Delivering(Due(c), Shown(c), Pending(c), "nil", "write", c \in clients)
      BY <1>3, <1>4, <1>10, <1>13 DEF DeliversAt
    <3>10. Delivering(Due(c), Shown(c)', Pending(c)', writeErr'[c], wp'[c], c \in clients)
      BY <3>7, <3>8, <3>9, GoesOnDelivering
    <3> QED BY <1>3, <1>11, <3>10 DEF DeliversAt, hubVars
  <2>7. /\ writer' \in [Client -> Writer] /\ todo' \in [Client -> Content]
        /\ \A d \in Client \ {c} : writer'[d] = writer[d] /\ todo'[d] = todo[d]
    BY <1>5, <2>3
  <2>8. Len(writer'[c].buf) <= BufSize
    BY <2>2, <2>4
  <2> QED BY <1>3, <1>9, <1>10, <1>12, <2>5, <2>6, <2>7, <2>8, FlushedStep
<1>14. CASE ~ o.ok
  <2>1. writer' = writer /\ todo' = [todo EXCEPT ![c] = <<>>]
    BY <1>5, <1>9, <1>14
  <2>2. Writers(c)' /\ OrderlyAt(c)'
    BY <1>3, <1>4, <1>10, <1>11, <1>14, <2>1 DEF Writers, OrderlyAt
  <2>3. DeliversAt(c)'
    <3>1. Delivering(Due(c), Shown(c), Pending(c)', writeErr'[c], wp'[c], c \in clients)
      BY <1>4, <1>10, <1>11, <1>14, StopsDelivering DEF DeliversAt
    <3> QED BY <1>3, <1>10, <1>11, <1>14, <3>1 DEF DeliversAt, hubVars
  <2>4. todo' \in [Client -> Content] /\ \A d \in Client \ {c} : todo'[d] = todo[d]
    BY <1>5, <2>1, Sets
  <2>5. writer' \in [Client -> Writer] /\ Len(writer'[c].buf) <= BufSize
    BY <1>5, <2>1
  <2>6. \A d \in Client \ {c} : writer'[d] = writer[d] /\ todo'[d] = todo[d]
    BY <2>1, <2>4
  <2> QED BY <1>3, <1>9, <1>10, <1>12, <2>2, <2>3, <2>4, <2>5, <2>6, FlushedStep
<1> QED BY <1>10, <1>13, <1>14

LEMMA FinishMessageStep ==
    ASSUME Types, Pumps, Written, NEW c \in Client, FinishMessage(c)
    PROVE  Types' /\ Pumps' /\ Written'
<1>1. PICK data, waiting : /\ data = writer[c].buf \o todo[c]
                           /\ waiting = IF queued[c] THEN <<>> ELSE FlattenSeq(send[c])
  OBVIOUS
<1>2. /\ writer \in [Client -> Writer] /\ todo \in [Client -> Content] /\ wire \in [Client -> OnWire]
      /\ writeErr \in [Client -> {"nil", "ErrCloseSent", "failed"}]
      /\ Len(writer[c].buf) <= BufSize /\ send \in [Client -> Texts]
      /\ queued \in [Client -> BOOLEAN] /\ wp \in [Client -> {"none", "select", "write", "returned"}]
  BY DEF Types, ConnTypes, HubTypes, PumpTypes
<1>3. /\ wp[c] = "write" /\ Len(data) <= BufSize
      /\ UNCHANGED <<readVars, clients, hubLog, since, sendClosed, rp, results, pings, exited>>
      /\ send' = IF queued[c] THEN send ELSE [send EXCEPT ![c] = <<>>]
      /\ \/ /\ Len(data \o waiting) > BufSize
            /\ writer' = [writer EXCEPT ![c].buf = data]
            /\ todo' = [todo EXCEPT ![c] = waiting]
            /\ queued' = [queued EXCEPT ![c] = TRUE]
            /\ UNCHANGED <<net, wire, writeErr, wp>>
         \/ CloseWriter(c, data \o waiting)
  BY <1>1, Zenon DEF FinishMessage
<1>4. writer[c].op \in Data /\ OrderlyAt(c) /\ DeliversAt(c)
  BY <1>3 DEF Pumps, Writers, Written
<1>5. writer[c].buf \in Content /\ todo[c] \in Content /\ send[c] \in Texts
  BY <1>2 DEF Writer
<1>6. FlattenSeq(send[c]) \in Text /\ waiting \in Text
  BY <1>1, <1>5, Sets
<1>7. data \in Content /\ waiting \in Content /\ data \o waiting \in Content
  BY <1>1, <1>5, <1>6, Sets
<1>8. /\ FlattenSeq(send'[c]) \in Text
      /\ OfUsers(waiting) \o FlattenSeq(send'[c]) = FlattenSeq(send[c])
  <2>1. CASE queued[c]
    <3>1. waiting = <<>> /\ send' = send
      BY <1>1, <1>3, <2>1
    <3> QED BY <1>6, <3>1, UsersEmpty, TextCat
  <2>2. CASE ~ queued[c]
    <3>1. waiting = FlattenSeq(send[c]) /\ send'[c] = <<>>
      BY <1>1, <1>2, <1>3, <2>2
    <3>2. OfUsers(waiting) = waiting
      BY <1>6, UsersOnly DEF Text
    <3>3. FlattenSeq(send'[c]) = <<>> /\ <<>> \in Text
      BY <3>1, FlatEmpty, Sets
    <3> QED BY <1>6, <3>1, <3>2, <3>3, TextCat
  <2> QED BY <2>1, <2>2
<1>9. /\ OfUsers(data) \in Text /\ OfUsers(waiting) \in Text /\ Shown(c) \in Text /\ Pending(c) \in Text
      /\ Pending(c) = OfUsers(data) \o FlattenSeq(send[c])
  <2>1. OfUsers(data) = OfUsers(writer[c].buf) \o OfUsers(todo[c])
    BY <1>1, <1>5, UsersCat DEF Content
  <2> QED BY <1>7, <2>1, UsersType, ShownType DEF Content, Text, Pending
<1>10. (OfUsers(data) \o OfUsers(waiting)) \o FlattenSeq(send'[c]) = Pending(c)
  <2>1. (OfUsers(data) \o OfUsers(waiting)) \o FlattenSeq(send'[c]) =
            OfUsers(data) \o (OfUsers(waiting) \o FlattenSeq(send'[c]))
    BY <1>8, <1>9, TextCat
  <2> QED BY <1>8, <1>9, <2>1
<1>11. Due(c)' = Due(c) /\ (send' = send \/ send' = [send EXCEPT ![c] = <<>>])
  BY <1>3 DEF Due
<1>12. ASSUME writer' = [writer EXCEPT ![c].buf = data], todo' = [todo EXCEPT ![c] = waiting],
              queued' = [queued EXCEPT ![c] = TRUE], UNCHANGED <<net, wire, writeErr, wp>>
       PROVE  Types' /\ Pumps' /\ Written'
  <2>1. writer'[c].op = writer[c].op /\ writer'[c].buf = data /\ todo'[c] = waiting
    BY <1>2, <1>12 DEF Writer
  <2>2. Writers(c)' /\ OrderlyAt(c)'
    BY <1>3, <1>4, <1>12, <2>1 DEF Writers, OrderlyAt
  <2>3. Pending(c)' = Pending(c) /\ Shown(c)' = Shown(c)
    BY <1>10, <1>12, <2>1 DEF Pending, Shown
  <2>4. DeliversAt(c)'
    BY <1>3, <1>4, <1>11, <1>12, <2>3 DEF DeliversAt
  <2>5. writer' \in [Client -> Writer] /\ \A d \in Client \ {c} : writer'[d] = writer[d]
    BY <1>2, <1>7, <1>12 DEF Writer
  <2>6. todo' \in [Client -> Content] /\ \A d \in Client \ {c} : todo'[d] = todo[d]
    BY <1>2, <1>7, <1>12
  <2>7. queued' \in [Client -> BOOLEAN]
    BY <1>2, <1>12
  <2>8. wire[c] \in OnWire /\ writeErr[c] \in {"nil", "ErrCloseSent", "failed"}
        /\ wire' = [wire EXCEPT ![c] = wire[c]] /\ writeErr' = [writeErr EXCEPT ![c] = writeErr[c]]
    BY <1>2, <1>12
  <2>9. Len(writer'[c].buf) <= BufSize /\ wp' = wp /\ net' = net
    BY <1>3, <1>12, <2>1
  <2> QED BY <1>3, <1>11, <2>2, <2>4, <2>5, <2>6, <2>7, <2>8, <2>9, FlushedStep
<1>13. ASSUME CloseWriter(c, data \o waiting)
       PROVE  Types' /\ Pumps' /\ Written'
  <2>1. PICK o \in write(c, Frame(writer[c].op, TRUE, data \o waiting)) :
            /\ flushFrame(c, TRUE, data \o waiting, o)
            /\ IF o.ok THEN wp' = [wp EXCEPT ![c] = "select"] /\ UNCHANGED net
                       ELSE WritePumpReturns(c)
    BY <1>13 DEF CloseWriter
  <2>2. todo' = [todo EXCEPT ![c] = <<>>] /\ queued' = [queued EXCEPT ![c] = FALSE]
    BY <1>13 DEF CloseWriter
  <2>3. /\ wire' = [wire EXCEPT ![c] = o.wire] /\ writeErr' = [writeErr EXCEPT ![c] = o.err]
        /\ writer' = [writer EXCEPT ![c] = IF ~o.ok THEN @ ELSE Closed]
    BY <2>1 DEF flushFrame, Wrote
  <2>4. /\ o.wire \in OnWire /\ o.err \in {"nil", "ErrCloseSent", "failed"} /\ o.ok \in BOOLEAN
        /\ o.ok =>
              /\ writeErr[c] = "nil" /\ o.err = "nil"
              /\ OfUsers(DataOf(o.wire)) = Shown(c) \o OfUsers(data \o waiting)
              /\ Orderly(o.wire, "nil", "closed", "select")
        /\ ~ o.ok =>
              /\ o.err # "nil" /\ OfUsers(DataOf(o.wire)) = Shown(c)
              /\ \A op, pc : Orderly(o.wire, o.err, op, pc)
    BY <1>3, <1>4, <1>7, <2>1, DataOrdered
  <2>5. wire'[c] = o.wire /\ writeErr'[c] = o.err /\ Shown(c)' = OfUsers(DataOf(o.wire))
    <3>1. wire'[c] = o.wire /\ writeErr'[c] = o.err
      BY <1>2, <2>3
    <3> QED BY <3>1 DEF Shown
  <2>6. /\ todo' \in [Client -> Content] /\ todo'[c] = <<>> /\ queued' \in [Client -> BOOLEAN]
        /\ \A d \in Client \ {c} : todo'[d] = todo[d]
    BY <1>2, <2>2, Sets
  <2>7. CASE o.ok
    <3>1. PICK w \in Writer : w = Closed
      BY Sets DEF Closed, Writer
    <3>2. w.op = "closed" /\ w.buf = <<>> /\ Len(w.buf) <= BufSize
      BY <3>1, EmptySeq, WebSocketAssumption DEF Closed
    <3>3. writer' = [writer EXCEPT ![c] = w]
      BY <2>3, <2>7, <3>1
    <3>4. writer'[c] = w /\ wp' = [wp EXCEPT ![c] = "select"] /\ wp'[c] = "select" /\ UNCHANGED net
      BY <1>2, <2>1, <2>7, <3>3
    <3>5. Writers(c)' /\ OrderlyAt(c)'
      BY <2>4, <2>5, <2>6, <2>7, <3>1, <3>2, <3>4 DEF Writers, OrderlyAt
    <3>6. DeliversAt(c)'
      <4>1. Pending(c)' = FlattenSeq(send'[c])
        <5>1. Pending(c)' = (OfUsers(<<>>) \o OfUsers(<<>>)) \o FlattenSeq(send'[c])
          BY <2>6, <3>2, <3>4 DEF Pending
        <5>2. <<>> \in Text
          BY Sets
        <5> QED BY <1>8, <5>1, <5>2, UsersEmpty, TextCat
      <4>2. OfUsers(data \o waiting) = OfUsers(data) \o OfUsers(waiting)
        BY <1>7, UsersCat DEF Content
      <4>3. Shown(c)' = Shown(c) \o (OfUsers(data) \o OfUsers(waiting))
        BY <2>4, <2>5, <2>7, <4>2
      <4>4. OfUsers(data) \o OfUsers(waiting) \in Text
        BY <1>9, TextCat
      <4>5. Shown(c)' \o Pending(c)' = Shown(c) \o Pending(c)
        <5>1. (Shown(c) \o (OfUsers(data) \o OfUsers(waiting))) \o FlattenSeq(send'[c]) =
                  Shown(c) \o ((OfUsers(data) \o OfUsers(waiting)) \o FlattenSeq(send'[c]))
          BY <1>8, <1>9, <4>4, TextCat
        <5> QED BY <1>10, <4>1, <4>3, <5>1
      <4>6. Shown(c)' \in Text /\ Pending(c)' \in Text
        BY <1>8, <1>9, <4>1, <4>3, <4>4, TextCat
      <4>7. Delivering(Due(c), Shown(c), Pending(c), "nil", "write", c \in clients)
        BY <1>3, <1>4, <2>4, <2>7 DEF DeliversAt
      <4>8. Delivering(Due(c), Shown(c)', Pending(c)', writeErr'[c], wp'[c], c \in clients)
        BY <4>5, <4>6, <4>7, GoesOnDelivering
      <4> QED BY <1>3, <1>11, <4>8 DEF DeliversAt
    <3>7. writer' \in [Client -> Writer] /\ \A d \in Client \ {c} : writer'[d] = writer[d]
      BY <1>2, <3>3
    <3>8. Len(writer'[c].buf) <= BufSize
      BY <3>2, <3>4
    <3> QED BY <1>3, <1>11, <2>3, <2>4, <2>6, <3>4, <3>5, <3>6, <3>7, <3>8, FlushedStep
  <2>8. CASE ~ o.ok
    <3>1. writer' = writer
      BY <1>2, <2>3, <2>8
    <3>2. wp' = [wp EXCEPT ![c] = "returned"] /\ net' = [net EXCEPT ![c] = "closed"]
          /\ wp'[c] = "returned"
      BY <1>2, <2>1, <2>8 DEF WritePumpReturns
    <3>3. Writers(c)' /\ OrderlyAt(c)'
      BY <2>4, <2>5, <2>8, <3>1, <3>2 DEF Writers, OrderlyAt
    <3>4. DeliversAt(c)'
      <4>1. Delivering(Due(c), Shown(c), Pending(c)', writeErr'[c], wp'[c], c \in clients)
        BY <1>4, <3>2, StopsDelivering DEF DeliversAt
      <4> QED BY <1>3, <1>11, <2>4, <2>5, <2>8, <4>1 DEF DeliversAt
    <3>5. writer' \in [Client -> Writer] /\ Len(writer'[c].buf) <= BufSize
      BY <1>2, <3>1
    <3>6. \A d \in Client \ {c} : writer'[d] = writer[d] /\ todo'[d] = todo[d]
      BY <2>6, <3>1
    <3> QED BY <1>3, <1>11, <2>3, <2>4, <2>6, <3>2, <3>3, <3>4, <3>5, <3>6, FlushedStep
  <2> QED BY <2>4, <2>7, <2>8
<1> QED BY <1>3, <1>12, <1>13

\* A control message of writePump, which goes on or returns.
LEMMA ControlStep ==
    ASSUME Types, Pumps, Written, NEW c \in Client, wp[c] = "select",
           NEW op \in {"close", "ping"}, NEW o \in write(c, Frame(op, TRUE, <<>>)),
           WriteMessage(c, op, o), UNCHANGED <<readVars, hubVars, rp, todo, queued, results, exited>>,
           pings' \in [Client -> Nat],
           (UNCHANGED <<wp, net>>) \/ WritePumpReturns(c)
    PROVE  Types' /\ Pumps' /\ Written'
<1>1. PICK kind \in {"close", "ping", "pong"} : kind = op
  OBVIOUS
<1>2. o \in Outcome(c, kind)
  BY <1>1 DEF Outcome
<1>3. Wrote(c, o) /\ UNCHANGED writer
  BY DEF WriteMessage
<1>4. Writers(c) /\ OrderlyAt(c) /\ DeliversAt(c)
  BY DEF Pumps, Written
<1>5. Orderly(o.wire, o.err, writer[c].op, wp[c]) /\ OfUsers(DataOf(o.wire)) = Shown(c)
  BY <1>2, <1>4, ControlOrdered
<1>6. /\ wire' \in [Client -> OnWire] /\ writeErr' \in [Client -> {"nil", "ErrCloseSent", "failed"}]
      /\ \A d \in Client \ {c} : wire'[d] = wire[d] /\ writeErr'[d] = writeErr[d]
      /\ wire'[c] = o.wire /\ writeErr'[c] = o.err
  BY <1>2, <1>3, WroteControl
<1>7. o.err = "nil" => writeErr[c] = "nil"
  BY <1>2, ControlTypes DEF Types
<1>8. /\ writer \in [Client -> Writer] /\ todo \in [Client -> Content]
      /\ net \in [Client -> {"none", "open", "left", "closed"}]
      /\ wp \in [Client -> {"none", "select", "write", "returned"}]
      /\ queued \in [Client -> BOOLEAN] /\ results \in [Client -> Nat] /\ exited \in BOOLEAN
      /\ send \in [Client -> Texts] /\ Len(send[c]) <= SendCap /\ Len(writer[c].buf) <= BufSize
  BY DEF Types, ConnTypes, HubTypes, PumpTypes
<1>9. /\ wp' \in [Client -> {"none", "select", "write", "returned"}]
      /\ net' \in [Client -> {"none", "open", "left", "closed"}]
      /\ net'[c] \in {net[c], "closed"} /\ wp'[c] \in {"select", "returned"}
      /\ \A d \in Client \ {c} : net'[d] = net[d] /\ wp'[d] = wp[d]
  BY <1>8 DEF WritePumpReturns
<1>10. Writers(c)'
  BY <1>3, <1>4, <1>9 DEF Writers
<1>11. OrderlyAt(c)'
  BY <1>3, <1>5, <1>6, <1>9 DEF OrderlyAt, Orderly
<1>12. Due(c)' = Due(c) /\ Shown(c)' = Shown(c) /\ Pending(c)' = Pending(c) /\ clients' = clients
  BY <1>3, <1>5, <1>6 DEF Due, Shown, Pending, hubVars
<1>13. DeliversAt(c)'
  <2>1. Delivering(Due(c), Shown(c), Pending(c), writeErr[c], "select", c \in clients)
    BY <1>4 DEF DeliversAt
  <2>2. CASE writeErr'[c] # "nil" \/ wp'[c] = "returned"
    <3>1. Delivering(Due(c), Shown(c), Pending(c), writeErr'[c], wp'[c], c \in clients)
      BY <2>1, <2>2, StopsDelivering
    <3> QED BY <1>12, <3>1 DEF DeliversAt
  <2>3. CASE writeErr'[c] = "nil" /\ wp'[c] = "select"
    <3>1. Delivering(Due(c), Shown(c), Pending(c), writeErr'[c], wp'[c], c \in clients)
      BY <1>6, <1>7, <2>1, <2>3
    <3> QED BY <1>12, <3>1 DEF DeliversAt
  <2> QED BY <1>9, <2>2, <2>3
<1>14. send' = send /\ UNCHANGED <<clients, hubLog, since, sendClosed, rp, readVars>>
  BY DEF hubVars
<1> QED BY <1>3, <1>6, <1>8, <1>9, <1>10, <1>11, <1>13, <1>14, WritePumpStep

LEMMA TakeClosedStep ==
    ASSUME Types, Pumps, Written, NEW c \in Client, TakeClosed(c)
    PROVE  Types' /\ Pumps' /\ Written'
<1>1. PICK o \in write(c, Frame("close", TRUE, <<>>)) : WriteMessage(c, "close", o)
  BY DEF TakeClosed
<1>2. /\ wp[c] = "select" /\ WritePumpReturns(c)
      /\ UNCHANGED <<readVars, hubVars, rp, todo, queued, results, exited>>
      /\ pings' \in [Client -> Nat]
  BY DEF TakeClosed, Types, PumpTypes
<1> QED BY <1>1, <1>2, ControlStep

LEMMA PingStep ==
    ASSUME Types, Pumps, Written, NEW c \in Client, Ping(c)
    PROVE  Types' /\ Pumps' /\ Written'
<1>1. PICK o \in write(c, Frame("ping", TRUE, <<>>)) :
          /\ WriteMessage(c, "ping", o)
          /\ IF o.ok THEN UNCHANGED <<wp, net>> ELSE WritePumpReturns(c)
  BY DEF Ping
<1>2. /\ wp[c] = "select" /\ UNCHANGED <<readVars, hubVars, rp, todo, queued, results, exited>>
      /\ pings' \in [Client -> Nat]
  BY DEF Ping, Types, PumpTypes
<1> QED BY <1>1, <1>2, ControlStep

-----------------------------------------------------------------------------
\* What the other steps do to what is written.

LEMMA WrittenStays ==
    ASSUME Written, UNCHANGED <<writeVars, wp, todo, send, hubLog, since>>, clients' \subseteq clients
    PROVE  Written'
<1> SUFFICES ASSUME NEW c \in Client PROVE OrderlyAt(c)' /\ DeliversAt(c)'
  BY DEF Written
<1>1. OrderlyAt(c) /\ DeliversAt(c)
  BY DEF Written
<1>2. OrderlyAt(c)'
  BY <1>1 DEF OrderlyAt, writeVars
<1>3. Due(c)' = Due(c) /\ Shown(c)' = Shown(c) /\ Pending(c)' = Pending(c)
  BY DEF Due, Shown, Pending, writeVars
<1>4. c \in clients' => c \in clients
  OBVIOUS
<1>5. Delivering(Due(c), Shown(c), Pending(c), writeErr[c], wp[c], c \in clients')
  BY <1>1, <1>4 DEF DeliversAt, Delivering
<1> QED BY <1>2, <1>3, <1>5 DEF DeliversAt, writeVars

LEMMA RegisterWritten ==
    ASSUME Types, Pumps, Written, NEW c \in Client, Register(c)
    PROVE  Written'
<1>1. /\ wp[c] = "none" /\ wire[c] = <<>> /\ send[c] = <<>> /\ writer[c] = Closed /\ todo[c] = <<>>
  BY DEF Pumps, Fresh, Writers, Register
<1>2. /\ since \in [Client -> Nat] /\ hubLog \in Texts
      /\ wp \in [Client -> {"none", "select", "write", "returned"}]
  BY DEF Types, HubTypes, PumpTypes
<1>3. /\ since' = [since EXCEPT ![c] = Len(hubLog)] /\ wp' = [wp EXCEPT ![c] = "select"]
      /\ UNCHANGED <<writeVars, hubLog, send, todo>> /\ clients' = clients \cup {c}
  BY DEF Register
<1>4. ASSUME NEW d \in Client, d # c
      PROVE  OrderlyAt(d)' /\ DeliversAt(d)'
  <2>1. OrderlyAt(d) /\ DeliversAt(d)
    BY DEF Written
  <2>2. since'[d] = since[d] /\ wp'[d] = wp[d] /\ (d \in clients' <=> d \in clients)
    BY <1>2, <1>3, <1>4
  <2>3. OrderlyAt(d)'
    BY <1>3, <2>1, <2>2 DEF OrderlyAt, writeVars
  <2>4. Due(d)' = Due(d) /\ Shown(d)' = Shown(d) /\ Pending(d)' = Pending(d)
    BY <1>3, <2>2 DEF Due, Shown, Pending, writeVars
  <2>5. Delivering(Due(d), Shown(d), Pending(d), writeErr'[d], wp'[d], d \in clients)
    BY <1>3, <2>1, <2>2 DEF DeliversAt, writeVars
  <2> QED BY <2>2, <2>3, <2>4, <2>5 DEF DeliversAt
<1>5. OrderlyAt(c)'
  <2>1. Orderly(wire[c], writeErr[c], writer[c].op, "none")
    BY <1>1 DEF Written, OrderlyAt
  <2>2. wp'[c] = "select"
    BY <1>2, <1>3
  <2>3. Orderly(wire[c], writeErr[c], writer[c].op, "select")
    BY <2>1 DEF Orderly
  <2> QED BY <1>3, <2>2, <2>3 DEF OrderlyAt, writeVars
<1>6. DeliversAt(c)'
  <2>1. <<>> \in Text /\ <<>> \o <<>> = <<>>
    BY Sets, TextCat
  <2>2. Due(c)' = <<>>
    <3>1. PICK n \in Nat : n = Len(hubLog)
      BY <1>2, Sets
    <3>2. since'[c] = n /\ hubLog' = hubLog
      BY <1>2, <1>3, <3>1
    <3>3. Due(c)' = FlattenSeq(SubSeq(hubLog, n + 1, n))
      BY <3>1, <3>2 DEF Due
    <3>4. SubSeq(hubLog, n + 1, n) = <<>>
      <4>1. PICK k \in Int : k = n + 1 /\ n < k
        BY <3>1
      <4> QED BY <3>1, <4>1, SubSeqEmpty
    <3> QED BY <3>3, <3>4, FlatEmpty
  <2>3. Shown(c)' = <<>>
    BY <1>1, <1>3, DataEmpty, UsersEmpty DEF Shown, writeVars
  <2>4. Pending(c)' = <<>>
    <3>1. writer'[c].buf = <<>> /\ todo'[c] = <<>> /\ send'[c] = <<>>
      BY <1>1, <1>3 DEF Closed, writeVars
    <3>2. Pending(c)' = (OfUsers(<<>>) \o OfUsers(<<>>)) \o FlattenSeq(<<>>)
      BY <3>1 DEF Pending
    <3> QED BY <2>1, <3>2, UsersEmpty, FlatEmpty
  <2>5. <<>> = (<<>> \o <<>>) \o <<>>
    BY <2>1
  <2>6. \A err, pc, registered : Delivering(<<>>, <<>>, <<>>, err, pc, registered)
    BY <2>1, <2>5 DEF Delivering
  <2> QED BY <2>2, <2>3, <2>4, <2>6 DEF DeliversAt
<1> QED BY <1>4, <1>5, <1>6 DEF Written

\* A control frame of readPump goes to the wire between those of writePump.
LEMMA AnsweredWritten ==
    ASSUME Types, Written, NEW c \in Client, NEW op \in {"close", "pong"}, NEW o \in Outcome(c, op),
           WriteControl(c, op, o), UNCHANGED <<hubVars, wp, todo>>
    PROVE  Written'
<1>1. PICK kind \in {"close", "ping", "pong"} : kind = op
  OBVIOUS
<1>2. o \in Outcome(c, kind) /\ Wrote(c, o) /\ UNCHANGED writer
  BY <1>1 DEF WriteControl
<1>3. /\ \A d \in Client \ {c} : wire'[d] = wire[d] /\ writeErr'[d] = writeErr[d]
      /\ wire'[c] = o.wire /\ writeErr'[c] = o.err
  BY <1>2, WroteControl
<1>4. o.err = "nil" => writeErr[c] = "nil"
  BY <1>2, ControlTypes DEF Types
<1>5. Orderly(o.wire, o.err, writer[c].op, wp[c]) /\ OfUsers(DataOf(o.wire)) = Shown(c)
  BY <1>2, ControlOrdered DEF Written
<1>6. ASSUME NEW d \in Client PROVE OrderlyAt(d)' /\ DeliversAt(d)'
  <2>1. OrderlyAt(d) /\ DeliversAt(d)
    BY DEF Written
  <2>2. Due(d)' = Due(d) /\ Pending(d)' = Pending(d) /\ clients' = clients
    BY <1>2 DEF Due, Pending, hubVars
  <2>3. OrderlyAt(d)' /\ Shown(d)' = Shown(d) /\ (writeErr'[d] = "nil" => writeErr[d] = "nil")
    <3>1. CASE d = c
      BY <1>2, <1>3, <1>4, <1>5, <3>1 DEF OrderlyAt, Shown
    <3>2. CASE d # c
      BY <1>2, <1>3, <2>1, <3>2 DEF OrderlyAt, Shown
    <3> QED BY <3>1, <3>2
  <2>4. Delivering(Due(d), Shown(d), Pending(d), writeErr'[d], wp[d], d \in clients)
    BY <2>1, <2>3 DEF DeliversAt, Delivering
  <2> QED BY <2>2, <2>3, <2>4 DEF DeliversAt
<1> QED BY <1>6 DEF Written

LEMMA ReadFrameWritten ==
    ASSUME Types, Pumps, Written, NEW c \in Client, ReadFrame(c)
    PROVE  Written'
<1>1. PICK f \in NextFrame(c), ok \in BOOLEAN : advanceFrame(c, f, ok)
  BY DEF ReadFrame
<1>2. UNCHANGED <<hubVars, wp, todo>>
  BY DEF ReadFrame
<1>3. \/ \E o \in Outcome(c, "close") : WriteControl(c, "close", o)
      \/ \E o \in Outcome(c, "pong") : WriteControl(c, "pong", o)
      \/ UNCHANGED writeVars
  BY <1>1 DEF advanceFrame
<1>4. CASE UNCHANGED writeVars
  BY <1>2, <1>4, WrittenStays DEF hubVars
<1> QED BY <1>2, <1>3, <1>4, AnsweredWritten

\* What is due grows with the message that the hub took.
LEMMA DueGrows ==
    ASSUME Types, NEW c \in Client, NEW m \in Text, hubLog' = Append(hubLog, m), since' = since
    PROVE  Due(c)' = Due(c) \o m
<1>1. PICK Q : Q = Seq(Unit)
  OBVIOUS
<1>2. hubLog \in Seq(Q) /\ m \in Q
  BY <1>1 DEF Types, HubTypes, Texts, Text
<1>3. PICK n \in Nat : n = Len(hubLog)
  BY <1>2
<1>4. PICK k \in 1 .. n + 1 : k = since[c] + 1
  BY <1>3 DEF Types, HubTypes
<1>5. SubSeq(Append(hubLog, m), k, n + 1) = Append(SubSeq(hubLog, k, n), m)
  BY <1>2, <1>3, SubSeqToAppended
<1>6. Len(Append(hubLog, m)) = n + 1
  BY <1>2, <1>3, AppendProperties
<1>7. Due(c)' = FlattenSeq(Append(SubSeq(hubLog, k, n), m))
  BY <1>4, <1>5, <1>6 DEF Due
<1>8. SubSeq(hubLog, k, n) \in Seq(Q)
  <2>1. \A i \in k .. n : hubLog[i] \in Q
    BY <1>2, <1>3
  <2>2. k \in Int /\ n \in Int
    OBVIOUS
  <2> QED BY <2>1, <2>2, SubSeqProperties
<1>9. Strings(Q)
  BY <1>1, SequencesAreStrings
<1>10. FlattenSeq(Append(SubSeq(hubLog, k, n), m)) = FlattenSeq(SubSeq(hubLog, k, n)) \o m
  BY <1>2, <1>8, <1>9, FlatAppendIn
<1> QED BY <1>3, <1>4, <1>7, <1>10 DEF Due

LEMMA SendToHubWritten ==
    ASSUME Types, Pumps, Written, NEW c \in Client, SendToHub(c)
    PROVE  Written'
<1>1. PICK m \in Text : m = partial[c]
  BY DEF Types, ConnTypes
<1>2. /\ hubLog' = Append(hubLog, m) /\ since' = since /\ clients' = clients \ Full
      /\ send' = [d \in Client |-> IF d \in clients \ Full THEN Append(send[d], m) ELSE send[d]]
      /\ UNCHANGED <<writeVars, wp, todo>>
  BY <1>1 DEF SendToHub, Broadcast
<1>3. ASSUME NEW d \in Client PROVE OrderlyAt(d)' /\ DeliversAt(d)'
  <2>1. OrderlyAt(d) /\ DeliversAt(d)
    BY DEF Written
  <2>2. OrderlyAt(d)'
    BY <1>2, <2>1 DEF OrderlyAt, writeVars
  <2>3. Due(d)' = Due(d) \o m
    BY <1>2, DueGrows
  <2>4. Shown(d)' = Shown(d)
    BY <1>2 DEF Shown, writeVars
  <2>5. /\ Shown(d) \in Text /\ Pending(d) \in Text
        /\ OfUsers(writer[d].buf) \in Text /\ OfUsers(todo[d]) \in Text
        /\ FlattenSeq(send[d]) \in Text
    BY ShownType
  <2>6. \/ d \in clients /\ Pending(d)' = Pending(d) \o m
        \/ Pending(d)' = Pending(d) /\ d \notin clients'
    <3>1. CASE d \in clients \ Full
      <4>1. send'[d] = Append(send[d], m)
        BY <1>2, <3>1
      <4>2. FlattenSeq(Append(send[d], m)) = FlattenSeq(send[d]) \o m
        BY FlatAppend DEF Types, HubTypes, Texts, Text
      <4>3. Pending(d)' = (OfUsers(writer[d].buf) \o OfUsers(todo[d])) \o (FlattenSeq(send[d]) \o m)
        BY <1>2, <4>1, <4>2 DEF Pending, writeVars
      <4>4. OfUsers(writer[d].buf) \o OfUsers(todo[d]) \in Text
        BY <2>5, TextCat
      <4>5. PICK a \in Text, b \in Text :
                a = OfUsers(writer[d].buf) \o OfUsers(todo[d]) /\ b = FlattenSeq(send[d])
        BY <2>5, <4>4
      <4>6. a \o (b \o m) = (a \o b) \o m
        BY TextCat
      <4>7. Pending(d)' =
                ((OfUsers(writer[d].buf) \o OfUsers(todo[d])) \o FlattenSeq(send[d])) \o m
        BY <4>3, <4>5, <4>6
      <4> QED BY <3>1, <4>7 DEF Pending
    <3>2. CASE d \notin clients \ Full
      <4>1. send'[d] = send[d] /\ d \notin clients'
        BY <1>2, <3>2
      <4> QED BY <1>2, <4>1 DEF Pending, writeVars
    <3> QED BY <3>1, <3>2
  <2>7. Delivering(Due(d) \o m, Shown(d), Pending(d)', writeErr[d], wp[d], d \in clients')
    BY <2>1, <2>5, <2>6, HubDelivers DEF DeliversAt
  <2> QED BY <1>2, <2>2, <2>3, <2>4, <2>7 DEF DeliversAt, writeVars
<1> QED BY <1>3 DEF Written

LEMMA InitWritten ==
    Init => Written
<1> SUFFICES ASSUME Init, NEW c \in Client PROVE OrderlyAt(c) /\ DeliversAt(c)
  BY DEF Written
<1>1. /\ wire[c] = <<>> /\ writer[c] = Closed /\ wp[c] = "none" /\ todo[c] = <<>> /\ send[c] = <<>>
      /\ hubLog = <<>> /\ since[c] = 0
  BY DEF Init, newConn
<1>2. OrderlyAt(c)
  <2>1. \A i : i \notin DOMAIN <<>>
    OBVIOUS
  <2>2. Previous(<<>>, Len(<<>>) + 1) = {}
    BY DEF Previous
  <2> QED BY <1>1, <2>1, <2>2 DEF OrderlyAt, Orderly, Ordered, Unfinished
<1>3. Due(c) = <<>>
  <2>1. SubSeq(<<>>, 1, 0) = <<>>
    BY SubSeqEmpty
  <2>2. Due(c) = FlattenSeq(SubSeq(<<>>, 1, 0))
    BY <1>1 DEF Due
  <2> QED BY <2>1, <2>2, FlatEmpty
<1>4. Shown(c) = <<>>
  BY <1>1, DataEmpty, UsersEmpty DEF Shown
<1>5. DeliversAt(c)
  <2>1. <<>> \in Text /\ <<>> \o <<>> = <<>>
    BY Sets, TextCat
  <2> QED BY <1>1, <1>3, <1>4, <2>1 DEF DeliversAt, Delivering
<1> QED BY <1>2, <1>5

\* Every step keeps the types and what is said of the writing.
LEMMA NextWritten ==
    ASSUME Types, Pumps, Written, [Next]_vars
    PROVE  Types' /\ Pumps' /\ Written'
<1>1. CASE UNCHANGED vars
  <2>1. Types'
    BY <1>1 DEF vars, Types, ConnTypes, HubTypes, PumpTypes, connVars, writeVars, readVars, hubVars,
              pumpVars
  <2>2. Pumps'
    BY <1>1 DEF vars, Pumps, Fresh, Writers, connVars, writeVars, readVars, hubVars, pumpVars
  <2>3. Written'
    BY <1>1, WrittenStays DEF vars, connVars, hubVars, pumpVars
  <2> QED BY <2>1, <2>2, <2>3
<1>2. ASSUME NEW c \in Client, Register(c) PROVE Types' /\ Pumps' /\ Written'
  BY <1>2, RegisterTypes, RegisterWritten
<1>3. ASSUME NEW c \in Client, BrowserLeaves(c) PROVE Types' /\ Pumps' /\ Written'
  <2>1. Written'
    BY <1>3, WrittenStays DEF BrowserLeaves, hubVars, pumpVars
  <2> QED BY <1>3, <2>1, BrowserLeavesTypes
<1>4. ASSUME NEW c \in Client, ReadFails(c) \/ ReadTimesOut(c) PROVE Types' /\ Pumps' /\ Written'
  <2>1. /\ rp[c] # "none" /\ rp' = [rp EXCEPT ![c] = "leave"]
        /\ UNCHANGED <<connVars, hubVars, wp, todo, queued, results, pings, exited>>
    BY <1>4 DEF ReadFails, ReadTimesOut
  <2>2. Written'
    BY <2>1, WrittenStays DEF connVars, hubVars
  <2> QED BY <2>1, <2>2, ReadPumpMoves
<1>5. ASSUME NEW c \in Client, SendToHub(c) PROVE Types' /\ Pumps' /\ Written'
  BY <1>5, SendToHubTypes, SendToHubWritten
<1>6. ASSUME NEW c \in Client, GiveUp(c) PROVE Types' /\ Pumps' /\ Written'
  <2>1. Written'
    BY <1>6, WrittenStays DEF GiveUp, connVars, hubVars, pumpVars
  <2> QED BY <1>6, <2>1, GiveUpTypes
<1>7. ASSUME NEW c \in Client, Leave(c) \/ ReadPumpReturns(c) PROVE Types' /\ Pumps' /\ Written'
  <2>1. /\ UNCHANGED <<writeVars, wp, todo, send, hubLog, since>> /\ clients' \subseteq clients
    BY <1>7 DEF Leave, ReadPumpReturns, Unregister, connVars, hubVars
  <2>2. Written'
    BY <2>1, WrittenStays
  <2> QED BY <1>7, <2>2, LeaveTypes, ReadPumpReturnsTypes
<1>8. ASSUME NEW c \in Client, ReadFrame(c) PROVE Types' /\ Pumps' /\ Written'
  BY <1>8, ReadFrameTypes, ReadFrameWritten
<1>9. ASSUME NEW c \in Client, WritePump(c) \/ Ping(c) PROVE Types' /\ Pumps' /\ Written'
  BY <1>9, TakeMessageStep, TakeResultStep, FlushFullStep, FinishMessageStep, TakeClosedStep, PingStep
     DEF WritePump
<1> QED BY <1>1, <1>2, <1>3, <1>4, <1>5, <1>6, <1>7, <1>8, <1>9 DEF Next, ReadPump

-----------------------------------------------------------------------------
\* What is heard of a browser: its frames carry its units, what the hub took of them and
\* what readPump put together since, in one piece.

\* The units of a browser, as it counts them.
Numbered(c, s) == \A i \in 1 .. Len(s) : s[i] = <<c, i>>

\* readPump still puts messages together, or waits to give up.
Live(pc) == pc \in {"none", "read", "broadcast", "giveUp"}

\* For the first n units, messages start and end alike in the frames and in the log.
Marks(starts, finals, ends, n) ==
    \A i \in 1 .. n :
        /\ i \in finals <=> i \in ends
        /\ i - 1 \in starts <=> i - 1 \in ends \cup {0}

\* The m units after them are one message, which is finished when it goes to the hub.
OneMessage(starts, finals, ends, n, m, fin, pc) ==
    /\ starts \subseteq 0 .. n + m - 1 /\ finals \subseteq 1 .. n + m
    /\ ends \subseteq 1 .. n /\ n \in ends \cup {0}
    /\ \A i \in n + 1 .. n + m :
          /\ i \in finals <=> pc = "broadcast" /\ i = n + m
          /\ i - 1 \in starts <=> i - 1 = n
    /\ pc \in {"none", "read"} => (fin <=> m = 0)
    /\ pc = "broadcast" => m > 0 /\ fin

\* `told' is what the frames carried, `units' what the hub took, and p what was put
\* together since.
Hearing(c, told, starts, finals, units, ends, p, fin, pc) ==
    /\ Numbered(c, told)
    /\ \E rest \in Text : told = (units \o p) \o rest
    /\ Marks(starts, finals, ends, Len(units))
    /\ Live(pc) =>
          /\ told = units \o p
          /\ OneMessage(starts, finals, ends, Len(units), Len(p), fin, pc)

HearingAt(c) ==
    Hearing(c, DataOf(frames[c]), Starts(frames[c]), Finals(frames[c]), Heard(c, hubLog),
            Ends(c, hubLog), partial[c], readFinal[c], rp[c])
Hears == \A c \in Client : HearingAt(c)

\* A data frame is taken.
LEMMA MarksTaken ==
    ASSUME NEW n \in Nat, NEW m \in Nat, NEW k \in Nat \ {0}, NEW starts, NEW finals, NEW ends,
           NEW fin, Marks(starts, finals, ends, n),
           OneMessage(starts, finals, ends, n, m, fin, "read"),
           NEW starts2, \/ starts2 = starts \cup {n + m} /\ fin
                        \/ starts2 = starts /\ ~ fin,
           NEW finals2, NEW final, NEW pc2,
           \/ finals2 = finals \cup {n + m + k} /\ final /\ pc2 = "broadcast"
           \/ finals2 = finals /\ ~ final /\ pc2 = "read"
    PROVE  /\ Marks(starts2, finals2, ends, n)
           /\ OneMessage(starts2, finals2, ends, n, m + k, final, pc2)
<1>1. /\ starts \subseteq 0 .. n + m - 1 /\ finals \subseteq 1 .. n + m /\ ends \subseteq 1 .. n
      /\ n \in ends \cup {0} /\ (fin <=> m = 0)
      /\ \A i \in n + 1 .. n + m : i \notin finals /\ (i - 1 \in starts <=> i - 1 = n)
  BY DEF OneMessage
<1>2. /\ \A j \in Int : j \in starts2 <=> j \in starts \/ (fin /\ j = n + m)
      /\ \A j \in Int : j \in finals2 <=> j \in finals \/ (final /\ j = n + m + k)
  OBVIOUS
<1>3. starts2 \subseteq 0 .. n + (m + k) - 1 /\ finals2 \subseteq 1 .. n + (m + k)
  <2>1. n + m \in 0 .. n + (m + k) - 1 /\ n + m + k \in 1 .. n + (m + k)
    OBVIOUS
  <2>2. 0 .. n + m - 1 \subseteq 0 .. n + (m + k) - 1 /\ 1 .. n + m \subseteq 1 .. n + (m + k)
    OBVIOUS
  <2> QED BY <1>1, <2>1, <2>2
<1>4. ASSUME NEW i \in 1 .. n
      PROVE  (i \in finals2 <=> i \in ends) /\ (i - 1 \in starts2 <=> i - 1 \in ends \cup {0})
  <2>1. i # n + m + k /\ i - 1 # n + m /\ i \in Int /\ i - 1 \in Int
    OBVIOUS
  <2> QED BY <1>2, <2>1 DEF Marks
<1>5. ASSUME NEW i \in n + 1 .. n + (m + k)
      PROVE  /\ i \in finals2 <=> pc2 = "broadcast" /\ i = n + (m + k)
             /\ i - 1 \in starts2 <=> i - 1 = n
  <2>1. i \notin finals
    <3>1. i \in n + 1 .. n + m \/ i \notin 1 .. n + m
      OBVIOUS
    <3> QED BY <1>1, <3>1
  <2>2. i \in finals2 <=> pc2 = "broadcast" /\ i = n + (m + k)
    <3>1. i \in Int /\ n + m + k = n + (m + k) /\ (pc2 = "broadcast" <=> final)
      OBVIOUS
    <3> QED BY <1>2, <2>1, <3>1
  <2>3. CASE i \in n + 1 .. n + m
    <3>1. i - 1 # n + m /\ i - 1 \in Int
      BY <2>3
    <3> QED BY <1>1, <1>2, <2>2, <2>3, <3>1
  <2>4. CASE i > n + m
    <3>1. i - 1 \notin starts /\ i - 1 \in Int
      <4>1. i - 1 \notin 0 .. n + m - 1 /\ i - 1 \in Int
        BY <2>4
      <4> QED BY <1>1, <4>1
    <3>2. i - 1 = n <=> m = 0 /\ i - 1 = n + m
      BY <2>4
    <3> QED BY <1>1, <1>2, <2>2, <3>1, <3>2
  <2>5. i \in n + 1 .. n + m \/ i > n + m
    OBVIOUS
  <2> QED BY <2>3, <2>4, <2>5
<1>6. (pc2 = "read" => (final <=> m + k = 0)) /\ (pc2 = "broadcast" => m + k > 0 /\ final)
      /\ pc2 # "none"
  <2>1. m + k > 0
    OBVIOUS
  <2>2. ~ (m + k = 0)
    BY <2>1
  <2> QED BY <2>1, <2>2
<1> QED BY <1>1, <1>3, <1>4, <1>5, <1>6 DEF Marks, OneMessage

\* A message goes to the hub.
LEMMA MarksSent ==
    ASSUME NEW n \in Nat, NEW m \in Nat, NEW starts, NEW finals, NEW ends, NEW fin \in BOOLEAN,
           Marks(starts, finals, ends, n), OneMessage(starts, finals, ends, n, m, fin, "broadcast"),
           NEW ends2, ends2 = ends \cup {n + m}, NEW pc2 \in {"read", "giveUp", "leave"}
    PROVE  /\ Marks(starts, finals, ends2, n + m)
           /\ OneMessage(starts, finals, ends2, n + m, 0, fin, pc2)
<1>1. /\ starts \subseteq 0 .. n + m - 1 /\ finals \subseteq 1 .. n + m /\ ends \subseteq 1 .. n
      /\ n \in ends \cup {0} /\ m > 0 /\ fin
      /\ \A i \in n + 1 .. n + m : (i \in finals <=> i = n + m) /\ (i - 1 \in starts <=> i - 1 = n)
  BY DEF OneMessage
<1>2. \A j \in Int : j \in ends2 <=> j \in ends \/ j = n + m
  OBVIOUS
<1>3. ASSUME NEW i \in 1 .. n + m
      PROVE  (i \in finals <=> i \in ends2) /\ (i - 1 \in starts <=> i - 1 \in ends2 \cup {0})
  <2>1. i \in Int /\ i - 1 \in Int /\ i - 1 # n + m
    OBVIOUS
  <2>2. CASE i \in 1 .. n
    <3>1. i # n + m
      BY <1>1, <2>2
    <3> QED BY <1>2, <2>1, <2>2, <3>1 DEF Marks
  <2>3. CASE i \in n + 1 .. n + m
    <3>1. i \notin ends
      <4>1. i \notin 1 .. n
        BY <2>3
      <4> QED BY <1>1, <4>1
    <3>2. i - 1 \in ends \cup {0} <=> i - 1 = n
      <4>1. CASE i - 1 = n
        BY <1>1, <4>1
      <4>2. CASE i - 1 # n
        <5>1. i - 1 \notin 1 .. n /\ i - 1 # 0
          BY <2>3, <4>2
        <5> QED BY <1>1, <4>2, <5>1
      <4> QED BY <4>1, <4>2
    <3> QED BY <1>1, <1>2, <2>1, <2>3, <3>1, <3>2
  <2>4. i \in 1 .. n \/ i \in n + 1 .. n + m
    OBVIOUS
  <2> QED BY <2>2, <2>3, <2>4
<1>4. /\ starts \subseteq 0 .. (n + m) + 0 - 1 /\ finals \subseteq 1 .. (n + m) + 0
      /\ ends2 \subseteq 1 .. n + m /\ n + m \in ends2 \cup {0}
  <2>1. 1 .. n \subseteq 1 .. n + m /\ n + m \in 1 .. n + m /\ (n + m) + 0 = n + m
        /\ (n + m) + 0 - 1 = n + m - 1
    BY <1>1
  <2> QED BY <1>1, <2>1
<1>5. \A i : i \notin (n + m) + 1 .. (n + m) + 0
  OBVIOUS
<1>6. pc2 \in {"none", "read"} => (fin <=> 0 = 0)
  BY <1>1
<1> QED BY <1>3, <1>4, <1>5, <1>6 DEF Marks, OneMessage

\* The lengths of two sequences of units, one after the other.
LEMMA TextLen ==
    ASSUME NEW s \in Text, NEW t \in Text
    PROVE  /\ Len(s) \in Nat /\ Len(t) \in Nat /\ s \o t \in Text /\ Len(s \o t) = Len(s) + Len(t)
           /\ \A i \in 1 .. Len(s) : (s \o t)[i] = s[i]
           /\ \A i \in 1 .. Len(t) : (s \o t)[Len(s) + i] = t[i]
           /\ t = <<>> <=> Len(t) = 0
<1>1. PICK m \in Nat, n \in Nat : m = Len(s) /\ n = Len(t)
  BY Sets
<1>2. /\ s \o t \in Text /\ Len(s \o t) = m + n
      /\ \A i \in 1 .. m + n : (s \o t)[i] = IF i <= m THEN s[i] ELSE t[i - m]
  BY <1>1, ConcatProperties DEF Text
<1>3. \A i \in 1 .. m : (s \o t)[i] = s[i]
  BY <1>2
<1>4. \A i \in 1 .. n : (s \o t)[m + i] = t[i]
  <2> TAKE i \in 1 .. n
  <2>1. m + i \in 1 .. m + n /\ ~ (m + i <= m) /\ (m + i) - m = i
    OBVIOUS
  <2> QED BY <1>2, <2>1
<1>5. t = <<>> <=> n = 0
  BY <1>1, EmptySeq DEF Text
<1> QED BY <1>1, <1>2, <1>3, <1>4, <1>5

LEMMA NumberedCat ==
    ASSUME NEW c, NEW s \in Text, NEW t \in Text, Numbered(c, s),
           \A i \in 1 .. Len(t) : t[i] = <<c, Len(s) + i>>
    PROVE  Numbered(c, s \o t)
<1>1. PICK m \in Nat, n \in Nat : m = Len(s) /\ n = Len(t)
  BY Sets
<1>2. Len(s \o t) = m + n
  BY <1>1, TextLen
<1>3. ASSUME NEW i \in 1 .. m + n
      PROVE  (s \o t)[i] = <<c, i>>
  <2>1. CASE i \in 1 .. m
    BY <1>1, <2>1, TextLen DEF Numbered
  <2>2. CASE i \notin 1 .. m
    <3>1. PICK j \in 1 .. n : i = m + j
      <4>1. i - m \in 1 .. n /\ i = m + (i - m)
        BY <2>2
      <4> QED BY <4>1
    <3>2. (s \o t)[m + j] = t[j]
      BY <1>1, TextLen
    <3> QED BY <1>1, <3>1, <3>2
  <2> QED BY <2>1, <2>2
<1> QED BY <1>2, <1>3 DEF Numbered

\* readPump begins, or ends, and nothing else changes.
LEMMA HearsMove ==
    ASSUME NEW c, NEW told, NEW starts, NEW finals, NEW units, NEW ends, NEW p, NEW fin, NEW pc,
           Hearing(c, told, starts, finals, units, ends, p, fin, pc),
           NEW pc2, ~ Live(pc2) \/ (pc = "none" /\ pc2 = "read")
    PROVE  Hearing(c, told, starts, finals, units, ends, p, fin, pc2)
<1>1. CASE ~ Live(pc2)
  BY <1>1 DEF Hearing
<1>2. CASE pc = "none" /\ pc2 = "read"
  BY <1>2 DEF Hearing, Live, OneMessage
<1> QED BY <1>1, <1>2

\* A data frame that is not taken ends readPump.
LEMMA HearsStop ==
    ASSUME NEW c, NEW told \in Text, NEW starts, NEW finals, NEW units \in Text, NEW ends,
           NEW p \in Text, NEW fin \in BOOLEAN,
           Hearing(c, told, starts, finals, units, ends, p, fin, "read"),
           NEW data \in Text, Len(data) > 0,
           \A i \in 1 .. Len(data) : data[i] = <<c, Len(told) + i>>,
           NEW starts2, starts2 = starts \/ starts2 = starts \cup {Len(told)},
           NEW finals2, finals2 = finals \/ finals2 = finals \cup {Len(told \o data)}
    PROVE  Hearing(c, told \o data, starts2, finals2, units, ends, p, fin, "leave")
<1>1. PICK n \in Nat, m \in Nat, k \in Nat \ {0} : n = Len(units) /\ m = Len(p) /\ k = Len(data)
  <2>1. Len(units) \in Nat /\ Len(p) \in Nat /\ Len(data) \in Nat
    BY Sets
  <2>2. Len(data) \in Nat \ {0}
    BY <2>1
  <2> QED BY <2>1, <2>2
<1>2. told = units \o p /\ Len(told) = n + m /\ Len(told \o data) = n + m + k
  <2>1. told = units \o p
    BY DEF Hearing, Live
  <2>2. Len(told) = n + m
    BY <1>1, <2>1, TextLen
  <2>3. Len(told \o data) = Len(told) + Len(data)
    BY TextLen
  <2> QED BY <1>1, <2>1, <2>2, <2>3
<1>3. Numbered(c, told \o data)
  BY NumberedCat DEF Hearing
<1>4. told \o data = (units \o p) \o data
  BY <1>2
<1>5. Marks(starts2, finals2, ends, n)
  <2> SUFFICES ASSUME NEW i \in 1 .. n
               PROVE  /\ i \in finals2 <=> i \in ends
                      /\ i - 1 \in starts2 <=> i - 1 \in ends \cup {0}
    BY DEF Marks
  <2>1. i # n + m + k /\ i - 1 # n + m
    OBVIOUS
  <2>2. Marks(starts, finals, ends, n)
    BY <1>1 DEF Hearing
  <2> QED BY <1>2, <2>1, <2>2 DEF Marks
<1> QED BY <1>1, <1>3, <1>4, <1>5 DEF Hearing, Live

\* One that is taken is put to the others of its message.
LEMMA HearsData ==
    ASSUME NEW c, NEW told \in Text, NEW starts, NEW finals, NEW units \in Text, NEW ends,
           NEW p \in Text, NEW fin \in BOOLEAN,
           Hearing(c, told, starts, finals, units, ends, p, fin, "read"),
           NEW data \in Text, Len(data) > 0,
           \A i \in 1 .. Len(data) : data[i] = <<c, Len(told) + i>>,
           NEW starts2, \/ starts2 = starts \cup {Len(told)} /\ fin
                        \/ starts2 = starts /\ ~ fin,
           NEW finals2, NEW final, NEW pc2,
           \/ finals2 = finals \cup {Len(told \o data)} /\ final /\ pc2 = "broadcast"
           \/ finals2 = finals /\ ~ final /\ pc2 = "read"
    PROVE  Hearing(c, told \o data, starts2, finals2, units, ends, p \o data, final, pc2)
<1>1. PICK n \in Nat, m \in Nat, k \in Nat \ {0} : n = Len(units) /\ m = Len(p) /\ k = Len(data)
  <2>1. Len(units) \in Nat /\ Len(p) \in Nat /\ Len(data) \in Nat
    BY Sets
  <2>2. Len(data) \in Nat \ {0}
    BY <2>1
  <2> QED BY <2>1, <2>2
<1>2. told = units \o p /\ Len(told) = n + m /\ Len(told \o data) = n + m + k /\ Len(p \o data) = m + k
  <2>1. told = units \o p
    BY DEF Hearing, Live
  <2>2. Len(told) = n + m
    BY <1>1, <2>1, TextLen
  <2>3. Len(told \o data) = Len(told) + Len(data)
    BY TextLen
  <2>4. Len(p \o data) = m + k
    BY <1>1, TextLen
  <2> QED BY <1>1, <2>1, <2>2, <2>3, <2>4
<1>3. Numbered(c, told \o data)
  BY NumberedCat DEF Hearing
<1>4. told \o data = units \o (p \o data) /\ p \o data \in Text
  BY <1>2, TextCat
<1>5. units \o (p \o data) \in Text /\ <<>> \in Text
  BY <1>4, TextCat, Sets
<1>6. told \o data = (units \o (p \o data)) \o <<>>
  BY <1>4, <1>5, TextCat
<1>7. Marks(starts, finals, ends, n) /\ OneMessage(starts, finals, ends, n, m, fin, "read")
  BY <1>1 DEF Hearing, Live
<1>8. /\ \/ starts2 = starts \cup {n + m} /\ fin
         \/ starts2 = starts /\ ~ fin
      /\ \/ finals2 = finals \cup {n + m + k} /\ final /\ pc2 = "broadcast"
         \/ finals2 = finals /\ ~ final /\ pc2 = "read"
  BY <1>2
<1>9. Marks(starts2, finals2, ends, n) /\ OneMessage(starts2, finals2, ends, n, m + k, final, pc2)
  <2>1. n \in Nat /\ m \in Nat /\ k \in Nat \ {0}
    OBVIOUS
  <2> QED BY ONLY <1>7, <1>8, <2>1, MarksTaken
<1> QED BY <1>1, <1>2, <1>3, <1>4, <1>5, <1>6, <1>9 DEF Hearing

\* The hub takes the message.
LEMMA HearsBroadcast ==
    ASSUME NEW c, NEW told \in Text, NEW starts, NEW finals, NEW units \in Text, NEW ends,
           NEW p \in Text, NEW fin \in BOOLEAN,
           Hearing(c, told, starts, finals, units, ends, p, fin, "broadcast"),
           NEW ends2, ends2 = ends \cup {Len(units \o p)}, NEW pc2 \in {"read", "giveUp", "leave"}
    PROVE  Hearing(c, told, starts, finals, units \o p, ends2, <<>>, fin, pc2)
<1>1. PICK n \in Nat, m \in Nat : n = Len(units) /\ m = Len(p)
  BY Sets
<1>2. told = units \o p /\ Len(units \o p) = n + m /\ units \o p \in Text
  BY <1>1, TextLen DEF Hearing, Live
<1>3. told = (units \o p) \o <<>> /\ told = ((units \o p) \o <<>>) \o <<>> /\ <<>> \in Text
  BY <1>2, TextCat, Sets
<1>4. Marks(starts, finals, ends, n) /\ OneMessage(starts, finals, ends, n, m, fin, "broadcast")
  BY <1>1 DEF Hearing, Live
<1>5. Marks(starts, finals, ends2, n + m) /\ OneMessage(starts, finals, ends2, n + m, 0, fin, pc2)
  BY <1>2, <1>4, MarksSent
<1>6. Len(<<>>) = 0
  OBVIOUS
<1>7. Numbered(c, told)
  BY DEF Hearing
<1> QED BY <1>2, <1>3, <1>5, <1>6, <1>7 DEF Hearing

\* The first unit of it tells whose it is.
LEMMA HeardFirst ==
    ASSUME NEW c, NEW told \in Text, NEW starts, NEW finals, NEW units \in Text, NEW ends,
           NEW p \in Text, NEW fin \in BOOLEAN,
           Hearing(c, told, starts, finals, units, ends, p, fin, "broadcast")
    PROVE  p[1][1] = c
<1>1. PICK n \in Nat, m \in Nat : n = Len(units) /\ m = Len(p)
  BY Sets
<1>2. told = units \o p /\ Len(units \o p) = n + m /\ m > 0
  BY <1>1, TextLen DEF Hearing, Live, OneMessage
<1>3. 1 \in 1 .. m /\ n + 1 \in 1 .. n + m
  BY <1>2
<1>4. told[n + 1] = p[1]
  BY <1>1, <1>2, <1>3, TextLen
<1>5. told[n + 1] = <<c, n + 1>>
  BY <1>2, <1>3 DEF Hearing, Numbered
<1> QED BY <1>4, <1>5

LEMMA HeardTypes ==
    ASSUME Types, NEW c \in Client
    PROVE  /\ frames[c] \in OfBrowser /\ DataOf(frames[c]) \in Text
           /\ hubLog \in Texts /\ Heard(c, hubLog) \in Text
           /\ partial[c] \in Text /\ readFinal[c] \in BOOLEAN
<1>1. /\ frames[c] \in OfBrowser /\ hubLog \in Texts /\ partial[c] \in Text /\ readFinal[c] \in BOOLEAN
  BY DEF Types, ConnTypes, HubTypes
<1>2. DataOf(frames[c]) \in Text
  BY <1>1, DataType DEF OfBrowser, Text
<1>3. Heard(c, hubLog) \in Text
  BY <1>1, HeardType DEF Texts, Text
<1> QED BY <1>1, <1>2, <1>3

LEMMA InitHears ==
    Init => Hears
<1> SUFFICES ASSUME Init, NEW c \in Client PROVE HearingAt(c)
  BY DEF Hears
<1>1. /\ frames[c] = <<>> /\ partial[c] = <<>> /\ readFinal[c] = TRUE /\ hubLog = <<>> /\ rp[c] = "none"
  BY DEF Init, newConn
<1>2. DataOf(<<>>) = <<>> /\ Heard(c, <<>>) = <<>>
  BY DataEmpty, HeardEmpty
<1>3. Starts(<<>>) = {} /\ Finals(<<>>) = {} /\ Ends(c, <<>>) = {}
  <2>1. \A i : i \notin DOMAIN <<>>
    OBVIOUS
  <2> QED BY <2>1 DEF Starts, Finals, Ends
<1>4. <<>> \in Text /\ <<>> \o <<>> = <<>> /\ Len(<<>>) = 0
  BY Sets, TextCat
<1>5. Numbered(c, <<>>) /\ Marks({}, {}, {}, 0) /\ OneMessage({}, {}, {}, 0, 0, TRUE, "none")
  BY <1>4 DEF Numbered, Marks, OneMessage
<1>6. <<>> = (<<>> \o <<>>) \o <<>>
  BY <1>4
<1>7. Hearing(c, <<>>, {}, {}, <<>>, {}, <<>>, TRUE, "none")
  BY <1>4, <1>5, <1>6 DEF Hearing
<1> QED BY <1>1, <1>2, <1>3, <1>7 DEF HearingAt

\* A step that reads nothing of browser c and takes no message of it.
LEMMA HearingStays ==
    ASSUME NEW c, HearingAt(c), frames'[c] = frames[c], partial'[c] = partial[c],
           readFinal'[c] = readFinal[c], Heard(c, hubLog') = Heard(c, hubLog),
           Ends(c, hubLog') = Ends(c, hubLog),
           \/ rp'[c] = rp[c]
           \/ rp'[c] \in {"leave", "close", "returned"}
           \/ rp[c] = "none" /\ rp'[c] = "read"
    PROVE  HearingAt(c)'
<1>1. Hearing(c, DataOf(frames[c]), Starts(frames[c]), Finals(frames[c]), Heard(c, hubLog),
              Ends(c, hubLog), partial[c], readFinal[c], rp'[c])
  <2>1. CASE rp'[c] = rp[c]
    BY <2>1 DEF HearingAt
  <2>2. CASE rp'[c] \in {"leave", "close", "returned"} \/ (rp[c] = "none" /\ rp'[c] = "read")
    <3>1. ~ Live(rp'[c]) \/ (rp[c] = "none" /\ rp'[c] = "read")
      BY <2>2 DEF Live
    <3> QED BY <3>1, HearsMove DEF HearingAt
  <2> QED BY <2>1, <2>2
<1> QED BY <1>1 DEF HearingAt

LEMMA ReadFrameHears ==
    ASSUME Types, Hears, NEW c \in Client, ReadFrame(c)
    PROVE  Hears'
<1>1. PICK f \in NextFrame(c), ok \in BOOLEAN :
          /\ advanceFrame(c, f, ok)
          /\ rp' = [rp EXCEPT ![c] = IF ~ok THEN "leave"
                                     ELSE IF f.op \in Data /\ f.fin THEN "broadcast" ELSE "read"]
  BY DEF ReadFrame
<1>2. /\ frames[c] \in OfBrowser /\ DataOf(frames[c]) \in Text /\ Heard(c, hubLog) \in Text
      /\ partial[c] \in Text /\ readFinal[c] \in BOOLEAN
  BY HeardTypes
<1>3. /\ f \in FrameOf(Unit) /\ f.op \in {"text", "cont", "ping", "close"}
      /\ f.op \in Data =>
            /\ Len(f.data) \in Nat \ {0}
            /\ \A i \in 1 .. Len(f.data) : f.data[i] = <<c, Len(DataOf(frames[c])) + i>>
      /\ f.op \notin Data => f.data = <<>>
  BY <1>2, NextFrameIs
<1>4. f.data \in Text /\ f.fin \in BOOLEAN
  BY <1>3 DEF FrameOf, Text
<1>5. /\ frames \in [Client -> OfBrowser] /\ readFinal \in [Client -> BOOLEAN]
      /\ partial \in [Client -> Text]
      /\ rp \in [Client -> {"none", "read", "broadcast", "giveUp", "leave", "close", "returned"}]
  BY DEF Types, ConnTypes, PumpTypes
<1>6. /\ frames' = [frames EXCEPT ![c] = Append(@, f)] /\ hubLog' = hubLog /\ rp[c] = "read"
      /\ frames'[c] = Append(frames[c], f)
      /\ rp'[c] = IF ~ok THEN "leave" ELSE IF f.op \in Data /\ f.fin THEN "broadcast" ELSE "read"
  BY <1>1, <1>5 DEF advanceFrame, ReadFrame, hubVars
<1>7. /\ \A d \in Client \ {c} : /\ frames'[d] = frames[d] /\ readFinal'[d] = readFinal[d]
                                 /\ partial'[d] = partial[d] /\ rp'[d] = rp[d]
  BY <1>1, <1>5 DEF advanceFrame
<1>8. ASSUME NEW d \in Client, d # c PROVE HearingAt(d)'
  BY <1>6, <1>7, <1>8, HearingStays DEF Hears
<1>9. Hearing(c, DataOf(frames[c]), Starts(frames[c]), Finals(frames[c]), Heard(c, hubLog),
              Ends(c, hubLog), partial[c], readFinal[c], "read")
  BY <1>6 DEF Hears, HearingAt
<1>10. /\ DataOf(frames'[c]) = DataOf(frames[c]) \o Carried(f)
       /\ Starts(frames'[c]) =
             Starts(frames[c]) \cup (IF f.op = "text" THEN {Len(DataOf(frames[c]))} ELSE {})
       /\ Finals(frames'[c]) =
             Finals(frames[c]) \cup (IF f.op \in Data /\ f.fin THEN {Len(DataOf(frames'[c]))} ELSE {})
  BY <1>2, <1>3, <1>6, DataAppend, StartsAppend, FinalsAppend DEF OfBrowser
<1>11. ASSUME f.op \notin Data PROVE HearingAt(c)'
  <2>1. DataOf(frames'[c]) = DataOf(frames[c])
    BY <1>2, <1>10, <1>11, TextCat DEF Carried
  <2>2. Starts(frames'[c]) = Starts(frames[c]) /\ Finals(frames'[c]) = Finals(frames[c])
    BY <1>10, <1>11 DEF Data
  <2>3. readFinal' = readFinal /\ partial' = partial
    BY <1>1, <1>3, <1>11 DEF advanceFrame, Data
  <2>4. rp'[c] = "leave" \/ rp'[c] = "read"
    BY <1>6, <1>11
  <2>5. Hearing(c, DataOf(frames[c]), Starts(frames[c]), Finals(frames[c]), Heard(c, hubLog),
                Ends(c, hubLog), partial[c], readFinal[c], rp'[c])
    <3>1. CASE rp'[c] = "read"
      BY <1>9, <3>1
    <3>2. CASE rp'[c] = "leave"
      <4>1. ~ Live("leave")
        BY DEF Live
      <4> QED BY <1>9, <3>2, <4>1, HearsMove
    <3> QED BY <2>4, <3>1, <3>2
  <2>6. Hearing(c, DataOf(frames[c]), Starts(frames'[c]), Finals(frames'[c]), Heard(c, hubLog),
                Ends(c, hubLog), partial[c], readFinal[c], rp'[c])
    BY <2>2, <2>5
  <2>7. hubLog' = hubLog
    BY <1>6
  <2>8. partial'[c] = partial[c] /\ readFinal'[c] = readFinal[c]
    BY <2>3
  <2>9. Hearing(c, DataOf(frames'[c]), Starts(frames'[c]), Finals(frames'[c]), Heard(c, hubLog'),
               Ends(c, hubLog'), partial'[c], readFinal'[c], rp'[c])
    BY <2>1, <2>6, <2>7, <2>8
  <2> QED BY <2>9 DEF HearingAt
<1>12. ASSUME f.op \in Data PROVE HearingAt(c)'
  <2>1. PICK data \in Text, told \in Text, units \in Text, p \in Text, fin \in BOOLEAN :
            /\ data = f.data /\ told = DataOf(frames[c]) /\ units = Heard(c, hubLog)
            /\ p = partial[c] /\ fin = readFinal[c]
    BY <1>2, <1>4
  <2>2. DataOf(frames'[c]) = told \o data
    BY <1>10, <1>12, <2>1 DEF Carried
  <2>3. Len(data) > 0 /\ \A i \in 1 .. Len(data) : data[i] = <<c, Len(told) + i>>
    <3>1. Len(data) \in Nat \ {0}
      BY <1>3, <1>12, <2>1
    <3> QED BY <1>3, <1>12, <2>1, <3>1
  <2>4. Hearing(c, told, Starts(frames[c]), Finals(frames[c]), units, Ends(c, hubLog), p, fin, "read")
    BY <1>9, <2>1
  <2>5. CASE BreaksProtocol(c, f) \/ TooBig(c, f)
    <3>1. ok = FALSE /\ readFinal' = readFinal /\ partial' = partial
      BY <1>1, <2>5 DEF advanceFrame
    <3>2. rp'[c] = "leave"
      BY <1>6, <3>1
    <3>3. /\ \/ Starts(frames'[c]) = Starts(frames[c])
             \/ Starts(frames'[c]) = Starts(frames[c]) \cup {Len(told)}
          /\ \/ Finals(frames'[c]) = Finals(frames[c])
             \/ Finals(frames'[c]) = Finals(frames[c]) \cup {Len(told \o data)}
      BY <1>10, <2>1, <2>2
    <3>4. Hearing(c, told \o data, Starts(frames'[c]), Finals(frames'[c]), units, Ends(c, hubLog),
                  p, fin, "leave")
      BY <2>3, <2>4, <3>3, HearsStop
    <3>5. hubLog' = hubLog /\ p = partial'[c] /\ fin = readFinal'[c]
      BY <1>6, <2>1, <3>1
    <3>6. Hearing(c, DataOf(frames'[c]), Starts(frames'[c]), Finals(frames'[c]), Heard(c, hubLog'),
                 Ends(c, hubLog'), partial'[c], readFinal'[c], rp'[c])
      BY <2>1, <2>2, <3>2, <3>4, <3>5
    <3> QED BY <3>6 DEF HearingAt
  <2>6. CASE ~ (BreaksProtocol(c, f) \/ TooBig(c, f))
    <3>1. /\ f.op = "text" <=> fin
          /\ f.op \notin {"ping", "close"}
      <4>1. f.op \in {"text", "cont"}
        BY <1>12 DEF Data
      <4> QED BY <2>1, <2>6, <4>1 DEF BreaksProtocol
    <3>2. /\ ok = TRUE /\ readFinal' = [readFinal EXCEPT ![c] = f.fin]
          /\ partial' = [partial EXCEPT ![c] = @ \o f.data]
      BY <1>1, <1>12, <2>6, <3>1 DEF advanceFrame
    <3>3. readFinal'[c] = f.fin /\ partial'[c] = p \o data
      BY <1>5, <2>1, <3>2
    <3>4. \/ Starts(frames'[c]) = Starts(frames[c]) \cup {Len(told)} /\ fin
          \/ Starts(frames'[c]) = Starts(frames[c]) /\ ~ fin
      BY <1>10, <2>1, <3>1
    <3>5. \/ /\ Finals(frames'[c]) = Finals(frames[c]) \cup {Len(told \o data)}
             /\ f.fin /\ rp'[c] = "broadcast"
          \/ Finals(frames'[c]) = Finals(frames[c]) /\ ~ f.fin /\ rp'[c] = "read"
      BY <1>6, <1>10, <1>12, <2>2, <3>2
    <3>6. Hearing(c, told \o data, Starts(frames'[c]), Finals(frames'[c]), units, Ends(c, hubLog),
                  p \o data, f.fin, rp'[c])
      BY <2>3, <2>4, <3>4, <3>5, HearsData
    <3>7. hubLog' = hubLog
      BY <1>6
    <3>8. Hearing(c, DataOf(frames'[c]), Starts(frames'[c]), Finals(frames'[c]), Heard(c, hubLog'),
                 Ends(c, hubLog'), partial'[c], readFinal'[c], rp'[c])
      BY <2>1, <2>2, <3>3, <3>6, <3>7
    <3> QED BY <3>8 DEF HearingAt
  <2> QED BY <2>5, <2>6
<1> QED BY <1>8, <1>11, <1>12 DEF Hears

LEMMA SendToHubHears ==
    ASSUME Types, Hears, NEW c \in Client, SendToHub(c)
    PROVE  Hears'
<1>1. PICK p \in Text, log \in Texts : p = partial[c] /\ log = hubLog
  BY HeardTypes
<1>2. PICK e : e = <<>>
  OBVIOUS
<1>3. /\ rp[c] = "broadcast" /\ hubLog' = Append(log, p) /\ partial' = [partial EXCEPT ![c] = e]
      /\ \E pc \in {"read", "giveUp", "leave"} : rp' = [rp EXCEPT ![c] = pc]
      /\ UNCHANGED <<frames, readFinal>>
  BY <1>1, <1>2 DEF SendToHub, Broadcast
<1>4. /\ partial \in [Client -> Text]
      /\ rp \in [Client -> {"none", "read", "broadcast", "giveUp", "leave", "close", "returned"}]
  BY DEF Types, ConnTypes, PumpTypes
<1>5. /\ partial'[c] = e /\ rp'[c] \in {"read", "giveUp", "leave"}
      /\ \A d \in Client \ {c} : partial'[d] = partial[d] /\ rp'[d] = rp[d]
  BY <1>3, <1>4
<1>6. /\ DataOf(frames[c]) \in Text /\ Heard(c, log) \in Text /\ readFinal[c] \in BOOLEAN
  BY <1>1, HeardTypes
<1>7. Hearing(c, DataOf(frames[c]), Starts(frames[c]), Finals(frames[c]), Heard(c, log),
              Ends(c, log), p, readFinal[c], "broadcast")
  BY <1>1, <1>3 DEF Hears, HearingAt
<1>8. p[1][1] = c
  BY <1>6, <1>7, HeardFirst
<1>9. ASSUME NEW d
      PROVE  /\ Heard(d, Append(log, p)) = Heard(d, log) \o HeardOf(d, p)
             /\ Ends(d, Append(log, p)) =
                   Ends(d, log) \cup (IF p[1][1] = d THEN {Len(Heard(d, Append(log, p)))} ELSE {})
  BY HeardAppend, EndsAppend DEF Texts, Text
<1>10. ASSUME NEW d \in Client, d # c PROVE HearingAt(d)'
  <2>1. Heard(d, log) \in Text
    BY <1>1, HeardTypes
  <2>2. Heard(d, Append(log, p)) = Heard(d, log) /\ Ends(d, Append(log, p)) = Ends(d, log)
    BY <1>8, <1>9, <1>10, <2>1, TextCat DEF HeardOf
  <2>3. HearingAt(d)
    BY DEF Hears
  <2> QED BY <1>1, <1>3, <1>5, <1>10, <2>2, <2>3, HearingStays
<1>11. HearingAt(c)'
  <2>1. /\ Heard(c, Append(log, p)) = Heard(c, log) \o p
        /\ Ends(c, Append(log, p)) = Ends(c, log) \cup {Len(Heard(c, log) \o p)}
    BY <1>8, <1>9 DEF HeardOf
  <2>2. Hearing(c, DataOf(frames[c]), Starts(frames[c]), Finals(frames[c]), Heard(c, log) \o p,
                Ends(c, Append(log, p)), <<>>, readFinal[c], rp'[c])
    BY <1>5, <1>6, <1>7, <2>1, HearsBroadcast
  <2> QED BY <1>2, <1>3, <1>5, <2>1, <2>2 DEF HearingAt
<1> QED BY <1>10, <1>11 DEF Hears

\* Every step keeps what is heard.
LEMMA NextHears ==
    ASSUME Types, Pumps, Hears, [Next]_vars
    PROVE  Hears'
<1>1. ASSUME UNCHANGED <<readVars, hubLog, rp>>
      PROVE  Hears'
  <2>1. \A d \in Client : HearingAt(d)'
    BY <1>1, HearingStays DEF Hears, readVars
  <2> QED BY <2>1 DEF Hears
<1>2. ASSUME NEW c \in Client, UNCHANGED <<readVars, hubLog>>,
             \/ \E pc \in {"leave", "close", "returned"} : rp' = [rp EXCEPT ![c] = pc]
             \/ rp[c] = "none" /\ rp' = [rp EXCEPT ![c] = "read"]
      PROVE  Hears'
  <2>1. rp \in [Client -> {"none", "read", "broadcast", "giveUp", "leave", "close", "returned"}]
    BY DEF Types, PumpTypes
  <2>2. /\ rp'[c] \in {"leave", "close", "returned"} \/ (rp[c] = "none" /\ rp'[c] = "read")
        /\ \A d \in Client \ {c} : rp'[d] = rp[d]
    BY <1>2, <2>1
  <2>3. ASSUME NEW d \in Client PROVE HearingAt(d)'
    <3>1. rp'[d] = rp[d] \/ rp'[d] \in {"leave", "close", "returned"} \/ (rp[d] = "none" /\ rp'[d] = "read")
      BY <2>2
    <3> QED BY <1>2, <3>1, HearingStays DEF Hears, readVars
  <2> QED BY <2>3 DEF Hears
<1>3. CASE UNCHANGED vars
  BY <1>1, <1>3 DEF vars, connVars, hubVars, pumpVars
<1>4. ASSUME NEW c \in Client, Register(c) PROVE Hears'
  <2>1. rp[c] = "none"
    BY <1>4 DEF Pumps, Fresh, Register
  <2> QED BY <1>2, <1>4, <2>1 DEF Register
<1>5. ASSUME NEW c \in Client, BrowserLeaves(c) \/ GiveUp(c) PROVE Hears'
  BY <1>1, <1>5 DEF BrowserLeaves, GiveUp, connVars, hubVars, pumpVars
<1>6. ASSUME NEW c \in Client, ReadFails(c) \/ ReadTimesOut(c) PROVE Hears'
  BY <1>2, <1>6 DEF ReadFails, ReadTimesOut, connVars, hubVars
<1>7. ASSUME NEW c \in Client, Leave(c) \/ ReadPumpReturns(c) PROVE Hears'
  BY <1>2, <1>7 DEF Leave, ReadPumpReturns, Unregister, connVars, hubVars
<1>8. ASSUME NEW c \in Client, SendToHub(c) PROVE Hears'
  BY <1>8, SendToHubHears
<1>9. ASSUME NEW c \in Client, ReadFrame(c) PROVE Hears'
  BY <1>9, ReadFrameHears
<1>10. ASSUME NEW c \in Client, WritePump(c) \/ Ping(c) PROVE Hears'
  <2>1. UNCHANGED <<readVars, hubLog, rp>>
    BY <1>10 DEF WritePump, TakeMessage, TakeResult, FlushFull, FinishMessage, TakeClosed, Ping,
              hubVars
  <2> QED BY <1>1, <2>1
<1> QED BY <1>3, <1>4, <1>5, <1>6, <1>7, <1>8, <1>9, <1>10 DEF Next, ReadPump

-----------------------------------------------------------------------------
\* What holds of every behaviour.

Inv == Types /\ Pumps /\ Written /\ Hears

LEMMA Invariant ==
    Spec => []Inv
<1>1. Init => Inv
  BY InitTypes, InitWritten, InitHears DEF Inv
<1>2. Inv /\ [Next]_vars => Inv'
  BY NextWritten, NextHears DEF Inv
<1> QED BY <1>1, <1>2, PTL DEF Spec

\* Every variable of the hub and of the connections has its type; the hub closes the
\* channel of a client only when it takes the client out of its map, so that it never
\* sends on a closed channel (hub.go:47), no channel holds more messages than its places
\* and no message longer than the read limit is put together (conn.go:858).
THEOREM TypesCorrect == Spec => []TypeOK
<1>1. ASSUME Inv
      PROVE  TypeOK
  BY <1>1 DEF Inv, Types, ConnTypes, HubTypes, TypeOK
<1> QED BY <1>1, Invariant, PTL

\* readPump answers control frames between the frames of writePump (conn.go:401), and
\* still the frames of every message follow each other, with nothing after a close
\* message or a write that failed.
THEOREM FramesFollow == Spec => []FramesInOrder
<1>1. ASSUME Inv
      PROVE  FramesInOrder
  <2>1. ASSUME NEW c \in Client PROVE Ordered(wire[c])
    BY <1>1 DEF Inv, Written, OrderlyAt, Orderly
  <2> QED BY <2>1 DEF Ordered, FramesInOrder
<1> QED BY <1>1, Invariant, PTL

\* What ends with another sequence begins with the first.
LEMMA Prefix ==
    ASSUME NEW s \in Text, NEW rest \in Text
    PROVE  IsPrefix(s, s \o rest)
<1>1. PICK n \in Nat, m \in Nat : n = Len(s) /\ m = Len(rest)
  BY Sets
<1>2. Len(s \o rest) = n + m /\ n <= n + m
  BY <1>1, TextLen
<1>3. SubSeq(s, 1, n) = SubSeq(s \o rest, 1, n)
  <2>1. CASE n = 0
    <3>1. 1 \in Int /\ 0 \in Int /\ 0 < 1
      OBVIOUS
    <3>2. SubSeq(s, 1, 0) = <<>> /\ SubSeq(s \o rest, 1, 0) = <<>>
      BY <3>1, SubSeqEmpty
    <3> QED BY <2>1, <3>2
  <2>2. CASE n # 0
    <3>1. 1 \in 1 .. Len(s) /\ n \in 1 .. Len(s)
      BY <1>1, <2>2
    <3> QED BY <3>1, SubSeqOfConcat1 DEF Text
  <2> QED BY <2>1, <2>2
<1> QED BY <1>1, <1>2, <1>3 DEF IsPrefix

\* What writePump puts on the wire, from the channel, several messages in one or one in
\* several frames (extClient.go:155), are the broadcasts since the browser registered: in
\* order, whole, and each once.
THEOREM BroadcastsAreDelivered == Spec => []DeliversBroadcasts
<1>1. ASSUME Inv
      PROVE  DeliversBroadcasts
  <2>1. ASSUME NEW c \in Client PROVE IsPrefix(Shown(c), Due(c))
    <3>1. PICK rest \in Text : Due(c) = Shown(c) \o rest
      BY <1>1 DEF Inv, Written, DeliversAt, Delivering
    <3>2. Shown(c) \in Text
      BY <1>1, ShownType DEF Inv
    <3> QED BY <3>1, <3>2, Prefix
  <2> QED BY <2>1 DEF DeliversBroadcasts, Shown, Due
<1> QED BY <1>1, Invariant, PTL

\* The messages that the hub takes of a browser are those that it sent, from a text frame
\* to the first final one, in order and without a gap, whatever control frames it puts
\* between them and wherever reading ends (conn.go:1024).
THEOREM MessagesReachTheHub == Spec => []BroadcastsAreMessages
<1>1. ASSUME Inv
      PROVE  BroadcastsAreMessages
  <2> SUFFICES ASSUME NEW c \in Client, NEW units, units = Heard(c, hubLog)
               PROVE  /\ units = [i \in DOMAIN units |-> <<c, i>>]
                      /\ \A i \in DOMAIN units :
                            /\ i \in Finals(frames[c]) <=> i \in Ends(c, hubLog)
                            /\ i - 1 \in Starts(frames[c]) <=> i - 1 \in Ends(c, hubLog) \cup {0}
    BY DEF BroadcastsAreMessages
  <2>1. /\ HearingAt(c) /\ units \in Text /\ partial[c] \in Text
    BY <1>1, HeardTypes DEF Inv, Hears
  <2>2. PICK n \in Nat : n = Len(units) /\ DOMAIN units = 1 .. n
    BY <2>1 DEF Text
  <2>3. PICK rest \in Text, p \in Text : DataOf(frames[c]) = (units \o p) \o rest
    BY <2>1 DEF HearingAt, Hearing
  <2>4. DataOf(frames[c]) = units \o (p \o rest) /\ p \o rest \in Text
    BY <2>1, <2>3, TextCat
  <2>5. ASSUME NEW i \in 1 .. n PROVE units[i] = <<c, i>>
    <3>1. PICK t \in Text : t = p \o rest
      BY <2>4
    <3>2. /\ (units \o t)[i] = units[i] /\ Len(units \o t) = n + Len(t) /\ Len(t) \in Nat
      BY <2>1, <2>2, TextLen
    <3>3. i \in 1 .. Len(units \o t)
      BY <3>2
    <3>4. Numbered(c, units \o t)
      BY <2>1, <2>4, <3>1 DEF HearingAt, Hearing
    <3> QED BY <3>2, <3>3, <3>4 DEF Numbered
  <2>6. units = [i \in 1 .. n |-> <<c, i>>]
    <3>1. units = [i \in 1 .. n |-> units[i]]
      BY <2>1, <2>2 DEF Text
    <3> QED BY <2>5, <3>1
  <2>7. Marks(Starts(frames[c]), Finals(frames[c]), Ends(c, hubLog), n)
    BY <2>1, <2>2 DEF HearingAt, Hearing
  <2> QED BY <2>2, <2>6, <2>7 DEF Marks
<1> QED BY <1>1, Invariant, PTL
=============================================================================
