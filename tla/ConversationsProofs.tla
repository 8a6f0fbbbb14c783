------------------------ MODULE ConversationsProofs ------------------------
(***************************************************************************)
(* Proofs about Conversations, for every value of its constants.           *)
(***************************************************************************)
EXTENDS Conversations, WellFoundedInduction, SequenceTheorems, TLAPS

-----------------------------------------------------------------------------
(***************************************************************************)
(* Induction, in a form that the provers can use: over a set of numbers,   *)
(* or of sequences, that has the first one and, with any one, the next.    *)
(***************************************************************************)
LEMMA SetInduction ==
    ASSUME NEW T, 0 \in T, \A n \in Nat : n \in T => n + 1 \in T
    PROVE  Nat \subseteq T
<1> DEFINE R == OpToRel(<, Nat)
           B == Nat \ T
<1> SUFFICES ASSUME B # {} PROVE FALSE
  OBVIOUS
<1>1. IsWellFoundedOn(R, Nat)
  BY NatLessThanWellFounded
<1>2. PICK x \in B : \A y \in B : ~ (<<y, x>> \in R)
  <2>1. B \subseteq Nat
    OBVIOUS
  <2> HIDE DEF R, B
  <2> QED BY <1>1, <2>1, WFMin
<1>3. x \in Nat /\ x # 0 /\ x \notin T
  BY <1>2
<1>4. x - 1 \in Nat /\ x - 1 < x
  BY <1>3
<1>5. <<x - 1, x>> \in R
  BY <1>3, <1>4 DEF OpToRel
<1>6. x - 1 \in T
  BY <1>2, <1>4, <1>5
<1> QED BY <1>3, <1>4, <1>6

LEMMA SeqInduction ==
    ASSUME NEW S, NEW T, <<>> \in T,
           \A s \in Seq(S), x \in S : s \in T => Append(s, x) \in T
    PROVE  Seq(S) \subseteq T
<1> DEFINE N == {n \in Nat : \A s \in Seq(S) : Len(s) = n => s \in T}
<1>1. 0 \in N
  BY EmptySeq
<1>2. ASSUME NEW n \in Nat, n \in N PROVE n + 1 \in N
  <2>1. SUFFICES ASSUME NEW s \in Seq(S), Len(s) = n + 1 PROVE s \in T
    OBVIOUS
  <2>2. s # <<>>
    BY <2>1
  <2>3. PICK f \in Seq(S), x \in S : s = Append(f, x)
    BY <2>2, SequenceEmptyOrAppend
  <2>4. Len(f) = n
    BY <2>1, <2>3, AppendProperties, LenProperties
  <2> QED BY <1>2, <2>3, <2>4
<1>3. Nat \subseteq N
  <2> HIDE DEF N
  <2> QED BY <1>1, <1>2, SetInduction
<1> QED BY <1>3, LenProperties

-----------------------------------------------------------------------------
(***************************************************************************)
(* The function by which FlattenSeq is defined: f[i] is all that the first *)
(* i sequences have.                                                       *)
(***************************************************************************)
Flat(s, f) == f = [i \in 1 .. Len(s) |-> IF i = 1 THEN s[i] ELSE f[i - 1] \o s[i]]

LEMMA FlatFirst ==
    ASSUME NEW s, NEW f, Flat(s, f), 1 \in 1 .. Len(s)
    PROVE  f[1] = s[1]
BY DEF Flat

LEMMA FlatNext ==
    ASSUME NEW s, NEW f, Flat(s, f)
    PROVE  \A i \in 1 .. Len(s) : i # 1 => f[i] = f[i - 1] \o s[i]
BY DEF Flat

LEMMA FlatUnique ==
    ASSUME NEW s, NEW f, Flat(s, f), NEW t, NEW g, Flat(t, g),
           Len(s) \in Nat, Len(t) \in Nat, Len(s) <= Len(t), \A i \in 1 .. Len(s) : s[i] = t[i]
    PROVE  \A i \in 1 .. Len(s) : f[i] = g[i]
<1> DEFINE N == {n \in Nat : \A i \in 1 .. Len(s) : i = n + 1 => f[i] = g[i]}
<1>1. Len(s) \in Nat /\ Len(t) \in Nat
  OBVIOUS
<1>2. 0 \in N
  <2>1. ASSUME 1 \in 1 .. Len(s) PROVE f[1] = g[1]
    BY <1>1, <2>1, FlatFirst
  <2> QED BY <2>1
<1>3. ASSUME NEW n \in Nat, n \in N PROVE n + 1 \in N
  <2>1. SUFFICES ASSUME NEW i \in 1 .. Len(s), i = n + 2 PROVE f[i] = g[i]
    OBVIOUS
  <2>2. PICK j \in 1 .. Len(s) : j = i - 1
    BY <1>1, <2>1
  <2>3. j = n + 1 /\ i # 1
    BY <2>1, <2>2
  <2>4. f[j] = g[j]
    BY <1>3, <2>3
  <2>5. f[i] = f[j] \o s[i]
    <3>1. \A k \in 1 .. Len(s) : k # 1 => f[k] = f[k - 1] \o s[k]
      BY FlatNext
    <3> QED BY <2>2, <2>3, <3>1
  <2>6. g[i] = g[j] \o t[i]
    <3>1. i \in 1 .. Len(t)
      BY <1>1
    <3>2. \A k \in 1 .. Len(t) : k # 1 => g[k] = g[k - 1] \o t[k]
      BY FlatNext
    <3> QED BY <2>2, <2>3, <3>1, <3>2
  <2> QED BY <2>4, <2>5, <2>6
<1>4. Nat \subseteq N
  <2> HIDE DEF N
  <2> QED BY <1>2, <1>3, SetInduction
<1>5. ASSUME NEW i \in 1 .. Len(s) PROVE f[i] = g[i]
  <2>1. i - 1 \in Nat /\ i = (i - 1) + 1
    BY <1>1
  <2>2. i - 1 \in N
    BY <1>4, <2>1
  <2> QED BY <2>1, <2>2
<1> QED BY <1>5

LEMMA FlatExists ==
    ASSUME NEW S, NEW s \in Seq(S)
    PROVE  \E f : Flat(s, f)
<1> DEFINE T == {t \in Seq(S) : \E f : Flat(t, f)}
<1>1. <<>> \in T
  <2>1. Flat(<<>>, [i \in 1 .. 0 |-> 0])
    BY EmptySeq DEF Flat
  <2> QED BY <2>1, EmptySeq
<1>2. ASSUME NEW t \in Seq(S), NEW x \in S, t \in T PROVE Append(t, x) \in T
  <2> DEFINE u == Append(t, x)
             n == Len(t)
  <2>1. PICK f : Flat(t, f)
    BY <1>2
  <2> DEFINE g == [i \in 1 .. n + 1 |-> IF i <= n THEN f[i] ELSE IF n = 0 THEN x ELSE f[n] \o x]
  <2>2. n \in Nat /\ u \in Seq(S) /\ Len(u) = n + 1 /\ u[n + 1] = x /\ \A i \in 1 .. n : u[i] = t[i]
    BY AppendProperties, LenProperties
  <2>3. ASSUME NEW i \in 1 .. n + 1
        PROVE  g[i] = IF i = 1 THEN u[i] ELSE g[i - 1] \o u[i]
    <3>1. CASE i = n + 1
      BY <2>2, <3>1
    <3>2. CASE i \in 1 .. n
      <4>1. f[i] = IF i = 1 THEN t[i] ELSE f[i - 1] \o t[i]
        BY <2>1, <3>2 DEF Flat
      <4>2. g[i] = f[i] /\ (i # 1 => g[i - 1] = f[i - 1])
        BY <2>2, <3>2
      <4> QED BY <2>2, <3>2, <4>1, <4>2
    <3> QED BY <2>2, <3>1, <3>2
  <2>4. g = [i \in 1 .. n + 1 |-> IF i = 1 THEN u[i] ELSE g[i - 1] \o u[i]]
    <3> HIDE DEF u, n
    <3>1. g = [i \in 1 .. n + 1 |-> g[i]]
      OBVIOUS
    <3> HIDE DEF g
    <3> QED BY <2>3, <3>1
  <2>5. Flat(u, g)
    <3> HIDE DEF u, g, n
    <3> QED BY <2>2, <2>4 DEF Flat
  <2> QED BY <2>2, <2>5
<1>3. Seq(S) \subseteq T
  <2> HIDE DEF T
  <2> QED BY <1>1, <1>2, SeqInduction
<1> QED BY <1>3

LEMMA FlattenIs ==
    ASSUME NEW S, NEW s \in Seq(S), s # <<>>, NEW f, Flat(s, f)
    PROVE  FlattenSeq(s) = f[Len(s)]
<1> DEFINE g == CHOOSE g : Flat(s, g)
<1>1. Flat(s, g)
  BY FlatExists
<1>2. Len(s) \in Nat /\ Len(s) # 0
  BY LenProperties, EmptySeq
<1>3. FlattenSeq(s) = g[Len(s)]
  BY <1>2 DEF FlattenSeq, Flat
<1>4. f[Len(s)] = g[Len(s)]
  <2> HIDE DEF g
  <2> QED BY <1>1, <1>2, FlatUnique
<1> QED BY <1>3, <1>4

LEMMA FlattenEmpty == FlattenSeq(<<>>) = <<>>
BY EmptySeq DEF FlattenSeq

LEMMA FlattenOne ==
    ASSUME NEW S, NEW x \in Seq(S)
    PROVE  FlattenSeq(<<x>>) = x
<1>1. <<x>> \in Seq(Seq(S)) /\ Len(<<x>>) = 1 /\ <<x>> # <<>>
  OBVIOUS
<1>2. PICK f : Flat(<<x>>, f)
  BY <1>1, FlatExists
<1>3. f[1] = x
  BY <1>1, <1>2 DEF Flat
<1> QED BY <1>1, <1>2, <1>3, FlattenIs

LEMMA FlattenLonger ==
    ASSUME NEW S, NEW s \in Seq(S), s # <<>>, NEW u \in Seq(S), Len(u) = Len(s) + 1,
           \A i \in 1 .. Len(s) : s[i] = u[i]
    PROVE  FlattenSeq(u) = FlattenSeq(s) \o u[Len(u)]
<1> DEFINE n == Len(s)
<1>1. n \in Nat /\ n # 0 /\ Len(u) = n + 1 /\ u # <<>>
  BY LenProperties, EmptySeq
<1>2. PICK f : Flat(s, f)
  BY FlatExists
<1>3. PICK g : Flat(u, g)
  BY FlatExists
<1>4. FlattenSeq(s) = f[n]
  BY <1>2, FlattenIs
<1>5. FlattenSeq(u) = g[n + 1]
  <2> HIDE DEF n
  <2> QED BY <1>1, <1>3, FlattenIs
<1>6. f[n] = g[n]
  <2>1. Len(s) \in Nat /\ Len(u) \in Nat /\ Len(s) <= Len(u)
    BY <1>1
  <2>2. \A i \in 1 .. Len(s) : f[i] = g[i]
    BY <1>2, <1>3, <2>1, FlatUnique
  <2> QED BY <1>1, <2>2
<1>7. g[n + 1] = g[n] \o u[n + 1]
  <2>1. PICK i \in 1 .. Len(u) : i = n + 1
    BY <1>1
  <2>2. n = i - 1 /\ i # 1
    BY <1>1, <2>1
  <2>3. g[i] = g[n] \o u[i]
    <3> HIDE DEF n
    <3>1. \A k \in 1 .. Len(u) : k # 1 => g[k] = g[k - 1] \o u[k]
      BY <1>3, FlatNext
    <3> QED BY <2>2, <3>1
  <2> QED BY <2>1, <2>3
<1> QED BY <1>1, <1>4, <1>5, <1>6, <1>7

LEMMA FlattenAppend ==
    ASSUME NEW S, NEW s \in Seq(Seq(S)), NEW x \in Seq(S)
    PROVE  FlattenSeq(Append(s, x)) = FlattenSeq(s) \o x
<1>1. CASE s = <<>>
  <2>1. Append(s, x) = <<x>>
    BY <1>1
  <2> QED BY <1>1, <2>1, FlattenOne, FlattenEmpty, ConcatEmptySeq
<1>2. CASE s # <<>>
  <2>1. /\ Append(s, x) \in Seq(Seq(S))
        /\ Len(Append(s, x)) = Len(s) + 1
        /\ Append(s, x)[Len(s) + 1] = x
        /\ \A i \in 1 .. Len(s) : s[i] = Append(s, x)[i]
    BY AppendProperties, LenProperties
  <2> QED BY <1>2, <2>1, FlattenLonger
<1> QED BY <1>1, <1>2

LEMMA FlattenType ==
    ASSUME NEW S, NEW s \in Seq(Seq(S))
    PROVE  FlattenSeq(s) \in Seq(S)
<1> DEFINE T == {t \in Seq(Seq(S)) : FlattenSeq(t) \in Seq(S)}
<1>1. <<>> \in T
  BY EmptySeq, FlattenEmpty
<1>2. ASSUME NEW t \in Seq(Seq(S)), NEW x \in Seq(S), t \in T PROVE Append(t, x) \in T
  <2>1. FlattenSeq(Append(t, x)) = FlattenSeq(t) \o x
    BY FlattenAppend
  <2> QED BY <1>2, <2>1, AppendProperties, ConcatProperties
<1>3. Seq(Seq(S)) \subseteq T
  <2> HIDE DEF T
  <2> QED BY <1>1, <1>2, SeqInduction
<1> QED BY <1>3

LEMMA ConcatAppend ==
    ASSUME NEW S, NEW s \in Seq(S), NEW t \in Seq(S), NEW x \in S
    PROVE  s \o Append(t, x) = Append(s \o t, x)
<1>1. <<x>> \in Seq(S)
  OBVIOUS
<1> QED BY <1>1, AppendIsConcat, ConcatAssociative, ConcatProperties

Grouped(a, b, c) == (a \o b) \o c = a \o (b \o c)

LEMMA GroupedAlways ==
    ASSUME NEW S, NEW a \in Seq(S), NEW b \in Seq(S), NEW c \in Seq(S)
    PROVE  Grouped(a, b, c)
BY ConcatAssociative DEF Grouped

LEMMA FlattenConcat ==
    ASSUME NEW S, NEW s \in Seq(Seq(S)), NEW t \in Seq(Seq(S))
    PROVE  FlattenSeq(s \o t) = FlattenSeq(s) \o FlattenSeq(t)
<1> DEFINE T == {u \in Seq(Seq(S)) : FlattenSeq(s \o u) = FlattenSeq(s) \o FlattenSeq(u)}
<1>1. <<>> \in T
  <2>1. FlattenSeq(s) \in Seq(S)
    BY FlattenType
  <2> QED BY <2>1, EmptySeq, ConcatEmptySeq, FlattenEmpty
<1>2. ASSUME NEW u \in Seq(Seq(S)), NEW x \in Seq(S), u \in T PROVE Append(u, x) \in T
  <2>1. s \o Append(u, x) = Append(s \o u, x) /\ s \o u \in Seq(Seq(S))
    BY ConcatAppend, ConcatProperties
  <2>2. FlattenSeq(Append(s \o u, x)) = (FlattenSeq(s) \o FlattenSeq(u)) \o x
    BY <1>2, <2>1, FlattenAppend
  <2>3. FlattenSeq(Append(u, x)) = FlattenSeq(u) \o x
    BY FlattenAppend
  <2>4. PICK a \in Seq(S), b \in Seq(S) : a = FlattenSeq(s) /\ b = FlattenSeq(u)
    BY FlattenType
  <2>5. (FlattenSeq(s) \o FlattenSeq(u)) \o x = FlattenSeq(s) \o (FlattenSeq(u) \o x)
    <3>1. Grouped(a, b, x)
      BY GroupedAlways
    <3> QED BY <2>4, <3>1 DEF Grouped
  <2> QED BY <2>1, <2>2, <2>3, <2>5, AppendProperties
<1>3. Seq(Seq(S)) \subseteq T
  <2> HIDE DEF T
  <2> QED BY <1>1, <1>2, SeqInduction
<1> QED BY <1>3

-----------------------------------------------------------------------------
(***************************************************************************)
(* What is chosen from a sequence.                                         *)
(***************************************************************************)
Singles(things, places) ==
    [i \in DOMAIN things |-> IF i \in places THEN <<things[i]>> ELSE <<>>]

LEMMA SinglesType ==
    ASSUME NEW S, NEW s \in Seq(S), NEW P, NEW U, \A i \in 1 .. Len(s) : i \in P => s[i] \in U
    PROVE  Singles(s, P) \in Seq(Seq(U)) /\ Len(Singles(s, P)) = Len(s)
<1>1. Len(s) \in Nat /\ DOMAIN s = 1 .. Len(s)
  BY LenProperties
<1>2. ASSUME NEW i \in 1 .. Len(s) PROVE (IF i \in P THEN <<s[i]>> ELSE <<>>) \in Seq(U)
  BY EmptySeq
<1>3. Singles(s, P) \in [1 .. Len(s) -> Seq(U)]
  BY <1>1, <1>2 DEF Singles
<1> QED BY <1>1, <1>3

LEMMA ChosenType ==
    ASSUME NEW S, NEW s \in Seq(S), NEW P, NEW U, \A i \in 1 .. Len(s) : i \in P => s[i] \in U
    PROVE  Chosen(s, P) \in Seq(U)
<1>1. Singles(s, P) \in Seq(Seq(U))
  BY SinglesType
<1> QED BY <1>1, FlattenType DEF Chosen, Singles

LEMMA ChosenFromEmpty ==
    ASSUME NEW P
    PROVE  Chosen(<<>>, P) = <<>>
<1>1. Singles(<<>>, P) = <<>>
  <2>1. \A i \in 1 .. Len(<<>>) : i \in P => <<>>[i] \in {}
    BY EmptySeq
  <2>2. Singles(<<>>, P) \in Seq(Seq({})) /\ Len(Singles(<<>>, P)) = 0
    BY <2>1, SinglesType, EmptySeq
  <2> QED BY <2>2, EmptySeq
<1> QED BY <1>1, FlattenEmpty DEF Chosen, Singles

\* R has the places of P among the first m, and those of Q among the next n.
Joined(P, m, Q, n, R) ==
    /\ \A i \in 1 .. m : i \in R <=> i \in P
    /\ \A j \in 1 .. n : (m + j) \in R <=> j \in Q

LEMMA ChosenConcat ==
    ASSUME NEW S, NEW s \in Seq(S), NEW t \in Seq(S), NEW P, NEW Q, NEW R,
           Joined(P, Len(s), Q, Len(t), R)
    PROVE  Chosen(s \o t, R) = Chosen(s, P) \o Chosen(t, Q)
<1> DEFINE u == s \o t
           a == Singles(s, P)
           b == Singles(t, Q)
           c == Singles(u, R)
<1>1. /\ Len(s) \in Nat /\ Len(t) \in Nat /\ DOMAIN s = 1 .. Len(s) /\ DOMAIN t = 1 .. Len(t)
      /\ u \in Seq(S) /\ Len(u) = Len(s) + Len(t) /\ DOMAIN u = 1 .. Len(u)
  BY LenProperties, ConcatProperties
<1>2. /\ a \in Seq(Seq(S)) /\ Len(a) = Len(s)
      /\ b \in Seq(Seq(S)) /\ Len(b) = Len(t)
      /\ c \in Seq(Seq(S)) /\ Len(c) = Len(u)
  <2> HIDE DEF u
  <2> QED BY <1>1, SinglesType, ElementOfSeq
<1>3. a \o b \in Seq(Seq(S)) /\ Len(a \o b) = Len(u)
  <2> HIDE DEF a, b, u
  <2>1. a \o b \in Seq(Seq(S)) /\ Len(a \o b) = Len(a) + Len(b)
    BY <1>2, ConcatProperties
  <2> QED BY <1>1, <1>2, <2>1
<1>4. ASSUME NEW i \in 1 .. Len(u) PROVE c[i] = (a \o b)[i]
  <2>1. c[i] = IF i \in R THEN <<u[i]>> ELSE <<>>
    BY <1>1 DEF Singles
  <2>2. CASE i <= Len(s)
    <3>1. i \in 1 .. Len(s) /\ u[i] = s[i]
      BY <1>1, <2>2, ConcatProperties
    <3>2. a[i] = IF i \in P THEN <<s[i]>> ELSE <<>>
      BY <1>1, <3>1 DEF Singles
    <3>3. (a \o b)[i] = a[i]
      <4> HIDE DEF a, b, u
      <4> QED BY <1>1, <1>2, <2>2, ConcatProperties
    <3>4. i \in R <=> i \in P
      BY <3>1 DEF Joined
    <3> QED BY <2>1, <3>1, <3>2, <3>3, <3>4
  <2>3. CASE i > Len(s)
    <3>1. PICK j \in 1 .. Len(t) : j = i - Len(s)
      <4>1. i \in 1 .. Len(s) + Len(t)
        BY <1>1
      <4>2. i - Len(s) \in 1 .. Len(t)
        BY <1>1, <2>3, <4>1
      <4> QED BY <4>2
    <3>2. u[i] = t[j] /\ (i \in R <=> j \in Q)
      <4>1. i = Len(s) + j
        BY <1>1, <3>1
      <4>2. i \in R <=> j \in Q
        BY <4>1 DEF Joined
      <4> QED BY <1>1, <2>3, <3>1, <4>2, ConcatProperties
    <3>3. b[j] = IF j \in Q THEN <<t[j]>> ELSE <<>>
      BY <1>1, <3>1 DEF Singles
    <3>4. (a \o b)[i] = b[j]
      <4> HIDE DEF a, b, u
      <4>1. i \in 1 .. Len(a) + Len(b) /\ ~ (i <= Len(a)) /\ j = i - Len(a)
        BY <1>1, <1>2, <2>3, <3>1
      <4>2. (a \o b)[i] = b[i - Len(a)]
        BY <1>2, <4>1, ConcatProperties
      <4> QED BY <4>1, <4>2
    <3> QED BY <2>1, <3>2, <3>3, <3>4
  <2>4. i <= Len(s) \/ i > Len(s)
    <3> HIDE DEF u
    <3> QED BY <1>1
  <2> HIDE DEF a, b, c, u
  <2> QED BY <2>2, <2>3, <2>4
<1>5. c = a \o b
  <2> HIDE DEF a, b, c, u
  <2> QED BY <1>2, <1>3, <1>4, SeqEqual
<1>6. FlattenSeq(a \o b) = FlattenSeq(a) \o FlattenSeq(b)
  <2> HIDE DEF a, b
  <2> QED BY <1>2, FlattenConcat
<1> QED BY <1>5, <1>6 DEF Chosen, Singles

LEMMA ChosenFromOne ==
    ASSUME NEW x, NEW P
    PROVE  Chosen(<<x>>, P) = IF 1 \in P THEN <<x>> ELSE <<>>
<1>1. Singles(<<x>>, P) = <<IF 1 \in P THEN <<x>> ELSE <<>>>>
  BY DEF Singles
<1>2. (IF 1 \in P THEN <<x>> ELSE <<>>) \in Seq({x})
  <2>1. <<x>> \in Seq({x})
    OBVIOUS
  <2> QED BY <2>1, EmptySeq
<1>3. FlattenSeq(Singles(<<x>>, P)) = IF 1 \in P THEN <<x>> ELSE <<>>
  BY <1>1, <1>2, FlattenOne
<1> QED BY <1>3 DEF Chosen, Singles

LEMMA ChosenAppend ==
    ASSUME NEW S, NEW s \in Seq(S), NEW x \in S, NEW P
    PROVE  Chosen(Append(s, x), P) =
               Chosen(s, P) \o IF Len(s) + 1 \in P THEN <<x>> ELSE <<>>
<1> DEFINE Q == IF Len(s) + 1 \in P THEN {1} ELSE {}
           y == <<x>>
<1>1. Append(s, x) = s \o y /\ y \in Seq(S) /\ Len(y) = 1
  BY AppendIsConcat
<1>2. Chosen(y, Q) = IF Len(s) + 1 \in P THEN <<x>> ELSE <<>>
  BY ChosenFromOne
<1>3. Joined(P, Len(s), Q, 1, P)
  BY DEF Joined
<1>4. Chosen(s \o y, P) = Chosen(s, P) \o Chosen(y, Q)
  <2> HIDE DEF Q, y
  <2> QED BY <1>1, <1>3, ChosenConcat
<1> QED BY <1>1, <1>2, <1>4

LEMMA ChosenAll ==
    ASSUME NEW S, NEW s \in Seq(S), NEW P, \A i \in 1 .. Len(s) : i \in P
    PROVE  Chosen(s, P) = s
<1> DEFINE T == {t \in Seq(S) : (\A i \in 1 .. Len(t) : i \in P) => Chosen(t, P) = t}
<1>1. <<>> \in T
  BY EmptySeq, ChosenFromEmpty
<1>2. ASSUME NEW t \in Seq(S), NEW x \in S, t \in T PROVE Append(t, x) \in T
  <2>1. Append(t, x) \in Seq(S) /\ Len(t) \in Nat /\ Len(Append(t, x)) = Len(t) + 1
    BY AppendProperties, LenProperties
  <2>2. SUFFICES ASSUME \A i \in 1 .. Len(Append(t, x)) : i \in P
                 PROVE  Chosen(Append(t, x), P) = Append(t, x)
    BY <2>1
  <2>3. Len(t) + 1 \in P /\ Chosen(t, P) = t
    BY <1>2, <2>1, <2>2
  <2>4. Chosen(Append(t, x), P) = t \o <<x>>
    BY <2>3, ChosenAppend
  <2> QED BY <2>4, AppendIsConcat
<1>3. Seq(S) \subseteq T
  <2> HIDE DEF T
  <2> QED BY <1>1, <1>2, SeqInduction
<1> QED BY <1>3

LEMMA ChosenNone ==
    ASSUME NEW S, NEW s \in Seq(S), NEW P, \A i \in 1 .. Len(s) : i \notin P
    PROVE  Chosen(s, P) = <<>>
<1>1. Chosen(s, P) \in Seq({})
  BY ChosenType
<1> QED BY <1>1, LenProperties, EmptySeq

LEMMA ChosenSome ==
    ASSUME NEW S, NEW s \in Seq(S), NEW P, NEW i \in 1 .. Len(s), i \in P
    PROVE  \E j \in 1 .. Len(Chosen(s, P)) : Chosen(s, P)[j] = s[i]
<1> DEFINE Has(t) == \A k \in 1 .. Len(t) : k \in P =>
                        \E j \in 1 .. Len(Chosen(t, P)) : Chosen(t, P)[j] = t[k]
           T == {t \in Seq(S) : Has(t)}
<1>1. <<>> \in T
  BY EmptySeq
<1>2. ASSUME NEW t \in Seq(S), NEW x \in S, t \in T PROVE Append(t, x) \in T
  <2> DEFINE u == Append(t, x)
             c == Chosen(t, P)
             d == IF Len(t) + 1 \in P THEN <<x>> ELSE <<>>
  <2>1. /\ u \in Seq(S) /\ Len(t) \in Nat /\ Len(u) = Len(t) + 1 /\ u[Len(t) + 1] = x
        /\ \A k \in 1 .. Len(t) : u[k] = t[k]
    BY AppendProperties, LenProperties
  <2>2. Chosen(u, P) = c \o d
    BY ChosenAppend
  <2>3. c \in Seq(S) /\ d \in Seq(S) /\ Len(c) \in Nat /\ Len(d) \in Nat
    BY ChosenType, ElementOfSeq, EmptySeq, LenProperties
  <2>4. ASSUME NEW k \in 1 .. Len(u), k \in P
        PROVE  \E j \in 1 .. Len(c \o d) : (c \o d)[j] = u[k]
    <3> HIDE DEF u
    <3>1. CASE k \in 1 .. Len(t)
      <4>1. PICK j \in 1 .. Len(c) : c[j] = t[k]
        BY <1>2, <2>4, <3>1
      <4> HIDE DEF c, d
      <4>2. j \in 1 .. Len(c \o d) /\ (c \o d)[j] = c[j]
        BY <2>3, ConcatProperties
      <4> QED BY <2>1, <3>1, <4>1, <4>2
    <3>2. CASE k = Len(t) + 1
      <4>1. d = <<x>> /\ Len(d) = 1 /\ d[1] = x
        BY <2>4, <3>2
      <4> HIDE DEF c, d
      <4>2. Len(c) + 1 \in 1 .. Len(c \o d) /\ (c \o d)[Len(c) + 1] = d[1]
        BY <2>3, <4>1, ConcatProperties
      <4> QED BY <2>1, <3>2, <4>1, <4>2
    <3> QED BY <2>1, <3>1, <3>2
  <2>5. Has(u)
    <3> HIDE DEF u, d
    <3> QED BY <2>2, <2>4
  <2> QED BY <2>1, <2>5
<1>3. Seq(S) \subseteq T
  <2> HIDE DEF T
  <2> QED BY <1>1, <1>2, SeqInduction
<1>4. Has(s)
  BY <1>3
<1> QED BY <1>4

-----------------------------------------------------------------------------
(***************************************************************************)
(* Totals.  Sums says of the function of the fold that Total is, that it   *)
(* adds what is at the last of some positions to what is at the others.    *)
(***************************************************************************)
Sums(s, n, f) ==
    f = [T \in SUBSET (1 .. n) |-> IF T = {} THEN 0 ELSE f[T \ {Max(T)}] + s[Max(T)]]

Alike(s, t, n) == \A i \in 1 .. n : s[i] = t[i]

LEMMA MaxIs ==
    ASSUME NEW T, T \subseteq Int, NEW m \in T, \A y \in T : y <= m
    PROVE  Max(T) = m
<1>1. \A y \in T : m >= y
  OBVIOUS
<1>2. PICK x \in T : x = Max(T) /\ \A y \in T : x >= y
  BY <1>1 DEF Max
<1>3. x >= m /\ m >= x
  BY <1>1, <1>2
<1> QED BY <1>2, <1>3

LEMMA MaxExists ==
    ASSUME NEW n \in Nat, NEW T \in SUBSET (1 .. n), T # {}
    PROVE  Max(T) \in T
<1> DEFINE N == {k \in Nat : \A U \in SUBSET (1 .. k) :
                    U # {} => \E x \in U : \A y \in U : y <= x}
<1>1. 0 \in N
  <2>1. 1 .. 0 = {}
    OBVIOUS
  <2> QED BY <2>1
<1>2. ASSUME NEW k \in Nat, k \in N PROVE k + 1 \in N
  <2>1. SUFFICES ASSUME NEW U \in SUBSET (1 .. k + 1), U # {}
                 PROVE  \E x \in U : \A y \in U : y <= x
    OBVIOUS
  <2>2. CASE k + 1 \in U
    BY <2>2
  <2>3. CASE k + 1 \notin U
    <3>1. U \in SUBSET (1 .. k)
      BY <2>3
    <3> QED BY <1>2, <2>1, <3>1
  <2> QED BY <2>2, <2>3
<1>3. Nat \subseteq N
  <2> HIDE DEF N
  <2> QED BY <1>1, <1>2, SetInduction
<1>4. PICK x \in T : \A y \in T : y <= x
  BY <1>3
<1>5. T \subseteq Int
  OBVIOUS
<1>6. Max(T) = x
  BY <1>4, <1>5, MaxIs
<1> QED BY <1>4, <1>6

LEMMA SumsAt ==
    ASSUME NEW s, NEW n, NEW f, Sums(s, n, f), NEW T \in SUBSET (1 .. n), T # {}, NEW m, m = Max(T)
    PROVE  f[T] = f[T \ {m}] + s[m]
BY DEF Sums

LEMMA SumsNone ==
    ASSUME NEW s, NEW n, NEW f, Sums(s, n, f)
    PROVE  f[{}] = 0
BY DEF Sums

LEMMA SumsUnique ==
    ASSUME NEW s, NEW t, NEW n \in Nat, NEW m \in Nat, n <= m, Alike(s, t, n),
           NEW f, Sums(s, n, f), NEW g, Sums(t, m, g)
    PROVE  f[1 .. n] = g[1 .. n]
<1> DEFINE N == {k \in Nat : k <= n => f[1 .. k] = g[1 .. k]}
<1>1. 0 \in N
  <2>1. 1 .. 0 = {}
    OBVIOUS
  <2> QED BY <2>1, SumsNone
<1>2. ASSUME NEW k \in Nat, k \in N PROVE k + 1 \in N
  <2>1. SUFFICES ASSUME k + 1 <= n PROVE f[1 .. k + 1] = g[1 .. k + 1]
    OBVIOUS
  <2>2. PICK j \in 1 .. n : j = k + 1
    BY <2>1
  <2>3. PICK T \in SUBSET (1 .. n) : T = 1 .. j
    OBVIOUS
  <2>4. T \in SUBSET (1 .. m) /\ T # {} /\ T \ {j} = 1 .. k
    BY <2>2, <2>3
  <2>5. j = Max(T)
    <3>1. T \subseteq Int /\ j \in T /\ \A y \in T : y <= j
      BY <2>3
    <3> QED BY <3>1, MaxIs
  <2>6. f[T] = f[T \ {j}] + s[j]
    BY <2>4, <2>5, SumsAt
  <2>7. g[T] = g[T \ {j}] + t[j]
    BY <2>4, <2>5, SumsAt
  <2>8. f[1 .. k] = g[1 .. k] /\ s[j] = t[j]
    BY <1>2, <2>1 DEF Alike
  <2>9. f[T] = g[T]
    BY <2>4, <2>6, <2>7, <2>8
  <2> QED BY <2>2, <2>3, <2>9
<1>3. Nat \subseteq N
  <2> HIDE DEF N
  <2> QED BY <1>1, <1>2, SetInduction
<1> QED BY <1>3

LEMMA SumsStep ==
    ASSUME NEW s, NEW u, NEW n \in Nat, NEW z \in Nat, z = n + 1, Alike(s, u, n),
           NEW f, Sums(s, n, f), NEW g, Sums(u, z, g)
    PROVE  g[1 .. z] = f[1 .. n] + u[z]
<1>1. f[1 .. n] = g[1 .. n]
  <2>1. PICK m \in Nat : m = z
    OBVIOUS
  <2>2. n <= m /\ Sums(u, m, g) /\ Alike(s, u, n)
    BY <2>1
  <2> QED BY <2>2, SumsUnique
<1>2. PICK T \in SUBSET (1 .. z) : T = 1 .. z
  OBVIOUS
<1>3. T # {} /\ T \ {z} = 1 .. n
  <2>1. ASSUME NEW i PROVE i \in T \ {z} <=> i \in 1 .. n
    BY <1>2
  <2>2. z \in T
    BY <1>2
  <2> QED BY <2>1, <2>2
<1>4. z = Max(T)
  <2>1. T \subseteq Int /\ z \in T /\ \A y \in T : y <= z
    BY <1>2
  <2> QED BY <2>1, MaxIs
<1>5. g[T] = g[T \ {z}] + u[z]
  BY <1>3, <1>4, SumsAt
<1> QED BY <1>1, <1>2, <1>3, <1>5

LEMMA SumsLonger ==
    ASSUME NEW s, NEW t, NEW n \in Nat, \A i \in 1 .. n : s[i] = t[i],
           NEW f, Sums(s, n, f)
    PROVE  \E g : Sums(t, n + 1, g)
<1> DEFINE z == n + 1
           g == [T \in SUBSET (1 .. z) |-> IF z \in T THEN f[T \ {z}] + t[z] ELSE f[T]]
<1>1. ASSUME NEW T \in SUBSET (1 .. z)
      PROVE  g[T] = IF T = {} THEN 0 ELSE g[T \ {Max(T)}] + t[Max(T)]
  <2>1. CASE z \in T
    <3>1. Max(T) = z
      BY <2>1, MaxIs
    <3>2. g[T] = f[T \ {z}] + t[z]
      BY <2>1
    <3>3. g[T \ {z}] = f[T \ {z}]
      OBVIOUS
    <3> HIDE DEF g, z
    <3> QED BY <2>1, <3>1, <3>2, <3>3
  <2>2. CASE z \notin T
    <3>1. T \in SUBSET (1 .. n)
      BY <2>2
    <3>2. g[T] = f[T]
      BY <2>2
    <3>3. CASE T = {}
      BY <3>2, <3>3, SumsNone
    <3>4. CASE T # {}
      <4>1. PICK m : m = Max(T)
        OBVIOUS
      <4>2. f[T] = f[T \ {m}] + s[m]
        <5> HIDE DEF g, z
        <5> QED BY <3>1, <3>4, <4>1, SumsAt
      <4>3. g[T \ {m}] = f[T \ {m}]
        BY <2>2
      <4>4. s[m] = t[m]
        <5>1. ASSUME m \in T PROVE s[m] = t[m]
          BY <3>1, <5>1
        <5>2. m \in T
          <6>1. n \in Nat /\ T \subseteq 1 .. n
            BY <3>1
          <6> QED BY <3>4, <4>1, <6>1, MaxExists
        <5> QED BY <5>1, <5>2
      <4> HIDE DEF g
      <4> QED BY <3>2, <3>4, <4>1, <4>2, <4>3, <4>4
    <3> QED BY <3>3, <3>4
  <2> QED BY <2>1, <2>2
<1>2. g = [T \in SUBSET (1 .. z) |-> g[T]]
  OBVIOUS
<1>3. Sums(t, z, g)
  <2> HIDE DEF g, z
  <2> QED BY <1>1, <1>2 DEF Sums
<1> QED BY <1>3

LEMMA SumsExist ==
    ASSUME NEW S, NEW s \in Seq(S)
    PROVE  \E f : Sums(s, Len(s), f)
<1> DEFINE T == {t \in Seq(S) : \E f : Sums(t, Len(t), f)}
<1>1. <<>> \in T
  <2> DEFINE f == [U \in SUBSET {} |-> 0]
  <2>1. 1 .. 0 = {} /\ SUBSET {} = {{}} /\ Len(<<>>) = 0
    BY EmptySeq
  <2>2. Sums(<<>>, 0, f)
    BY <2>1 DEF Sums
  <2> HIDE DEF f
  <2> QED BY <2>1, <2>2, EmptySeq
<1>2. ASSUME NEW t \in Seq(S), NEW x \in S, t \in T PROVE Append(t, x) \in T
  <2>1. PICK f : Sums(t, Len(t), f)
    BY <1>2
  <2>2. PICK n \in Nat : n = Len(t)
    BY LenProperties
  <2>3. PICK u \in Seq(S) : u = Append(t, x)
    BY AppendProperties
  <2>4. Len(u) = n + 1 /\ \A i \in 1 .. n : t[i] = u[i]
    BY <2>2, <2>3, AppendProperties
  <2>5. \E g : Sums(u, n + 1, g)
    BY <2>1, <2>2, <2>4, SumsLonger
  <2> QED BY <2>3, <2>4, <2>5
<1>3. Seq(S) \subseteq T
  <2> HIDE DEF T
  <2> QED BY <1>1, <1>2, SeqInduction
<1> QED BY <1>3

LEMMA TotalIs ==
    ASSUME NEW S, NEW s \in Seq(S), NEW f, Sums(s, Len(s), f)
    PROVE  Total(s) = f[1 .. Len(s)]
<1> DEFINE g == CHOOSE g : Sums(s, Len(s), g)
<1>1. Len(s) \in Nat /\ DOMAIN s = 1 .. Len(s)
  BY LenProperties
<1>2. Total(s) = g[1 .. Len(s)]
  BY <1>1 DEF Total, FoldLeft, MapThenFoldSet, Sums
<1>3. Sums(s, Len(s), g)
  BY SumsExist
<1>4. f[1 .. Len(s)] = g[1 .. Len(s)]
  <2> HIDE DEF g
  <2>1. Alike(s, s, Len(s))
    BY DEF Alike
  <2> QED BY <1>1, <1>3, <2>1, SumsUnique
<1> QED BY <1>2, <1>4

LEMMA TotalEmpty == Total(<<>>) = 0
<1>1. <<>> \in Seq({}) /\ 1 .. Len(<<>>) = {}
  BY EmptySeq
<1>2. PICK f : Sums(<<>>, Len(<<>>), f)
  BY <1>1, SumsExist
<1>3. f[{}] = 0
  BY <1>2, SumsNone
<1> QED BY <1>1, <1>2, <1>3, TotalIs

LEMMA TotalAppend ==
    ASSUME NEW S, NEW s \in Seq(S), NEW x \in S
    PROVE  Total(Append(s, x)) = Total(s) + x
<1>1. PICK n \in Nat : n = Len(s)
  BY LenProperties
<1>2. PICK u \in Seq(S) : u = Append(s, x)
  BY AppendProperties
<1>3. PICK z \in Nat : z = n + 1
  OBVIOUS
<1>4. Len(u) = z /\ u[z] = x /\ \A i \in 1 .. n : s[i] = u[i]
  BY <1>1, <1>2, <1>3, AppendProperties
<1>5. PICK f : Sums(s, Len(s), f)
  BY SumsExist
<1>6. PICK g : Sums(u, Len(u), g)
  BY SumsExist
<1>7. Total(s) = f[1 .. n] /\ Total(u) = g[1 .. z]
  BY <1>1, <1>4, <1>5, <1>6, TotalIs
<1>8. g[1 .. z] = f[1 .. n] + u[z]
  <2>1. Sums(s, n, f) /\ Sums(u, z, g)
    BY <1>1, <1>4, <1>5, <1>6
  <2>2. Alike(s, u, n)
    BY <1>4 DEF Alike
  <2> QED BY <1>3, <2>1, <2>2, SumsStep
<1> QED BY <1>2, <1>4, <1>7, <1>8

LEMMA TotalType ==
    ASSUME NEW s \in Seq(Nat)
    PROVE  Total(s) \in Nat
<1> DEFINE T == {t \in Seq(Nat) : Total(t) \in Nat}
<1>1. <<>> \in T
  BY EmptySeq, TotalEmpty
<1>2. ASSUME NEW t \in Seq(Nat), NEW x \in Nat, t \in T PROVE Append(t, x) \in T
  <2>1. Total(Append(t, x)) = Total(t) + x /\ Append(t, x) \in Seq(Nat)
    BY TotalAppend, AppendProperties
  <2> QED BY <1>2, <2>1
<1>3. Seq(Nat) \subseteq T
  <2> HIDE DEF T
  <2> QED BY <1>1, <1>2, SeqInduction
<1> QED BY <1>3

LEMMA TotalConcat ==
    ASSUME NEW s \in Seq(Nat), NEW t \in Seq(Nat)
    PROVE  Total(s \o t) = Total(s) + Total(t)
<1> DEFINE T == {u \in Seq(Nat) : Total(s \o u) = Total(s) + Total(u)}
<1>1. <<>> \in T
  BY EmptySeq, ConcatEmptySeq, TotalEmpty, TotalType
<1>2. ASSUME NEW u \in Seq(Nat), NEW x \in Nat, u \in T PROVE Append(u, x) \in T
  <2>1. s \o Append(u, x) = Append(s \o u, x) /\ s \o u \in Seq(Nat)
    BY ConcatAppend, ConcatProperties
  <2>2. Total(Append(s \o u, x)) = Total(s \o u) + x
    BY <2>1, TotalAppend
  <2>3. Total(Append(u, x)) = Total(u) + x /\ Append(u, x) \in Seq(Nat)
    BY TotalAppend, AppendProperties
  <2>4. Total(s) \in Nat /\ Total(u) \in Nat
    BY TotalType
  <2>5. Total(s \o u) = Total(s) + Total(u)
    BY <1>2
  <2>6. Total(s \o Append(u, x)) = Total(s) + Total(Append(u, x))
    <3>1. PICK a \in Nat, b \in Nat : a = Total(s) /\ b = Total(u)
      BY <2>4
    <3>2. Total(Append(s \o u, x)) = (a + b) + x /\ Total(Append(u, x)) = b + x
      BY <2>2, <2>3, <2>5, <3>1
    <3>3. (a + b) + x = a + (b + x)
      OBVIOUS
    <3> QED BY <2>1, <3>1, <3>2, <3>3
  <2> QED BY <2>3, <2>6
<1>3. Seq(Nat) \subseteq T
  <2> HIDE DEF T
  <2> QED BY <1>1, <1>2, SeqInduction
<1> QED BY <1>3

LEMMA TotalOfOne ==
    ASSUME NEW n \in Nat
    PROVE  Total(<<n>>) = n
<1>1. PICK e \in Seq(Nat) : e = <<>>
  BY EmptySeq
<1>2. <<n>> = Append(e, n)
  BY <1>1
<1>3. Total(Append(e, n)) = Total(e) + n
  BY TotalAppend
<1> QED BY <1>1, <1>2, <1>3, TotalEmpty

-----------------------------------------------------------------------------
(***************************************************************************)
(* What a function makes of the elements of a sequence, and those of a     *)
(* sequence that are in a set.                                             *)
(***************************************************************************)
Mapped(F, s) == [i \in DOMAIN s |-> F[s[i]]]

Takes(F, S, U) == \A x \in S : F[x] \in U

Filtered(s, G) == Chosen(s, {i \in DOMAIN s : s[i] \in G})

LEMMA ConcatIs ==
    ASSUME NEW U, NEW a \in Seq(U), NEW b \in Seq(U), NEW c \in Seq(U),
           Len(c) = Len(a) + Len(b),
           \A i \in 1 .. Len(a) : c[i] = a[i],
           \A j \in 1 .. Len(b) : c[Len(a) + j] = b[j]
    PROVE  c = a \o b
<1>1. Len(a) \in Nat /\ Len(b) \in Nat
  BY LenProperties
<1>2. a \o b \in Seq(U) /\ Len(a \o b) = Len(c)
  BY ConcatProperties
<1>3. ASSUME NEW i \in 1 .. Len(c) PROVE c[i] = (a \o b)[i]
  <2>1. CASE i <= Len(a)
    <3>1. (a \o b)[i] = a[i]
      BY <1>1, <2>1, ConcatProperties
    <3> QED BY <1>1, <2>1, <3>1
  <2>2. CASE ~ (i <= Len(a))
    <3>1. PICK j \in 1 .. Len(b) : j = i - Len(a)
      BY <1>1, <2>2
    <3>2. (a \o b)[i] = b[j]
      BY <1>1, <2>2, <3>1, ConcatProperties
    <3>3. c[Len(a) + j] = b[j] /\ Len(a) + j = i
      BY <1>1, <3>1
    <3> QED BY <3>2, <3>3
  <2> QED BY <2>1, <2>2
<1> QED BY <1>2, <1>3, SeqEqual

LEMMA MappedType ==
    ASSUME NEW S, NEW s \in Seq(S), NEW U, NEW F, Takes(F, S, U)
    PROVE  /\ Mapped(F, s) \in Seq(U) /\ Len(Mapped(F, s)) = Len(s)
           /\ DOMAIN Mapped(F, s) = 1 .. Len(s)
           /\ \A i \in 1 .. Len(s) : Mapped(F, s)[i] = F[s[i]]
<1>1. Len(s) \in Nat /\ DOMAIN s = 1 .. Len(s) /\ \A i \in 1 .. Len(s) : s[i] \in S
  BY LenProperties, ElementOfSeq
<1>2. Mapped(F, s) \in [1 .. Len(s) -> U]
  BY <1>1 DEF Mapped, Takes
<1> QED BY <1>1, <1>2 DEF Mapped

LEMMA MappedConcat ==
    ASSUME NEW S, NEW s \in Seq(S), NEW t \in Seq(S), NEW U, NEW F, Takes(F, S, U)
    PROVE  Mapped(F, s \o t) = Mapped(F, s) \o Mapped(F, t)
<1>1. PICK u \in Seq(S) : u = s \o t
  BY ConcatProperties
<1>2. /\ Len(u) = Len(s) + Len(t) /\ Len(s) \in Nat /\ Len(t) \in Nat
      /\ \A i \in 1 .. Len(s) : u[i] = s[i]
      /\ \A i \in 1 .. Len(t) : u[Len(s) + i] = t[i]
  <2>1. Len(u) = Len(s) + Len(t) /\ Len(s) \in Nat /\ Len(t) \in Nat
    BY <1>1, ConcatProperties, LenProperties
  <2>2. ASSUME NEW i \in 1 .. Len(s) PROVE u[i] = s[i]
    BY <1>1, <2>1, ConcatProperties
  <2>3. ASSUME NEW i \in 1 .. Len(t) PROVE u[Len(s) + i] = t[i]
    <3>1. PICK k \in 1 .. Len(s) + Len(t) : k = Len(s) + i
      BY <2>1
    <3>2. u[k] = t[i]
      BY <1>1, <2>1, <3>1, ConcatProperties
    <3> QED BY <3>1, <3>2
  <2> QED BY <2>1, <2>2, <2>3
<1>3. PICK a \in Seq(U) : a = Mapped(F, s)
  BY MappedType
<1>4. PICK b \in Seq(U) : b = Mapped(F, t)
  BY MappedType
<1>5. PICK c \in Seq(U) : c = Mapped(F, u)
  BY MappedType
<1>6. Len(a) = Len(s) /\ \A i \in 1 .. Len(s) : a[i] = F[s[i]]
  BY <1>3, MappedType
<1>7. Len(b) = Len(t) /\ \A i \in 1 .. Len(t) : b[i] = F[t[i]]
  BY <1>4, MappedType
<1>8. Len(c) = Len(u) /\ \A i \in 1 .. Len(u) : c[i] = F[u[i]]
  BY <1>5, MappedType
<1>9. ASSUME NEW i \in 1 .. Len(a) PROVE c[i] = a[i]
  BY <1>2, <1>6, <1>8
<1>10. ASSUME NEW j \in 1 .. Len(b) PROVE c[Len(a) + j] = b[j]
  <2>1. PICK k \in 1 .. Len(u) : k = Len(s) + j
    BY <1>2, <1>7
  <2>2. u[k] = t[j] /\ j \in 1 .. Len(t)
    BY <1>2, <1>7, <2>1
  <2>3. c[k] = b[j]
    BY <1>7, <1>8, <2>2
  <2> QED BY <1>6, <2>1, <2>3
<1>11. Len(c) = Len(a) + Len(b)
  BY <1>2, <1>6, <1>7, <1>8
<1>12. c = a \o b
  BY <1>9, <1>10, <1>11, ConcatIs
<1> QED BY <1>1, <1>3, <1>4, <1>5, <1>12

LEMMA MappedOne ==
    ASSUME NEW x, NEW F
    PROVE  Mapped(F, <<x>>) = <<F[x]>>
BY DEF Mapped

LEMMA MappedEmpty ==
    ASSUME NEW F
    PROVE  Mapped(F, <<>>) = <<>>
BY DEF Mapped

LEMMA FilteredType ==
    ASSUME NEW S, NEW s \in Seq(S), NEW G
    PROVE  Filtered(s, G) \in Seq(S \cap G)
<1>1. \A i \in 1 .. Len(s) : i \in {j \in DOMAIN s : s[j] \in G} => s[i] \in S \cap G
  BY ElementOfSeq
<1> QED BY <1>1, ChosenType DEF Filtered

LEMMA FilteredConcat ==
    ASSUME NEW S, NEW s \in Seq(S), NEW t \in Seq(S), NEW G
    PROVE  Filtered(s \o t, G) = Filtered(s, G) \o Filtered(t, G)
<1> DEFINE P == {i \in DOMAIN s : s[i] \in G}
           Q == {i \in DOMAIN t : t[i] \in G}
           R == {i \in DOMAIN (s \o t) : (s \o t)[i] \in G}
<1>1. /\ s \o t \in Seq(S) /\ Len(s \o t) = Len(s) + Len(t) /\ Len(s) \in Nat /\ Len(t) \in Nat
      /\ DOMAIN s = 1 .. Len(s) /\ DOMAIN t = 1 .. Len(t)
  BY ConcatProperties, LenProperties
<1>2. DOMAIN (s \o t) = 1 .. Len(s) + Len(t)
  BY <1>1, LenProperties
<1>3. ASSUME NEW i \in 1 .. Len(s) PROVE i \in R <=> i \in P
  <2>1. i \in 1 .. Len(s) + Len(t) /\ i <= Len(s)
    BY <1>1
  <2>2. (s \o t)[i] = s[i]
    BY <2>1, ConcatProperties
  <2> QED BY <1>1, <1>2, <2>1, <2>2
<1>4. ASSUME NEW j \in 1 .. Len(t) PROVE (Len(s) + j) \in R <=> j \in Q
  <2>1. PICK i \in 1 .. Len(s) + Len(t) : i = Len(s) + j
    BY <1>1
  <2>2. (s \o t)[i] = t[j]
    BY <1>1, <2>1, ConcatProperties
  <2> QED BY <1>1, <1>2, <2>1, <2>2
<1>5. Chosen(s \o t, R) = Chosen(s, P) \o Chosen(t, Q)
  <2> HIDE DEF P, Q, R
  <2>1. Joined(P, Len(s), Q, Len(t), R)
    BY <1>3, <1>4 DEF Joined
  <2> QED BY <2>1, ChosenConcat
<1> QED BY <1>5 DEF Filtered

LEMMA FilteredAll ==
    ASSUME NEW S, NEW s \in Seq(S), NEW G, \A i \in 1 .. Len(s) : s[i] \in G
    PROVE  Filtered(s, G) = s
<1>1. DOMAIN s = 1 .. Len(s)
  BY LenProperties
<1>2. \A i \in 1 .. Len(s) : i \in {j \in DOMAIN s : s[j] \in G}
  BY <1>1
<1> QED BY <1>2, ChosenAll DEF Filtered

LEMMA FilteredNone ==
    ASSUME NEW S, NEW s \in Seq(S), NEW G, \A i \in 1 .. Len(s) : s[i] \notin G
    PROVE  Filtered(s, G) = <<>>
<1>1. DOMAIN s = 1 .. Len(s)
  BY LenProperties
<1>2. \A i \in 1 .. Len(s) : i \notin {j \in DOMAIN s : s[j] \in G}
  BY <1>1
<1> QED BY <1>2, ChosenNone DEF Filtered

LEMMA FilteredSome ==
    ASSUME NEW S, NEW s \in Seq(S), NEW G, NEW i \in 1 .. Len(s), s[i] \in G
    PROVE  \E j \in 1 .. Len(Filtered(s, G)) : Filtered(s, G)[j] = s[i]
<1>1. i \in {j \in DOMAIN s : s[j] \in G}
  BY LenProperties
<1> QED BY <1>1, ChosenSome DEF Filtered

LEMMA FilteredOne ==
    ASSUME NEW x, NEW G
    PROVE  Filtered(<<x>>, G) = IF x \in G THEN <<x>> ELSE <<>>
<1>1. 1 \in {j \in DOMAIN <<x>> : <<x>>[j] \in G} <=> x \in G
  OBVIOUS
<1> QED BY <1>1, ChosenFromOne DEF Filtered

LEMMA FilteredEmpty ==
    ASSUME NEW G
    PROVE  Filtered(<<>>, G) = <<>>
BY ChosenFromEmpty DEF Filtered

-----------------------------------------------------------------------------
(***************************************************************************)
(* The loop of bounded_history_messages.  Keeps says of the function of    *)
(* the fold that BoundedHistory is, that it keeps the first message of     *)
(* some, or not, after those that follow it.                               *)
(***************************************************************************)
Keeps(h, k, n, base, f) ==
    f = [T \in SUBSET (k .. n) |-> IF T = {} THEN base ELSE Keep(h[Min(T)], f[T \ {Min(T)}])]

LEMMA MinIs ==
    ASSUME NEW T, T \subseteq Int, NEW m \in T, \A y \in T : m <= y
    PROVE  Min(T) = m
<1>1. PICK x \in T : x = Min(T) /\ \A y \in T : x =< y
  BY DEF Min
<1>2. x =< m /\ m =< x
  BY <1>1
<1> QED BY <1>1, <1>2

LEMMA KeepsAt ==
    ASSUME NEW h, NEW k, NEW n, NEW base, NEW f, Keeps(h, k, n, base, f),
           NEW T \in SUBSET (k .. n), T # {}, NEW m, m = Min(T)
    PROVE  f[T] = Keep(h[m], f[T \ {m}])
BY DEF Keeps

LEMMA KeepsNone ==
    ASSUME NEW h, NEW k, NEW n, NEW base, NEW f, Keeps(h, k, n, base, f)
    PROVE  f[{}] = base
BY DEF Keeps

LEMMA MinExists ==
    ASSUME NEW k \in Nat, NEW n \in Nat, NEW T \in SUBSET (k .. n), T # {}
    PROVE  Min(T) \in T
<1> DEFINE Low(U) == \E x \in U : \A y \in U : x <= y
           N == {j \in Nat : \A U \in SUBSET Nat : (\E x \in U : x <= j) => Low(U)}
<1>1. 0 \in N
  <2>1. SUFFICES ASSUME NEW U \in SUBSET Nat, NEW x \in U, x <= 0 PROVE Low(U)
    OBVIOUS
  <2>2. \A y \in U : x <= y
    BY <2>1
  <2> QED BY <2>2
<1>2. ASSUME NEW j \in Nat, j \in N PROVE j + 1 \in N
  <2>1. SUFFICES ASSUME NEW U \in SUBSET Nat, NEW x \in U, x <= j + 1 PROVE Low(U)
    OBVIOUS
  <2>2. CASE \E z \in U : z <= j
    BY <1>2, <2>2
  <2>3. CASE ~ \E z \in U : z <= j
    <3>1. \A y \in U : x <= y
      BY <2>1, <2>3
    <3> QED BY <3>1
  <2> QED BY <2>2, <2>3
<1>3. Nat \subseteq N
  <2> HIDE DEF N
  <2> QED BY <1>1, <1>2, SetInduction
<1>4. PICK z \in T : z \in Nat
  <2>1. \A y \in T : y \in Nat
    OBVIOUS
  <2> QED BY <2>1
<1>5. T \in SUBSET Nat /\ z <= z
  BY <1>4
<1>6. PICK x \in T : \A y \in T : x <= y
  BY <1>3, <1>4, <1>5
<1>7. T \subseteq Int
  OBVIOUS
<1>8. Min(T) = x
  BY <1>6, <1>7, MinIs
<1> QED BY <1>6, <1>8

LEMMA KeepsLonger ==
    ASSUME NEW h, NEW k \in Nat, NEW n \in Nat, NEW z \in Nat, z = k + 1, k <= n, NEW base,
           NEW f, Keeps(h, z, n, base, f)
    PROVE  \E g : Keeps(h, k, n, base, g)
<1> DEFINE g == [T \in SUBSET (k .. n) |-> IF k \in T THEN Keep(h[k], f[T \ {k}]) ELSE f[T]]
<1>1. ASSUME NEW T \in SUBSET (k .. n)
      PROVE  g[T] = IF T = {} THEN base ELSE Keep(h[Min(T)], g[T \ {Min(T)}])
  <2>1. CASE k \in T
    <3>1. Min(T) = k
      <4>1. T \subseteq Int /\ \A y \in T : k <= y
        OBVIOUS
      <4> QED BY <2>1, <4>1, MinIs
    <3>2. g[T] = Keep(h[k], f[T \ {k}])
      BY <2>1
    <3>3. g[T \ {k}] = f[T \ {k}]
      OBVIOUS
    <3> HIDE DEF g
    <3> QED BY <2>1, <3>1, <3>2, <3>3
  <2>2. CASE k \notin T
    <3>1. T \in SUBSET (z .. n)
      BY <2>2
    <3>2. g[T] = f[T]
      BY <2>2
    <3>3. CASE T = {}
      BY <3>2, <3>3, KeepsNone
    <3>4. CASE T # {}
      <4>1. PICK m : m = Min(T)
        OBVIOUS
      <4>2. f[T] = Keep(h[m], f[T \ {m}])
        <5> HIDE DEF g
        <5> QED BY <3>1, <3>4, <4>1, KeepsAt
      <4>3. g[T \ {m}] = f[T \ {m}]
        BY <2>2
      <4> HIDE DEF g
      <4> QED BY <3>2, <3>4, <4>1, <4>2, <4>3
    <3> QED BY <3>3, <3>4
  <2> QED BY <2>1, <2>2
<1>2. g = [T \in SUBSET (k .. n) |-> g[T]]
  OBVIOUS
<1>3. Keeps(h, k, n, base, g)
  <2> HIDE DEF g
  <2> QED BY <1>1, <1>2 DEF Keeps
<1> QED BY <1>3

LEMMA KeepsExist ==
    ASSUME NEW h, NEW n \in Nat, NEW base
    PROVE  \E f : Keeps(h, 1, n, base, f)
<1> DEFINE N == {j \in Nat : \A k \in Nat : k + j = n + 1 /\ k >= 1 => \E f : Keeps(h, k, n, base, f)}
<1>1. 0 \in N
  <2>1. SUFFICES ASSUME NEW k \in Nat, k = n + 1 PROVE \E f : Keeps(h, k, n, base, f)
    OBVIOUS
  <2> DEFINE f == [T \in SUBSET {} |-> base]
  <2>2. k .. n = {} /\ SUBSET {} = {{}}
    BY <2>1
  <2>3. Keeps(h, k, n, base, f)
    BY <2>2 DEF Keeps
  <2> QED BY <2>3
<1>2. ASSUME NEW j \in Nat, j \in N PROVE j + 1 \in N
  <2>1. SUFFICES ASSUME NEW k \in Nat, k + (j + 1) = n + 1, k >= 1
                 PROVE  \E f : Keeps(h, k, n, base, f)
    OBVIOUS
  <2>2. PICK z \in Nat : z = k + 1
    OBVIOUS
  <2>3. PICK f : Keeps(h, z, n, base, f)
    BY <1>2, <2>1, <2>2
  <2>4. k <= n
    BY <2>1
  <2> QED BY <2>2, <2>3, <2>4, KeepsLonger
<1>3. Nat \subseteq N
  <2> HIDE DEF N
  <2> QED BY <1>1, <1>2, SetInduction
<1>4. n \in N
  BY <1>3
<1> QED BY <1>4

LEMMA KeepsStep ==
    ASSUME NEW h, NEW n \in Nat, NEW base, NEW f, Keeps(h, 1, n, base, f),
           NEW k \in 1 .. n, NEW z \in Nat, z = k + 1
    PROVE  f[k .. n] = Keep(h[k], f[z .. n])
<1>1. PICK T \in SUBSET (1 .. n) : T = k .. n
  <2>1. \A i \in k .. n : i \in 1 .. n
    OBVIOUS
  <2>2. k .. n \in SUBSET (1 .. n)
    BY <2>1
  <2> QED BY <2>2
<1>2. T # {} /\ T \ {k} = z .. n
  <2>1. ASSUME NEW i PROVE i \in T \ {k} <=> i \in z .. n
    BY <1>1
  <2>2. k \in T
    BY <1>1
  <2> QED BY <2>1, <2>2
<1>3. k = Min(T)
  <2>1. T \subseteq Int /\ k \in T /\ \A y \in T : k <= y
    BY <1>1
  <2> QED BY <2>1, MinIs
<1>4. f[T] = Keep(h[k], f[T \ {k}])
  BY <1>2, <1>3, KeepsAt
<1> QED BY <1>1, <1>2, <1>4

LEMMA FoldRightIs ==
    ASSUME NEW S, NEW h \in Seq(S), NEW base
    PROVE  \E f : Keeps(h, 1, Len(h), base, f) /\ FoldRight(Keep, h, base) = f[1 .. Len(h)]
<1> DEFINE g == CHOOSE g : Keeps(h, 1, Len(h), base, g)
<1>1. Len(h) \in Nat /\ DOMAIN h = 1 .. Len(h)
  BY LenProperties
<1>2. FoldRight(Keep, h, base) = g[1 .. Len(h)]
  BY <1>1 DEF FoldRight, MapThenFoldSet, Keeps
<1>3. Keeps(h, 1, Len(h), base, g)
  BY <1>1, KeepsExist
<1> QED BY <1>2, <1>3

-----------------------------------------------------------------------------
(***************************************************************************)
(* What a message takes of the limits.                                     *)
(***************************************************************************)
Fields == {"chars", "images", "bytes", "pixels"}

SizeOf(message, field) ==
    IF field = "chars" THEN CharacterCount(message) ELSE ImageUsage(message)[field]

Sizes(messages, field) == [i \in DOMAIN messages |-> SizeOf(messages[i], field)]

\* The state of the loop: what is left of each limit, and what is kept.
Room == [chars : Nat, images : Nat, bytes : Nat, pixels : Nat, kept : Nat, open : BOOLEAN]

LEMMA SelectedType ==
    ASSUME NEW S, NEW s \in Seq(S), NEW P, NEW U,
           \A i \in 1 .. Len(s) : i \in P => s[i] \in U
    PROVE  Chosen(s, P) \in Seq(U) /\ Len(Chosen(s, P)) \in Nat
BY ChosenType, LenProperties

LEMMA CharacterCountType ==
    ASSUME NEW m \in Messages
    PROVE  CharacterCount(m) \in Nat
<1>1. m.content \in Seq(AllBlocks)
  BY DEF Messages
<1> DEFINE w == Selected(m.content, IsWritten)
           c == [i \in DOMAIN w |-> CharsOf(w[i])]
<1>2. w \in Seq(TextBlocks) /\ Len(w) \in Nat
  <2>1. \A i \in 1 .. Len(m.content) :
            i \in {j \in DOMAIN m.content : IsWritten(m.content[j])} => m.content[i] \in TextBlocks
    BY <1>1, ElementOfSeq DEF IsWritten, IsText, AllBlocks, TextBlocks, ImageBlocks
  <2> QED BY <1>1, <2>1, SelectedType DEF Selected
<1>3. c \in Seq(Nat)
  <2> HIDE DEF w
  <2>1. \A i \in 1 .. Len(w) : w[i] \in TextBlocks
    BY <1>2, ElementOfSeq
  <2>2. DOMAIN w = 1 .. Len(w)
    BY <1>2, LenProperties
  <2>3. Len(w) \in Nat /\ c \in [1 .. Len(w) -> Nat]
    BY <1>2, <2>1, <2>2 DEF TextBlocks, CharsOf
  <2> QED BY <2>3
<1>4. CharacterCount(m) = Total(c) + AtLeastZero(Len(w) - 1)
  BY DEF CharacterCount, TotalOf
<1> HIDE DEF c, w
<1>5. Total(c) \in Nat
  BY <1>3, TotalType
<1>6. AtLeastZero(Len(w) - 1) \in Nat
  BY <1>2 DEF AtLeastZero
<1> QED BY <1>4, <1>5, <1>6

LEMMA ImageUsageType ==
    ASSUME NEW m \in Messages
    PROVE  /\ ImageUsage(m) = [images |-> ImageUsage(m).images, bytes |-> ImageUsage(m).bytes,
                               pixels |-> ImageUsage(m).pixels]
           /\ ImageUsage(m).images \in Nat
           /\ ImageUsage(m).bytes \in Nat
           /\ ImageUsage(m).pixels \in Nat
<1>1. m.content \in Seq(AllBlocks)
  BY DEF Messages
<1> DEFINE w == Selected(m.content, IsImage)
           b == [i \in DOMAIN w |-> BytesOf(w[i])]
           p == [i \in DOMAIN w |-> PixelsOf(w[i])]
<1>2. w \in Seq(ImageBlocks) /\ Len(w) \in Nat
  <2>1. \A i \in 1 .. Len(m.content) :
            i \in {j \in DOMAIN m.content : IsImage(m.content[j])} => m.content[i] \in ImageBlocks
    BY <1>1, ElementOfSeq DEF IsImage, AllBlocks, TextBlocks, ImageBlocks
  <2> QED BY <1>1, <2>1, SelectedType DEF Selected
<1>3. b \in Seq(Nat) /\ p \in Seq(Nat)
  <2> HIDE DEF w
  <2>1. \A i \in 1 .. Len(w) : w[i] \in ImageBlocks
    BY <1>2, ElementOfSeq
  <2>2. DOMAIN w = 1 .. Len(w)
    BY <1>2, LenProperties
  <2>3. Len(w) \in Nat /\ b \in [1 .. Len(w) -> Nat] /\ p \in [1 .. Len(w) -> Nat]
    BY <1>2, <2>1, <2>2 DEF ImageBlocks, BytesOf, PixelsOf
  <2> QED BY <2>3
<1>4. ImageUsage(m) = [images |-> Len(w), bytes |-> Total(b), pixels |-> Total(p)]
  BY DEF ImageUsage, TotalOf
<1> HIDE DEF b, p, w
<1>5. Total(b) \in Nat /\ Total(p) \in Nat
  BY <1>3, TotalType
<1> QED BY <1>2, <1>4, <1>5

LEMMA SizeOfType ==
    ASSUME NEW m \in Messages, NEW field \in Fields
    PROVE  SizeOf(m, field) \in Nat
BY CharacterCountType, ImageUsageType DEF SizeOf, Fields

SizeIn(field) == [m \in Messages |-> SizeOf(m, field)]

LEMMA SizesAreMapped ==
    ASSUME NEW s \in Seq(Messages), NEW field \in Fields
    PROVE  /\ Sizes(s, field) = Mapped(SizeIn(field), s)
           /\ Takes(SizeIn(field), Messages, Nat)
<1>1. DOMAIN s = 1 .. Len(s) /\ \A i \in 1 .. Len(s) : s[i] \in Messages
  BY LenProperties, ElementOfSeq
<1> QED BY <1>1, SizeOfType DEF Sizes, Mapped, SizeIn, Takes

LEMMA SizesType ==
    ASSUME NEW s \in Seq(Messages), NEW field \in Fields
    PROVE  Sizes(s, field) \in Seq(Nat) /\ Len(Sizes(s, field)) = Len(s)
BY SizesAreMapped, MappedType

LEMMA SizesConcat ==
    ASSUME NEW s \in Seq(Messages), NEW t \in Seq(Messages), NEW field \in Fields
    PROVE  Sizes(s \o t, field) = Sizes(s, field) \o Sizes(t, field)
<1>1. s \o t \in Seq(Messages)
  BY ConcatProperties
<1>2. ASSUME NEW F, Takes(F, Messages, Nat)
      PROVE  Mapped(F, s \o t) = Mapped(F, s) \o Mapped(F, t)
  BY <1>2, MappedConcat
<1>3. Mapped(SizeIn(field), s \o t) = Mapped(SizeIn(field), s) \o Mapped(SizeIn(field), t)
  BY <1>2, SizesAreMapped
<1> QED BY <1>1, <1>3, SizesAreMapped

\* What some messages take together.
Sum(messages, field) == Total(Sizes(messages, field))

LEMMA SumType ==
    ASSUME NEW s \in Seq(Messages), NEW field \in Fields
    PROVE  Sum(s, field) \in Nat
BY SizesType, TotalType DEF Sum

LEMMA SumConcat ==
    ASSUME NEW s \in Seq(Messages), NEW t \in Seq(Messages), NEW field \in Fields
    PROVE  Sum(s \o t, field) = Sum(s, field) + Sum(t, field)
<1>1. Sizes(s, field) \in Seq(Nat) /\ Sizes(t, field) \in Seq(Nat)
  BY SizesType
<1> QED BY <1>1, SizesConcat, TotalConcat DEF Sum

LEMMA SumEmpty ==
    ASSUME NEW field \in Fields
    PROVE  Sum(<<>>, field) = 0
<1>1. PICK e \in Seq(Messages) : e = <<>>
  BY EmptySeq
<1>2. Len(e) = 0
  BY <1>1, EmptySeq
<1>3. Sizes(e, field) = <<>>
  <2>1. Sizes(e, field) \in Seq(Nat) /\ Len(Sizes(e, field)) = 0
    BY <1>2, SizesType
  <2> QED BY <2>1, EmptySeq
<1> QED BY <1>1, <1>3, TotalEmpty DEF Sum

LEMMA SumOne ==
    ASSUME NEW m \in Messages, NEW field \in Fields
    PROVE  Sum(<<m>>, field) = SizeOf(m, field)
<1>1. Sizes(<<m>>, field) = <<SizeOf(m, field)>>
  BY DEF Sizes
<1> QED BY <1>1, SizeOfType, TotalOfOne DEF Sum

-----------------------------------------------------------------------------
(***************************************************************************)
(* The loop keeps the longest end that fits.                               *)
(***************************************************************************)
LEMMA FitsIs ==
    ASSUME NEW m \in Messages, NEW left
    PROVE  Fits(m, left) <=> \A field \in Fields : SizeOf(m, field) <= left[field]
BY DEF Fits, SizeOf, Fields

LEMMA TotalsAreSums ==
    ASSUME NEW s
    PROVE  /\ TotalOf(CharacterCount, s) = Sum(s, "chars")
           /\ TotalOf(LAMBDA m : ImageUsage(m)["images"], s) = Sum(s, "images")
           /\ TotalOf(LAMBDA m : ImageUsage(m)["bytes"], s) = Sum(s, "bytes")
           /\ TotalOf(LAMBDA m : ImageUsage(m)["pixels"], s) = Sum(s, "pixels")
BY DEF TotalOf, Sum, Sizes, SizeOf

LEMMA FitsTogetherIs ==
    ASSUME NEW s, NEW left
    PROVE  FitsTogether(s, left) <=> \A field \in Fields : Sum(s, field) <= left[field]
BY TotalsAreSums DEF FitsTogether, Fields

LEMMA AtLeastZeroType ==
    ASSUME NEW n \in Int
    PROVE  AtLeastZero(n) \in Nat
BY DEF AtLeastZero

LEMMA LeftByType ==
    ASSUME NEW s \in Seq(Messages), NEW n \in Nat, NEW lim \in LimitSets
    PROVE  /\ LeftBy(s, n, lim) \in Room
           /\ LeftBy(s, n, lim).kept = 0 /\ LeftBy(s, n, lim).open
           /\ LeftBy(s, n, lim).chars = AtLeastZero(lim.chars - Sum(s, "chars") - n)
           /\ LeftBy(s, n, lim).images = AtLeastZero(lim.images - Sum(s, "images"))
           /\ LeftBy(s, n, lim).bytes = AtLeastZero(lim.totalBytes - Sum(s, "bytes"))
           /\ LeftBy(s, n, lim).pixels = AtLeastZero(lim.totalPixels - Sum(s, "pixels"))
<1>1. LeftBy(s, n, lim) =
        [chars |-> AtLeastZero(lim.chars - Sum(s, "chars") - n),
         images |-> AtLeastZero(lim.images - Sum(s, "images")),
         bytes |-> AtLeastZero(lim.totalBytes - Sum(s, "bytes")),
         pixels |-> AtLeastZero(lim.totalPixels - Sum(s, "pixels")),
         kept |-> 0, open |-> TRUE]
  BY TotalsAreSums DEF LeftBy
<1>2. \A field \in Fields : Sum(s, field) \in Nat
  BY SumType
<1>3. /\ Sum(s, "chars") \in Nat /\ Sum(s, "images") \in Nat
      /\ Sum(s, "bytes") \in Nat /\ Sum(s, "pixels") \in Nat
  BY <1>2 DEF Fields
<1>4. /\ AtLeastZero(lim.chars - Sum(s, "chars") - n) \in Nat
      /\ AtLeastZero(lim.images - Sum(s, "images")) \in Nat
      /\ AtLeastZero(lim.totalBytes - Sum(s, "bytes")) \in Nat
      /\ AtLeastZero(lim.totalPixels - Sum(s, "pixels")) \in Nat
  <2>1. lim.chars \in Nat /\ lim.images \in Nat /\ lim.totalBytes \in Nat /\ lim.totalPixels \in Nat
    BY DEF LimitSets
  <2>2. /\ lim.chars - Sum(s, "chars") - n \in Int /\ lim.images - Sum(s, "images") \in Int
        /\ lim.totalBytes - Sum(s, "bytes") \in Int /\ lim.totalPixels - Sum(s, "pixels") \in Int
    <3>1. \A i \in Nat, j \in Nat : i - j \in Int /\ (i - j) - n \in Int
      OBVIOUS
    <3> QED BY <1>3, <2>1, <3>1
  <2> QED BY <2>2, AtLeastZeroType
<1> QED BY <1>1, <1>4 DEF Room

\* The end of h that has k messages.
End(h, k) == SubSeq(h, Len(h) - k + 1, Len(h))

LEMMA EndType ==
    ASSUME NEW S, NEW h \in Seq(S), NEW k \in 0 .. Len(h)
    PROVE  End(h, k) \in Seq(S) /\ Len(End(h, k)) = k
<1>1. Len(h) \in Nat
  BY LenProperties
<1>2. \A i \in Len(h) - k + 1 .. Len(h) : h[i] \in S
  BY <1>1, ElementOfSeq
<1>3. Len(h) - k + 1 \in Int /\ Len(h) \in Int
  BY <1>1
<1> QED BY <1>1, <1>2, <1>3, SubSeqProperties DEF End

LEMMA EndNext ==
    ASSUME NEW S, NEW h \in Seq(S), NEW k \in 0 .. Len(h), NEW j \in 1 .. Len(h), j = Len(h) - k
    PROVE  End(h, k + 1) = <<h[j]>> \o End(h, k)
<1>1. Len(h) \in Nat /\ Len(h) \in j .. Len(h)
  BY LenProperties
<1>2. SubSeq(h, j, Len(h)) = <<h[j]>> \o SubSeq(h, j + 1, Len(h))
  BY <1>1, SubSeqRecursiveFirst
<1>3. j = Len(h) - (k + 1) + 1 /\ j + 1 = Len(h) - k + 1
  BY <1>1
<1> QED BY <1>2, <1>3 DEF End

LEMMA EndNone ==
    ASSUME NEW S, NEW h \in Seq(S)
    PROVE  End(h, 0) = <<>>
<1>1. Len(h) \in Nat
  BY LenProperties
<1> QED BY <1>1, SubSeqEmpty DEF End

LEMMA EndSum ==
    ASSUME NEW h \in Seq(Messages), NEW k \in 0 .. Len(h), NEW j \in 1 .. Len(h), j = Len(h) - k,
           NEW field \in Fields
    PROVE  Sum(End(h, k + 1), field) = SizeOf(h[j], field) + Sum(End(h, k), field)
<1>1. End(h, k + 1) = <<h[j]>> \o End(h, k)
  BY EndNext
<1>2. h[j] \in Messages /\ <<h[j]>> \in Seq(Messages) /\ End(h, k) \in Seq(Messages)
  BY ElementOfSeq, EndType
<1>3. Sum(<<h[j]>> \o End(h, k), field) = Sum(<<h[j]>>, field) + Sum(End(h, k), field)
  BY <1>2, SumConcat
<1> QED BY <1>1, <1>2, <1>3, SumOne

\* A longer end takes no less.
LEMMA EndsGrow ==
    ASSUME NEW h \in Seq(Messages), NEW k \in 0 .. Len(h), NEW l \in 0 .. Len(h), k <= l,
           NEW field \in Fields
    PROVE  Sum(End(h, k), field) <= Sum(End(h, l), field)
<1> DEFINE N == {d \in Nat : k + d <= Len(h) => Sum(End(h, k), field) <= Sum(End(h, k + d), field)}
<1>1. Len(h) \in Nat /\ \A i \in 0 .. Len(h) : Sum(End(h, i), field) \in Nat
  BY LenProperties, EndType, SumType
<1>2. 0 \in N
  BY <1>1
<1>3. ASSUME NEW d \in Nat, d \in N PROVE d + 1 \in N
  <2>1. SUFFICES ASSUME k + (d + 1) <= Len(h)
                 PROVE  Sum(End(h, k), field) <= Sum(End(h, k + (d + 1)), field)
    OBVIOUS
  <2>2. PICK e \in 0 .. Len(h) : e = k + d
    BY <1>1, <2>1
  <2>3. PICK j \in 1 .. Len(h) : j = Len(h) - e
    <3>1. Len(h) - e \in 1 .. Len(h)
      BY <1>1, <2>1, <2>2
    <3> QED BY <3>1
  <2>4. Sum(End(h, e + 1), field) = SizeOf(h[j], field) + Sum(End(h, e), field)
    BY <2>3, EndSum
  <2>5. SizeOf(h[j], field) \in Nat
    BY ElementOfSeq, SizeOfType
  <2>6. Sum(End(h, k), field) <= Sum(End(h, e), field)
    BY <1>3, <2>2
  <2>7. Sum(End(h, k), field) <= Sum(End(h, e + 1), field)
    BY <1>1, <2>4, <2>5, <2>6
  <2>8. e + 1 = k + (d + 1)
    BY <2>2
  <2> QED BY <2>7, <2>8
<1>4. Nat \subseteq N
  <2> HIDE DEF N
  <2> QED BY <1>2, <1>3, SetInduction
<1>5. l - k \in Nat /\ k + (l - k) = l
  OBVIOUS
<1>6. l - k \in N
  BY <1>4, <1>5
<1> QED BY <1>5, <1>6

\* What the loop has made of the messages from k on.
Loop(h, base, k, st) ==
    /\ st \in Room
    /\ st.kept \in 0 .. Len(h) + 1 - k
    /\ st.open => st.kept = Len(h) + 1 - k
    /\ \A field \in Fields : Sum(End(h, st.kept), field) + st[field] = base[field]
    /\ ~st.open => /\ Len(h) - st.kept \in k .. Len(h)
                   /\ ~Fits(h[Len(h) - st.kept], st)

LEMMA LoopStart ==
    ASSUME NEW h \in Seq(Messages), NEW base \in Room, base.kept = 0, base.open,
           NEW k, k = Len(h) + 1
    PROVE  Loop(h, base, k, base)
<1>1. Len(h) \in Nat
  BY LenProperties
<1>2. \A field \in Fields : Sum(End(h, 0), field) = 0
  BY EndNone, SumEmpty
<1>3. \A field \in Fields : base[field] \in Nat
  BY DEF Fields, Room
<1> QED BY <1>1, <1>2, <1>3 DEF Loop

LEMMA LoopStep ==
    ASSUME NEW h \in Seq(Messages), NEW base \in Room, NEW k \in 1 .. Len(h), NEW z, z = k + 1,
           NEW st, Loop(h, base, z, st)
    PROVE  Loop(h, base, k, Keep(h[k], st))
<1>1. Len(h) \in Nat /\ h[k] \in Messages /\ st \in Room
  BY LenProperties, ElementOfSeq DEF Loop
<1> DEFINE new == Keep(h[k], st)
<1>2. CASE st.open /\ Fits(h[k], st)
  <2>1. st.kept = Len(h) - k
    BY <1>1, <1>2 DEF Loop
  <2>2. \A field \in Fields : SizeOf(h[k], field) \in Nat /\ SizeOf(h[k], field) <= st[field]
    BY <1>1, <1>2, SizeOfType, FitsIs
  <2>3. new = [st EXCEPT !.chars = @ - SizeOf(h[k], "chars"), !.images = @ - SizeOf(h[k], "images"),
                         !.bytes = @ - SizeOf(h[k], "bytes"), !.pixels = @ - SizeOf(h[k], "pixels"),
                         !.kept = @ + 1]
    BY <1>2 DEF Keep, SizeOf
  <2>4. /\ \A field \in Fields : new[field] = st[field] - SizeOf(h[k], field)
        /\ new.kept = st.kept + 1 /\ new.open = st.open
    BY <1>1, <2>3 DEF Fields, Room
  <2>5. \A field \in Fields : new[field] \in Nat
    <3>1. \A field \in Fields : st[field] \in Nat
      BY <1>1 DEF Fields, Room
    <3> HIDE DEF new
    <3>2. ASSUME NEW field \in Fields PROVE new[field] \in Nat
      BY <2>2, <2>4, <3>1
    <3> QED BY <3>2
  <2>6. new \in Room
    <3>1. /\ new.chars \in Nat /\ new.images \in Nat /\ new.bytes \in Nat /\ new.pixels \in Nat
      BY <2>5 DEF Fields
    <3>2. new.kept \in Nat /\ new.open \in BOOLEAN
      <4>1. st.kept \in Nat /\ st.open \in BOOLEAN
        BY <1>1 DEF Room
      <4> HIDE DEF new
      <4> QED BY <2>4, <4>1
    <3>3. new = [chars |-> new.chars, images |-> new.images, bytes |-> new.bytes,
                 pixels |-> new.pixels, kept |-> new.kept, open |-> new.open]
      BY <1>1, <2>3 DEF Room
    <3> HIDE DEF new
    <3> QED BY <3>1, <3>2, <3>3 DEF Room
  <2>7. \A field \in Fields : Sum(End(h, new.kept), field) + new[field] = base[field]
    <3>1. PICK e \in 0 .. Len(h) : e = st.kept
      BY <1>1, <2>1
    <3>2. k = Len(h) - e
      BY <1>1, <2>1, <3>1
    <3> HIDE DEF new
    <3>3. ASSUME NEW field \in Fields
          PROVE  Sum(End(h, new.kept), field) + new[field] = base[field]
      <4>1. Sum(End(h, e + 1), field) = SizeOf(h[k], field) + Sum(End(h, e), field)
        BY <3>2, EndSum
      <4>2. Sum(End(h, e), field) + st[field] = base[field]
        BY <3>1 DEF Loop
      <4>3. new[field] = st[field] - SizeOf(h[k], field) /\ new.kept = e + 1
        BY <2>4, <3>1
      <4>4. Sum(End(h, e), field) \in Nat /\ SizeOf(h[k], field) \in Nat /\ st[field] \in Nat
        BY <1>1, <2>2, EndType, SumType DEF Fields, Room
      <4> QED BY <4>1, <4>2, <4>3, <4>4
    <3> QED BY <3>3
  <2>8. new.kept = Len(h) + 1 - k /\ new.open
    BY <1>1, <1>2, <2>1, <2>4
  <2>9. new.kept \in 0 .. Len(h) + 1 - k
    BY <1>1, <2>8
  <2> HIDE DEF new
  <2>10. Loop(h, base, k, new)
    BY <2>6, <2>7, <2>8, <2>9 DEF Loop
  <2> QED BY <2>10 DEF new
<1>3. CASE ~ (st.open /\ Fits(h[k], st))
  <2>1. new = [st EXCEPT !.open = FALSE]
    BY <1>3 DEF Keep
  <2>2. new \in Room /\ new.kept = st.kept /\ ~new.open /\ \A field \in Fields : new[field] = st[field]
    BY <1>1, <2>1 DEF Room, Fields
  <2>3. \A m \in Messages : Fits(m, new) <=> Fits(m, st)
    <3> HIDE DEF new
    <3> QED BY <2>2, FitsIs
  <2>4. st.kept \in 0 .. Len(h) - k /\ (st.open => st.kept = Len(h) - k)
    BY <1>1 DEF Loop
  <2>5. Len(h) - st.kept \in k .. Len(h) /\ ~Fits(h[Len(h) - st.kept], st)
    <3>1. CASE st.open
      <4>1. Len(h) - st.kept = k
        BY <1>1, <2>4, <3>1
      <4> QED BY <1>1, <1>3, <3>1, <4>1
    <3>2. CASE ~st.open
      BY <1>1, <3>2 DEF Loop
    <3> QED BY <3>1, <3>2
  <2>6. ~Fits(h[Len(h) - st.kept], new)
    <3>1. PICK j \in 1 .. Len(h) : j = Len(h) - st.kept
      BY <1>1, <2>5
    <3>2. h[j] \in Messages
      BY <3>1, ElementOfSeq
    <3> HIDE DEF new
    <3> QED BY <2>3, <2>5, <3>1, <3>2
  <2>7. \A field \in Fields : Sum(End(h, st.kept), field) + st[field] = base[field]
    BY DEF Loop
  <2>8. st.kept \in 0 .. Len(h) + 1 - k
    BY <1>1, <2>4
  <2> HIDE DEF new
  <2>9. Loop(h, base, k, new)
    BY <2>2, <2>5, <2>6, <2>7, <2>8 DEF Loop
  <2> QED BY <2>9 DEF new
<1> QED BY <1>2, <1>3

LEMMA LoopEnds ==
    ASSUME NEW h \in Seq(Messages), NEW base \in Room, base.kept = 0, base.open
    PROVE  Loop(h, base, 1, FoldRight(Keep, h, base))
<1>1. PICK n \in Nat : n = Len(h)
  BY LenProperties
<1>2. PICK f : Keeps(h, 1, n, base, f) /\ FoldRight(Keep, h, base) = f[1 .. n]
  BY <1>1, FoldRightIs
<1> DEFINE N == {d \in Nat : \A k \in Nat : k >= 1 /\ k + d = n + 1 => Loop(h, base, k, f[k .. n])}
<1>3. 0 \in N
  <2>1. SUFFICES ASSUME NEW k \in Nat, k = n + 1 PROVE Loop(h, base, k, f[k .. n])
    OBVIOUS
  <2>2. k .. n = {}
    BY <2>1
  <2>3. f[{}] = base
    BY <1>2, KeepsNone
  <2> QED BY <1>1, <2>1, <2>2, <2>3, LoopStart
<1>4. ASSUME NEW d \in Nat, d \in N PROVE d + 1 \in N
  <2>1. SUFFICES ASSUME NEW k \in Nat, k >= 1, k + (d + 1) = n + 1
                 PROVE  Loop(h, base, k, f[k .. n])
    OBVIOUS
  <2>2. PICK z \in Nat : z = k + 1
    OBVIOUS
  <2>3. k \in 1 .. n
    BY <2>1
  <2>4. Loop(h, base, z, f[z .. n])
    BY <1>4, <2>1, <2>2
  <2>5. f[k .. n] = Keep(h[k], f[z .. n])
    BY <1>2, <2>2, <2>3, KeepsStep
  <2> QED BY <1>1, <2>2, <2>3, <2>4, <2>5, LoopStep
<1>5. Nat \subseteq N
  <2> HIDE DEF N
  <2> QED BY <1>3, <1>4, SetInduction
<1>6. n \in N
  BY <1>5
<1>7. Loop(h, base, 1, f[1 .. n])
  BY <1>6
<1> QED BY <1>2, <1>7

\* What the loop keeps fits, and no longer end does.
LEMMA KeptIsLongest ==
    ASSUME NEW h \in Seq(Messages), NEW base \in Room, base.kept = 0, base.open,
           NEW k, k = FoldRight(Keep, h, base).kept
    PROVE  /\ k \in 0 .. Len(h)
           /\ FitsTogether(End(h, k), base)
           /\ \A l \in 0 .. Len(h) : FitsTogether(End(h, l), base) => l <= k
<1>1. PICK st : st = FoldRight(Keep, h, base)
  OBVIOUS
<1>2. Loop(h, base, 1, st) /\ k = st.kept
  BY <1>1, LoopEnds
<1>3. Len(h) \in Nat
  BY LenProperties
<1>4. k \in 0 .. Len(h)
  BY <1>2, <1>3 DEF Loop
<1>5. \A i \in 0 .. Len(h), field \in Fields : Sum(End(h, i), field) \in Nat
  BY EndType, SumType
<1>6. \A field \in Fields : st[field] \in Nat /\ Sum(End(h, k), field) + st[field] = base[field]
  BY <1>2 DEF Loop, Fields, Room
<1>7. FitsTogether(End(h, k), base)
  <2>1. \A field \in Fields : Sum(End(h, k), field) <= base[field]
    BY <1>4, <1>5, <1>6
  <2> QED BY <2>1, FitsTogetherIs
<1>8. ASSUME NEW l \in 0 .. Len(h), FitsTogether(End(h, l), base), ~ (l <= k) PROVE FALSE
  <2>1. ~st.open
    BY <1>2, <1>3, <1>8 DEF Loop
  <2>2. PICK j \in 1 .. Len(h) : j = Len(h) - k
    BY <1>2, <1>3, <2>1 DEF Loop
  <2>3. ~Fits(h[j], st) /\ h[j] \in Messages
    BY <1>2, <2>1, <2>2, ElementOfSeq DEF Loop
  <2>4. PICK field \in Fields : ~ (SizeOf(h[j], field) <= st[field])
    BY <2>3, FitsIs
  <2>5. Sum(End(h, k + 1), field) = SizeOf(h[j], field) + Sum(End(h, k), field)
    BY <1>4, <2>2, EndSum
  <2>6. PICK e \in 0 .. Len(h) : e = k + 1
    BY <1>3, <1>4, <1>8
  <2>7. Sum(End(h, e), field) <= Sum(End(h, l), field)
    <3>1. e <= l
      BY <1>4, <1>8, <2>6
    <3> QED BY <3>1, EndsGrow
  <2>8. Sum(End(h, l), field) <= base[field]
    BY <1>8, FitsTogetherIs
  <2>9. SizeOf(h[j], field) \in Nat /\ Sum(End(h, k), field) \in Nat /\ st[field] \in Nat
        /\ Sum(End(h, l), field) \in Nat /\ Sum(End(h, k), field) + st[field] = base[field]
    BY <1>4, <1>5, <1>6, <2>3, SizeOfType
  <2> QED BY <2>4, <2>5, <2>6, <2>7, <2>8, <2>9
<1> QED BY <1>4, <1>7, <1>8

-----------------------------------------------------------------------------
(***************************************************************************)
(* What the operators of Prompts make of sequences, as choices by sets.    *)
(***************************************************************************)
WrittenBlocks == {b \in TextBlocks : b.chars > 0}
UsableBlocks == WrittenBlocks \cup ImageBlocks

LEMMA BlocksAre ==
    ASSUME NEW b \in AllBlocks
    PROVE  /\ IsImage(b) <=> b \in ImageBlocks
           /\ IsText(b) <=> b \in TextBlocks
           /\ ~IsImage(b) <=> b \in TextBlocks
           /\ IsWritten(b) <=> b \in WrittenBlocks
           /\ (IsWritten(b) \/ IsImage(b)) <=> b \in UsableBlocks
BY DEF AllBlocks, TextBlocks, ImageBlocks, WrittenBlocks, UsableBlocks, IsImage, IsText, IsWritten

LEMMA SelectedBlocks ==
    ASSUME NEW s \in Seq(AllBlocks)
    PROVE  /\ Selected(s, IsImage) = Filtered(s, ImageBlocks)
           /\ Selected(s, IsText) = Filtered(s, TextBlocks)
           /\ Selected(s, LAMBDA b : ~IsImage(b)) = Filtered(s, TextBlocks)
           /\ Selected(s, IsWritten) = Filtered(s, WrittenBlocks)
           /\ Selected(s, LAMBDA b : IsWritten(b) \/ IsImage(b)) = Filtered(s, UsableBlocks)
<1>1. \A i \in DOMAIN s : s[i] \in AllBlocks
  BY LenProperties, ElementOfSeq
<1>2. {i \in DOMAIN s : IsImage(s[i])} = {i \in DOMAIN s : s[i] \in ImageBlocks}
  BY <1>1, BlocksAre
<1>3. {i \in DOMAIN s : IsText(s[i])} = {i \in DOMAIN s : s[i] \in TextBlocks}
  BY <1>1, BlocksAre
<1>4. {i \in DOMAIN s : ~IsImage(s[i])} = {i \in DOMAIN s : s[i] \in TextBlocks}
  BY <1>1, BlocksAre
<1>5. {i \in DOMAIN s : IsWritten(s[i])} = {i \in DOMAIN s : s[i] \in WrittenBlocks}
  BY <1>1, BlocksAre
<1>6. {i \in DOMAIN s : IsWritten(s[i]) \/ IsImage(s[i])} = {i \in DOMAIN s : s[i] \in UsableBlocks}
  BY <1>1, BlocksAre
<1> QED BY <1>2, <1>3, <1>4, <1>5, <1>6 DEF Selected, Filtered

LEMMA FilteredInto ==
    ASSUME NEW S, NEW s \in Seq(S), NEW G, NEW U, S \cap G \subseteq U
    PROVE  Filtered(s, G) \in Seq(U)
<1>1. \A i \in 1 .. Len(s) : i \in {j \in DOMAIN s : s[j] \in G} => s[i] \in U
  BY ElementOfSeq
<1> QED BY <1>1, ChosenType DEF Filtered

Contentful == {m \in Messages : m.content # <<>>}

Stripped == [m \in Messages |-> [role |-> m.role, content |-> Filtered(m.content, TextBlocks)]]
Normal == [m \in Messages |-> [role |-> IF m.role = "developer" THEN "system" ELSE m.role,
                               content |-> Filtered(m.content, UsableBlocks)]]

LEMMA StrippedTakes == Takes(Stripped, Messages, Messages)
<1>1. ASSUME NEW m \in Messages PROVE Stripped[m] \in Messages
  <2>1. m.content \in Seq(AllBlocks) /\ m.role \in Roles
    BY DEF Messages
  <2>2. Filtered(m.content, TextBlocks) \in Seq(AllBlocks)
    BY <2>1, FilteredInto DEF AllBlocks
  <2> QED BY <2>1, <2>2 DEF Stripped, Messages
<1> QED BY <1>1 DEF Takes

LEMMA NormalTakes == Takes(Normal, Messages, Messages)
<1>1. ASSUME NEW m \in Messages PROVE Normal[m] \in Messages
  <2>1. m.content \in Seq(AllBlocks) /\ m.role \in Roles
    BY DEF Messages
  <2>2. Filtered(m.content, UsableBlocks) \in Seq(AllBlocks)
    BY <2>1, FilteredInto DEF AllBlocks
  <2>3. (IF m.role = "developer" THEN "system" ELSE m.role) \in Roles
    BY <2>1 DEF Roles
  <2> QED BY <2>1, <2>2, <2>3 DEF Normal, Messages
<1> QED BY <1>1 DEF Takes

LEMMA SelectedContentful ==
    ASSUME NEW s \in Seq(Messages)
    PROVE  Selected(s, LAMBDA m : m.content # <<>>) = Filtered(s, Contentful)
<1>1. \A i \in DOMAIN s : s[i] \in Messages
  BY LenProperties, ElementOfSeq
<1>2. {i \in DOMAIN s : s[i].content # <<>>} = {i \in DOMAIN s : s[i] \in Contentful}
  BY <1>1 DEF Contentful
<1> QED BY <1>2 DEF Selected, Filtered

LEMMA WithoutImagesIs ==
    ASSUME NEW s \in Seq(Messages)
    PROVE  /\ WithoutImages(s) = Filtered(Mapped(Stripped, s), Contentful)
           /\ Mapped(Stripped, s) \in Seq(Messages)
           /\ WithoutImages(s) \in Seq(Messages)
           /\ WithoutImages(s) \in Seq(Contentful)
<1>1. \A i \in DOMAIN s : s[i] \in Messages
  BY LenProperties, ElementOfSeq
<1>2. ASSUME NEW i \in DOMAIN s
      PROVE  [s[i] EXCEPT !.content = Selected(@, LAMBDA b : ~IsImage(b))] = Stripped[s[i]]
  <2>1. PICK m \in Messages : m = s[i]
    BY <1>1
  <2>2. m.content \in Seq(AllBlocks) /\ m = [role |-> m.role, content |-> m.content]
    BY DEF Messages
  <2>3. Selected(m.content, LAMBDA b : ~IsImage(b)) = Filtered(m.content, TextBlocks)
    BY <2>2, SelectedBlocks
  <2>4. [m EXCEPT !.content = Selected(@, LAMBDA b : ~IsImage(b))]
            = [role |-> m.role, content |-> Selected(m.content, LAMBDA b : ~IsImage(b))]
    BY <2>2
  <2> QED BY <2>1, <2>3, <2>4 DEF Stripped
<1>3. [i \in DOMAIN s |-> [s[i] EXCEPT !.content = Selected(@, LAMBDA b : ~IsImage(b))]]
          = Mapped(Stripped, s)
  BY <1>2 DEF Mapped
<1>4. Mapped(Stripped, s) \in Seq(Messages)
  BY StrippedTakes, MappedType
<1>5. WithoutImages(s) = Filtered(Mapped(Stripped, s), Contentful)
  <2>1. WithoutImages(s) = Selected(Mapped(Stripped, s), LAMBDA m : m.content # <<>>)
    BY <1>3 DEF WithoutImages
  <2> QED BY <1>4, <2>1, SelectedContentful
<1>6. WithoutImages(s) \in Seq(Messages) /\ WithoutImages(s) \in Seq(Contentful)
  BY <1>4, <1>5, FilteredInto
<1> QED BY <1>4, <1>5, <1>6

LEMMA CurrentMessagesIs ==
    ASSUME NEW s \in Seq(Messages)
    PROVE  /\ CurrentMessages(s) = Filtered(Mapped(Normal, s), Contentful)
           /\ Mapped(Normal, s) \in Seq(Messages)
           /\ CurrentMessages(s) \in Seq(Messages)
           /\ CurrentMessages(s) \in Seq(Contentful)
<1>1. \A i \in DOMAIN s : s[i] \in Messages
  BY LenProperties, ElementOfSeq
<1>2. ASSUME NEW i \in DOMAIN s
      PROVE  Selected(s[i].content, LAMBDA b : IsWritten(b) \/ IsImage(b))
                 = Filtered(s[i].content, UsableBlocks)
  <2>1. s[i].content \in Seq(AllBlocks)
    BY <1>1 DEF Messages
  <2> QED BY <2>1, SelectedBlocks
<1>3. [i \in DOMAIN s |->
            [role |-> IF s[i].role = "developer" THEN "system" ELSE s[i].role,
             content |-> Selected(s[i].content, LAMBDA b : IsWritten(b) \/ IsImage(b))]]
          = Mapped(Normal, s)
  BY <1>1, <1>2 DEF Mapped, Normal
<1>4. Mapped(Normal, s) \in Seq(Messages)
  BY NormalTakes, MappedType
<1>5. CurrentMessages(s) = Filtered(Mapped(Normal, s), Contentful)
  <2>1. CurrentMessages(s) = Selected(Mapped(Normal, s), LAMBDA m : m.content # <<>>)
    BY <1>3 DEF CurrentMessages
  <2> QED BY <1>4, <2>1, SelectedContentful
<1>6. CurrentMessages(s) \in Seq(Messages) /\ CurrentMessages(s) \in Seq(Contentful)
  BY <1>4, <1>5, FilteredInto
<1> QED BY <1>4, <1>5, <1>6

-----------------------------------------------------------------------------
(***************************************************************************)
(* The messages of a chat, as they are stored and as they are told.        *)
(***************************************************************************)
Usable == {d \in Documents : d.status = "sent" /\ (d.text > 0 \/ d.images # <<>>)}

SaidBy(d) == (IF d.text > 0 THEN <<Text(d.text)>> ELSE <<>>) \o d.images
Told == [d \in Documents |-> [role |-> d.role, content |-> SaidBy(d)]]

LEMMA ImagesAreBlocks ==
    ASSUME NEW s \in Seq(ImageBlocks)
    PROVE  s \in Seq(AllBlocks)
<1>1. ImageBlocks \subseteq AllBlocks
  BY DEF AllBlocks
<1>2. Len(s) \in Nat /\ DOMAIN s = 1 .. Len(s) /\ \A i \in 1 .. Len(s) : s[i] \in AllBlocks
  BY <1>1, LenProperties, ElementOfSeq
<1> QED BY <1>2

LEMMA SaidByType ==
    ASSUME NEW d, d.text \in Nat, d.images \in Seq(ImageBlocks)
    PROVE  SaidBy(d) \in Seq(AllBlocks)
<1> DEFINE a == IF d.text > 0 THEN <<Text(d.text)>> ELSE <<>>
<1>1. a \in Seq(AllBlocks)
  <2>1. Text(d.text) \in AllBlocks
    BY DEF Text, AllBlocks, TextBlocks
  <2>2. <<Text(d.text)>> \in Seq(AllBlocks)
    BY <2>1
  <2> QED BY <2>2, EmptySeq
<1>2. d.images \in Seq(AllBlocks)
  BY ImagesAreBlocks
<1> HIDE DEF a
<1>3. a \o d.images \in Seq(AllBlocks)
  BY <1>1, <1>2, ConcatProperties
<1> QED BY <1>3 DEF SaidBy, a

LEMMA ToldTakes == Takes(Told, Documents, Messages)
<1>1. ASSUME NEW d \in Documents PROVE Told[d] \in Messages
  <2>1. d.text \in Nat /\ d.images \in Seq(ImageBlocks) /\ d.role \in Roles
    BY DEF Documents, Roles
  <2>2. SaidBy(d) \in Seq(AllBlocks)
    BY <2>1, SaidByType
  <2> QED BY <2>1, <2>2 DEF Told, Messages
<1> QED BY <1>1 DEF Takes

LEMMA GraniteInputIs ==
    ASSUME NEW s \in Seq(Documents)
    PROVE  /\ GraniteInput(s) = Mapped(Told, Filtered(s, Usable))
           /\ Filtered(s, Usable) \in Seq(Documents)
           /\ GraniteInput(s) \in Seq(Messages)
<1>1. \A i \in DOMAIN s : s[i] \in Documents
  BY LenProperties, ElementOfSeq
<1>2. {i \in DOMAIN s : s[i].status = "sent" /\ (s[i].text > 0 \/ s[i].images # <<>>)}
          = {i \in DOMAIN s : s[i] \in Usable}
  BY <1>1 DEF Usable
<1>3. Filtered(s, Usable) \in Seq(Documents)
  BY FilteredInto
<1> DEFINE u == Filtered(s, Usable)
<1>4. \A i \in DOMAIN u : u[i] \in Documents
  <2> HIDE DEF u
  <2>1. u \in Seq(Documents)
    BY <1>3 DEF u
  <2> QED BY <2>1, LenProperties, ElementOfSeq
<1>5. Selected(s, LAMBDA d : d.status = "sent" /\ (d.text > 0 \/ d.images # <<>>)) = u
  BY <1>2 DEF Selected, Filtered
<1>6. GraniteInput(s) = [i \in DOMAIN u |-> [role |-> u[i].role, content |-> SaidBy(u[i])]]
  <2> HIDE DEF u
  <2> QED BY <1>5 DEF GraniteInput, SaidBy
<1>7. GraniteInput(s) = Mapped(Told, u)
  <2> HIDE DEF u
  <2> QED BY <1>4, <1>6 DEF Mapped, Told
<1>8. Mapped(Told, u) \in Seq(Messages)
  <2> HIDE DEF u
  <2>1. u \in Seq(Documents)
    BY <1>3 DEF u
  <2> QED BY <2>1, ToldTakes, MappedType
<1> QED BY <1>3, <1>7, <1>8

Sent == {d \in Documents : d.status = "sent"}

LEMMA RecentMessagesType ==
    ASSUME NEW s \in Seq(Documents), NEW n \in Nat
    PROVE  /\ RecentMessages(s, n) \in Seq(Documents)
           /\ \A i \in 1 .. Len(RecentMessages(s, n)) :
                 \E j \in 1 .. Len(s) : RecentMessages(s, n)[i] = s[j]
<1> DEFINE t == Filtered(s, Sent)
           k == IF Len(t) > n THEN Len(t) - n + 1 ELSE 1
           Here == {s[j] : j \in 1 .. Len(s)}
<1>1. \A i \in DOMAIN s : s[i] \in Documents
  BY LenProperties, ElementOfSeq
<1>2. {i \in DOMAIN s : s[i].status = "sent"} = {i \in DOMAIN s : s[i] \in Sent}
  BY <1>1 DEF Sent
<1>3. Selected(s, LAMBDA d : d.status = "sent") = t
  BY <1>2 DEF Selected, Filtered
<1>4. t \in Seq(Here \cap Documents)
  <2>1. \A i \in 1 .. Len(s) : i \in {j \in DOMAIN s : s[j] \in Sent} => s[i] \in Here \cap Documents
    BY <1>1, ElementOfSeq
  <2> HIDE DEF Here
  <2> QED BY <2>1, ChosenType DEF Filtered
<1>5. RecentMessages(s, n) = SubSeq(t, k, Len(t))
  BY <1>3 DEF RecentMessages
<1>6. Len(t) \in Nat /\ k \in 1 .. Len(t) + 1
  <2> HIDE DEF t
  <2>1. Len(t) \in Nat
    BY <1>4, LenProperties
  <2> QED BY <2>1
<1> HIDE DEF t, k, Here
<1>7. SubSeq(t, k, Len(t)) \in Seq(Here \cap Documents)
  <2>1. \A i \in k .. Len(t) : t[i] \in Here \cap Documents
    BY <1>4, <1>6, ElementOfSeq
  <2> QED BY <1>4, <1>6, <2>1, SubSeqProperties
<1>8. PICK u \in Seq(Here \cap Documents) : u = RecentMessages(s, n)
  BY <1>5, <1>7
<1>9. Len(u) \in Nat /\ DOMAIN u = 1 .. Len(u) /\ \A i \in 1 .. Len(u) : u[i] \in Here \cap Documents
  BY <1>8, LenProperties, ElementOfSeq
<1>10. u \in Seq(Documents)
  BY <1>9
<1>11. \A i \in 1 .. Len(u) : \E j \in 1 .. Len(s) : u[i] = s[j]
  BY <1>9 DEF Here
<1> QED BY <1>8, <1>10, <1>11
-----------------------------------------------------------------------------
(***************************************************************************)
(* The message of a browser: a text, unless it is blank, and the images.   *)
(***************************************************************************)
\* The content of a message with n characters and some images.
Shape(content, n, images) ==
    content = (IF n > 0 THEN <<Text(n)>> ELSE <<>>) \o images

LEMMA TextIs ==
    ASSUME NEW n \in Nat, n > 0
    PROVE  Text(n) \in AllBlocks /\ Text(n) \in WrittenBlocks /\ Text(n) \notin ImageBlocks
           /\ Text(n) \in TextBlocks /\ Text(n) \in UsableBlocks
BY DEF Text, AllBlocks, WrittenBlocks, TextBlocks, ImageBlocks, UsableBlocks

LEMMA WebShape ==
    ASSUME NEW input \in Seq(Messages), WebInput(input)
    PROVE  \E n \in Nat, images \in Seq(ImageBlocks) : Shape(input[1].content, n, images)
<1>1. Len(input) = 1 /\ input[1] \in Messages
  BY ElementOfSeq DEF WebInput
<1>2. PICK c \in Seq(AllBlocks) : c = input[1].content
  BY <1>1 DEF Messages
<1>3. \A i \in 1 .. Len(c) : c[i] \in AllBlocks /\ (IsImage(c[i]) \/ (i = 1 /\ IsWritten(c[i])))
  BY <1>2, LenProperties, ElementOfSeq DEF WebInput
<1>4. \A i \in 1 .. Len(c) : c[i] \in ImageBlocks \/ (i = 1 /\ c[i] \in WrittenBlocks)
  BY <1>3, BlocksAre
<1>5. Len(c) \in Nat /\ c \in [1 .. Len(c) -> AllBlocks]
  BY LenProperties
<1>6. CASE \A i \in 1 .. Len(c) : c[i] \in ImageBlocks
  <2>1. c \in Seq(ImageBlocks)
    <3>1. c \in [1 .. Len(c) -> ImageBlocks]
      BY <1>5, <1>6
    <3> QED BY <1>5, <3>1
  <2>2. <<>> \o c = c
    BY ConcatEmptySeq
  <2>3. Shape(c, 0, c)
    BY <2>2 DEF Shape
  <2> QED BY <1>2, <2>1, <2>3
<1>7. CASE ~ \A i \in 1 .. Len(c) : c[i] \in ImageBlocks
  <2>1. 1 \in 1 .. Len(c) /\ c[1] \in WrittenBlocks
    BY <1>4, <1>7
  <2>2. PICK n \in Nat : n = c[1].chars /\ n > 0 /\ c[1] = Text(n)
    BY <2>1 DEF WrittenBlocks, TextBlocks, Text
  <2> DEFINE t == SubSeq(c, 2, Len(c))
  <2>3. c = <<Text(n)>> \o t
    <3>1. SubSeq(c, 1, Len(c)) = c
      BY SubSeqFull
    <3>2. Len(c) \in 1 .. Len(c)
      BY <1>5, <2>1
    <3>3. SubSeq(c, 1, Len(c)) = <<c[1]>> \o SubSeq(c, 1 + 1, Len(c))
      BY <2>1, <3>2, SubSeqRecursiveFirst
    <3> QED BY <2>2, <3>1, <3>3
  <2>4. t \in Seq(ImageBlocks)
    <3>1. \A i \in 2 .. Len(c) : c[i] \in ImageBlocks
      BY <1>4, <1>5
    <3> QED BY <1>5, <3>1, SubSeqProperties
  <2>5. Shape(c, n, t)
    <3> HIDE DEF t
    <3> QED BY <2>2, <2>3 DEF Shape
  <2> HIDE DEF t
  <2> QED BY <1>2, <2>4, <2>5
<1> QED BY <1>6, <1>7

LEMMA ShapeParts ==
    ASSUME NEW c, NEW n \in Nat, NEW images \in Seq(ImageBlocks), Shape(c, n, images)
    PROVE  /\ c \in Seq(AllBlocks)
           /\ Filtered(c, ImageBlocks) = images
           /\ Filtered(c, WrittenBlocks) = IF n > 0 THEN <<Text(n)>> ELSE <<>>
           /\ Filtered(c, UsableBlocks) = c
<1> DEFINE a == IF n > 0 THEN <<Text(n)>> ELSE <<>>
<1>1. images \in Seq(AllBlocks)
  BY ImagesAreBlocks
<1>2. a \in Seq(AllBlocks)
  <2>1. CASE n > 0
    <3>1. a = <<Text(n)>> /\ Text(n) \in AllBlocks
      BY <2>1, TextIs
    <3> HIDE DEF a
    <3>2. <<Text(n)>> \in Seq(AllBlocks)
      BY <3>1
    <3> QED BY <3>1, <3>2
  <2>2. CASE ~ (n > 0)
    BY <2>2, EmptySeq
  <2> QED BY <2>1, <2>2
<1>3. /\ Filtered(a, ImageBlocks) = <<>>
      /\ Filtered(a, WrittenBlocks) = a
      /\ Filtered(a, UsableBlocks) = a
  <2>1. CASE n > 0
    BY <2>1, TextIs, FilteredOne
  <2>2. CASE ~ (n > 0)
    BY <2>2, FilteredEmpty
  <2> QED BY <2>1, <2>2
<1>4. /\ Filtered(images, ImageBlocks) = images
      /\ Filtered(images, WrittenBlocks) = <<>>
      /\ Filtered(images, UsableBlocks) = images
  <2>1. \A i \in 1 .. Len(images) : images[i] \in ImageBlocks
    BY ElementOfSeq
  <2>2. \A b \in ImageBlocks : b \notin WrittenBlocks /\ b \in UsableBlocks
    BY DEF WrittenBlocks, TextBlocks, ImageBlocks, UsableBlocks
  <2>3. \A i \in 1 .. Len(images) : images[i] \notin WrittenBlocks /\ images[i] \in UsableBlocks
    BY <2>1, <2>2
  <2> QED BY <2>1, <2>3, FilteredAll, FilteredNone
<1>5. c = a \o images
  BY DEF Shape
<1>6. Filtered(c, WrittenBlocks) = a /\ Filtered(c, ImageBlocks) = images /\ Filtered(c, UsableBlocks) = c
      /\ c \in Seq(AllBlocks)
  <2> HIDE DEF a
  <2>1. /\ Filtered(a \o images, ImageBlocks) = Filtered(a, ImageBlocks) \o Filtered(images, ImageBlocks)
        /\ Filtered(a \o images, WrittenBlocks) = Filtered(a, WrittenBlocks) \o Filtered(images, WrittenBlocks)
        /\ Filtered(a \o images, UsableBlocks) = Filtered(a, UsableBlocks) \o Filtered(images, UsableBlocks)
        /\ a \o images \in Seq(AllBlocks)
    <3>1. ASSUME NEW G
          PROVE  Filtered(a \o images, G) = Filtered(a, G) \o Filtered(images, G)
      BY <1>1, <1>2, FilteredConcat
    <3>2. a \o images \in Seq(AllBlocks)
      BY <1>1, <1>2, ConcatProperties
    <3> QED BY <3>1, <3>2
  <2>2. a \o <<>> = a /\ <<>> \o images = images
    BY <1>1, <1>2, ConcatEmptySeq
  <2> QED BY <1>3, <1>4, <1>5, <2>1, <2>2
<1> QED BY <1>6

LEMMA ShapeCount ==
    ASSUME NEW m \in Messages, NEW n \in Nat, NEW images \in Seq(ImageBlocks),
           Shape(m.content, n, images)
    PROVE  CharacterCount(m) = n
<1> DEFINE w == Selected(m.content, IsWritten)
<1>1. m.content \in Seq(AllBlocks)
  BY DEF Messages
<1>2. w = IF n > 0 THEN <<Text(n)>> ELSE <<>>
  BY <1>1, ShapeParts, SelectedBlocks
<1>3. CharacterCount(m) = Total([i \in DOMAIN w |-> CharsOf(w[i])]) + AtLeastZero(Len(w) - 1)
  BY DEF CharacterCount, TotalOf
<1> HIDE DEF w
<1>4. CASE n > 0
  <2>1. w = <<Text(n)>> /\ Len(w) = 1
    BY <1>2, <1>4
  <2>2. [i \in DOMAIN w |-> CharsOf(w[i])] = <<n>>
    BY <2>1 DEF CharsOf, Text
  <2>3. AtLeastZero(Len(w) - 1) = 0
    BY <2>1 DEF AtLeastZero
  <2>4. Total(<<n>>) = n
    BY TotalOfOne
  <2> QED BY <1>3, <2>2, <2>3, <2>4
<1>5. CASE ~ (n > 0)
  <2>1. w = <<>> /\ Len(w) = 0 /\ n = 0
    BY <1>2, <1>5, EmptySeq
  <2>2. [i \in DOMAIN w |-> CharsOf(w[i])] = <<>>
    BY <2>1
  <2>3. AtLeastZero(Len(w) - 1) = 0
    BY <2>1 DEF AtLeastZero
  <2> QED BY <1>3, <2>1, <2>2, <2>3, TotalEmpty
<1> QED BY <1>4, <1>5

\* What a chat stores of it, and what it reads again, is what was sent.
LEMMA WebMessage ==
    ASSUME NEW input \in Seq(Messages), WebInput(input), input[1].content # <<>>
    PROVE  /\ CurrentMessages(input) = input
           /\ UserText(input) \in Nat
           /\ UserImages(input) \in Seq(ImageBlocks)
           /\ UserText(input) > 0 \/ UserImages(input) # <<>>
           /\ Shape(input[1].content, UserText(input), UserImages(input))
           /\ UserImages(input) = ImagesOf(input)
           /\ input = <<input[1]>> /\ input[1] \in Messages /\ input[1].role = "user"
<1>1. PICK m \in Messages : m = input[1]
  <2>1. 1 \in 1 .. Len(input)
    BY DEF WebInput
  <2>2. input[1] \in Messages
    BY <2>1, ElementOfSeq
  <2> QED BY <2>2
<1>2. input = <<m>> /\ m.role = "user" /\ m.content # <<>>
  <2>1. Len(input) = 1 /\ input \in [1 .. Len(input) -> Messages]
    BY LenProperties DEF WebInput
  <2> QED BY <1>1, <2>1 DEF WebInput
<1>3. PICK n \in Nat, images \in Seq(ImageBlocks) : Shape(m.content, n, images)
  BY <1>1, WebShape
<1>4. CurrentMessages(input) = input
  <2>1. Normal[m] = m
    <3>1. Filtered(m.content, UsableBlocks) = m.content
      BY <1>3, ShapeParts
    <3> QED BY <1>2, <3>1 DEF Normal, Messages
  <2>2. Mapped(Normal, <<m>>) = <<m>>
    BY <2>1, MappedOne
  <2>3. Filtered(<<m>>, Contentful) = <<m>>
    BY <1>2, FilteredOne DEF Contentful
  <2> QED BY <1>2, <2>2, <2>3, CurrentMessagesIs
<1>5. UserMessages(input) = <<m>>
  <2>1. {i \in DOMAIN <<m>> : <<m>>[i].role = "user"} = {1}
    BY <1>2
  <2>2. Chosen(<<m>>, {1}) = <<m>>
    BY ChosenFromOne
  <2> QED BY <1>2, <2>1, <2>2 DEF UserMessages, Selected
<1>6. CharacterCount(m) = n
  BY <1>3, ShapeCount
<1>7. UserText(input) = n
  <2> DEFINE w == Selected(<<m>>, LAMBDA x : CharacterCount(x) > 0)
  <2>1. w = IF n > 0 THEN <<m>> ELSE <<>>
    <3>1. 1 \in {i \in DOMAIN <<m>> : CharacterCount(<<m>>[i]) > 0} <=> n > 0
      BY <1>6
    <3>2. Chosen(<<m>>, {i \in DOMAIN <<m>> : CharacterCount(<<m>>[i]) > 0})
             = IF n > 0 THEN <<m>> ELSE <<>>
      BY <3>1, ChosenFromOne
    <3> QED BY <3>2 DEF Selected
  <2>2. UserText(input) = IF w = <<>> THEN 0 ELSE CharacterCount(w[Len(w)])
    BY <1>5 DEF UserText, Last
  <2> HIDE DEF w
  <2> QED BY <1>6, <2>1, <2>2
<1>8. UserImages(input) = images /\ UserImages(input) = ImagesOf(input)
  <2>1. UserImages(input) = ImagesOf(<<m>>)
    BY <1>4, <1>5 DEF UserImages, Last
  <2>2. m.content \in Seq(AllBlocks)
    BY DEF Messages
  <2>3. Blocks(<<m>>) = m.content
    <3>1. [i \in DOMAIN <<m>> |-> <<m>>[i].content] = <<m.content>>
      OBVIOUS
    <3> QED BY <2>2, <3>1, FlattenOne DEF Blocks
  <2>4. ImagesOf(<<m>>) = Filtered(m.content, ImageBlocks)
    BY <2>2, <2>3, SelectedBlocks DEF ImagesOf
  <2>5. Filtered(m.content, ImageBlocks) = images
    BY <1>3, ShapeParts
  <2>6. ImagesOf(input) = ImagesOf(<<m>>)
    BY <1>2
  <2> QED BY <2>1, <2>4, <2>5, <2>6
<1>9. n > 0 \/ images # <<>>
  <2>1. ASSUME ~ (n > 0), images = <<>> PROVE FALSE
    BY <1>2, <1>3, <2>1, EmptySeq, ConcatEmptySeq DEF Shape
  <2> QED BY <2>1
<1> QED BY <1>1, <1>2, <1>3, <1>4, <1>7, <1>8, <1>9

-----------------------------------------------------------------------------
(***************************************************************************)
(* What is put before the new messages.                                    *)
(***************************************************************************)
History(past, lim) == IF lim.enabled THEN past ELSE WithoutImages(past)

LEMMA HistoryType ==
    ASSUME NEW past \in Seq(Messages), NEW lim \in LimitSets
    PROVE  History(past, lim) \in Seq(Messages)
BY WithoutImagesIs DEF History

\* kept is the longest end of h that fits.
Longest(h, left, kept) ==
    \E k \in 0 .. Len(h) :
       /\ kept = End(h, k)
       /\ FitsTogether(End(h, k), left)
       /\ \A l \in 0 .. Len(h) : FitsTogether(End(h, l), left) => l <= k

LEMMA BoundedHistoryIs ==
    ASSUME NEW past \in Seq(Messages), NEW c \in Seq(Messages), NEW n \in Nat,
           NEW lim \in LimitSets
    PROVE  Longest(History(past, lim), LeftBy(c, n, lim), BoundedHistory(past, c, n, lim))
<1> DEFINE h == History(past, lim)
           left == LeftBy(c, n, lim)
<1>1. h \in Seq(Messages) /\ left \in Room /\ left.kept = 0 /\ left.open
  BY HistoryType, LeftByType
<1>2. PICK k : k = FoldRight(Keep, h, left).kept
  OBVIOUS
<1>3. /\ k \in 0 .. Len(h)
      /\ FitsTogether(End(h, k), left)
      /\ \A l \in 0 .. Len(h) : FitsTogether(End(h, l), left) => l <= k
  BY <1>1, <1>2, KeptIsLongest
<1>4. BoundedHistory(past, c, n, lim) = End(h, k)
  BY <1>2 DEF BoundedHistory, History, End
<1> HIDE DEF h, left
<1>5. Longest(h, left, BoundedHistory(past, c, n, lim))
  BY <1>3, <1>4 DEF Longest
<1> QED BY <1>5 DEF h, left

LEMMA BoundedHistoryType ==
    ASSUME NEW past \in Seq(Messages), NEW c \in Seq(Messages), NEW n \in Nat,
           NEW lim \in LimitSets
    PROVE  BoundedHistory(past, c, n, lim) \in Seq(Messages)
<1>1. PICK h : h = History(past, lim)
  OBVIOUS
<1>2. h \in Seq(Messages)
  BY <1>1, HistoryType
<1>3. PICK left, kept : left = LeftBy(c, n, lim) /\ kept = BoundedHistory(past, c, n, lim)
  OBVIOUS
<1>4. Longest(h, left, kept)
  BY <1>1, <1>3, BoundedHistoryIs
<1>5. PICK k \in 0 .. Len(h) : kept = End(h, k)
  BY <1>4 DEF Longest
<1> QED BY <1>2, <1>3, <1>5, EndType

LEMMA SuffixesAre ==
    ASSUME NEW S, NEW h \in Seq(S), NEW s
    PROVE  s \in Suffixes(h) <=> \E k \in 0 .. Len(h) : s = End(h, k)
<1>1. Len(h) \in Nat
  BY LenProperties
<1>2. ASSUME NEW k \in 0 .. Len(h), s = End(h, k) PROVE s \in Suffixes(h)
  <2>1. CASE k = 0
    BY <1>2, <2>1, EndNone DEF Suffixes
  <2>2. CASE k # 0
    <3>1. PICK l \in 1 .. Len(h) : l = Len(h) - k + 1
      <4>1. Len(h) - k + 1 \in 1 .. Len(h)
        BY <1>1, <2>2
      <4> QED BY <4>1
    <3> QED BY <1>2, <3>1 DEF End, Suffixes
  <2> QED BY <2>1, <2>2
<1>3. ASSUME s \in Suffixes(h) PROVE \E k \in 0 .. Len(h) : s = End(h, k)
  <2>1. CASE s = <<>>
    <3>1. 0 \in 0 .. Len(h) /\ s = End(h, 0)
      BY <1>1, <2>1, EndNone
    <3> QED BY <3>1
  <2>2. CASE s # <<>>
    <3>1. PICK l \in 1 .. Len(h) : s = SubSeq(h, l, Len(h))
      BY <1>3, <2>2 DEF Suffixes
    <3>2. PICK k \in 0 .. Len(h) : k = Len(h) - l + 1
      <4>1. Len(h) - l + 1 \in 0 .. Len(h)
        BY <1>1
      <4> QED BY <4>1
    <3>3. Len(h) - k + 1 = l
      BY <1>1, <3>2
    <3> QED BY <3>1, <3>3 DEF End
  <2> QED BY <2>1, <2>2
<1> QED BY <1>2, <1>3

Payloads == [input : Seq(Messages), tokens : Nat]

Instructed(ask) ==
    IF ask.instructions = 0 THEN <<>>
    ELSE <<[role |-> "system", content |-> <<Text(ask.instructions)>>]>>

LEMMA InstructedType ==
    ASSUME NEW ask \in AskTypes
    PROVE  Instructed(ask) \in Seq(Messages)
<1>1. CASE ask.instructions = 0
  BY <1>1, EmptySeq DEF Instructed
<1>2. CASE ask.instructions # 0
  <2>1. ask.instructions \in Nat /\ ask.instructions > 0
    BY <1>2 DEF AskTypes
  <2>2. <<Text(ask.instructions)>> \in Seq(AllBlocks)
    <3>1. Text(ask.instructions) \in AllBlocks
      BY <2>1, TextIs
    <3> QED BY <3>1
  <2>3. [role |-> "system", content |-> <<Text(ask.instructions)>>] \in Messages
    BY <2>2 DEF Messages, Roles
  <2>4. Instructed(ask) = <<[role |-> "system", content |-> <<Text(ask.instructions)>>]>>
    BY <1>2 DEF Instructed
  <2> QED BY <2>3, <2>4
<1> QED BY <1>1, <1>2

LEMMA PayloadIs ==
    ASSUME NEW ask \in AskTypes, NEW past \in Seq(Messages), NEW lim \in LimitSets,
           NEW c, c = CurrentMessages(ask.input),
           NEW kept, kept = BoundedHistory(past, c, ask.instructions, lim)
    PROVE  /\ c \in Seq(Messages) /\ kept \in Seq(Messages)
           /\ Payload(ask, past, lim) \in Payloads
           /\ Payload(ask, past, lim).input = (Instructed(ask) \o kept) \o c
           /\ Payload(ask, past, lim).tokens =
                 IF ask.tokens > 0 THEN ask.tokens
                 ELSE IF ImagesOf(Payload(ask, past, lim).input) = <<>> THEN lim.tokens
                 ELSE lim.imageTokens
<1>1. ask.input \in Seq(Messages) /\ ask.instructions \in Nat /\ ask.tokens \in Nat
  BY DEF AskTypes
<1>2. c \in Seq(Messages)
  BY <1>1, CurrentMessagesIs
<1>3. kept \in Seq(Messages)
  BY <1>1, <1>2, BoundedHistoryType
<1> DEFINE p == Payload(ask, past, lim)
           input == (Instructed(ask) \o kept) \o c
<1>4. input \in Seq(Messages)
  BY <1>2, <1>3, InstructedType, ConcatProperties
<1>5. p = [input |-> input,
           tokens |-> IF ask.tokens > 0 THEN ask.tokens
                      ELSE IF ImagesOf(input) = <<>> THEN lim.tokens ELSE lim.imageTokens]
  BY DEF Payload, Instructed
<1>6. lim.tokens \in Nat /\ lim.imageTokens \in Nat
  BY DEF LimitSets
<1> HIDE DEF p, input
<1>7. p \in Payloads
  BY <1>1, <1>4, <1>5, <1>6 DEF Payloads
<1> QED BY <1>2, <1>3, <1>5, <1>7 DEF p, input
-----------------------------------------------------------------------------
(***************************************************************************)
(* The inductive invariant: the types, what was admitted, the conversation *)
(* of a turn is there, and what is sent was built from what was read.      *)
(***************************************************************************)
Places == {"new", "read", "save", "call", "userSent", "reply", "context", "finish",
           "undoUser", "undoReply", "undoContext", "over"}

Turns ==
    [place : Places, ask : AskTypes \cup {None}, from : Requests \cup {None},
     past : Seq(Messages), kept : Seq(Messages), payload : Payloads \cup {None},
     reply : Nat, incomplete : BOOLEAN]

Chat(r, t) == IF t.from = None THEN r ELSE t.from

Admitted(t, lim) == ValidInput(t.ask, lim) /\ ValidParameters(t.ask, lim)

Open(r, t, docs) == t.ask.chat => (t.from = None /\ t.place = "read") \/ docs[Chat(r, t)] # None

Sided(t) ==
    /\ t.place \in {"save", "userSent", "reply", "undoUser", "undoReply"} => t.ask.chat
    /\ t.place \in {"context", "undoContext"} => ~t.ask.chat

Built(t, lim) ==
    t.place \in {"save", "call"} =>
        /\ t.kept = BoundedHistory(t.past, CurrentMessages(t.ask.input), t.ask.instructions, lim)
        /\ t.payload = Payload(t.ask, t.past, lim)

Idle == {"new", "over"}

Good(r, t, lim, docs) ==
    /\ t \in Turns
    /\ t.place # "new" => t.ask \in Asks
    /\ t.place \notin Idle => Admitted(t, lim) /\ Open(r, t, docs)
    /\ Sided(t)
    /\ Built(t, lim)

Chatted(docs) == docs \in [Requests -> Seq(Documents) \cup {None}]
Grown(docs, new) == \A c \in Requests : docs[c] # None => new[c] # None

Inv ==
    /\ config \in DOMAIN Configs
    /\ Chatted(chats)
    /\ contexts \in [Requests -> Seq(Messages) \cup {None}]
    /\ thread \in [Requests -> Seq(Messages)]
    /\ turn \in [Requests -> Turns]
    /\ \A r \in Requests : Good(r, turn[r], Limits, chats)

LEMMA LimitsType ==
    ASSUME config \in DOMAIN Configs
    PROVE  Limits \in LimitSets
<1>1. DOMAIN Configs = 1 .. Len(Configs)
  BY ConfigsAssumption, LenProperties
<1> QED BY <1>1, ConfigsAssumption, ElementOfSeq DEF Limits

LEMMA ChatType ==
    ASSUME NEW r \in Requests, NEW t \in Turns
    PROVE  Chat(r, t) \in Requests
BY DEF Turns, Chat

LEMMA GoodStays ==
    ASSUME NEW r \in Requests, NEW t, NEW lim, NEW docs, NEW new, Good(r, t, lim, docs), Grown(docs, new)
    PROVE  Good(r, t, lim, new)
<1>1. Chat(r, t) \in Requests
  BY ChatType DEF Good
<1>2. Open(r, t, docs) => Open(r, t, new)
  BY <1>1 DEF Open, Grown
<1> QED BY <1>2 DEF Good

LEMMA TurnStep ==
    ASSUME Inv, NEW r \in Requests, NEW t, turn' = [turn EXCEPT ![r] = t],
           Good(r, t, Limits, chats'), UNCHANGED config,
           Chatted(chats'), Grown(chats, chats'),
           contexts' \in [Requests -> Seq(Messages) \cup {None}],
           thread' \in [Requests -> Seq(Messages)]
    PROVE  Inv'
<1>1. t \in Turns
  BY DEF Good
<1>2. turn' \in [Requests -> Turns]
  BY <1>1 DEF Inv
<1>3. Limits' = Limits
  BY DEF Limits
<1>4. ASSUME NEW q \in Requests PROVE Good(q, turn'[q], Limits, chats')
  <2>1. CASE q = r
    <3>1. turn'[q] = t
      BY <2>1 DEF Inv
    <3> QED BY <2>1, <3>1
  <2>2. CASE q # r
    <3>1. turn'[q] = turn[q]
      BY <2>2 DEF Inv
    <3>2. Good(q, turn[q], Limits, chats)
      BY DEF Inv
    <3> QED BY <3>1, <3>2, GoodStays
  <2> QED BY <2>1, <2>2
<1> QED BY <1>2, <1>3, <1>4 DEF Inv

LEMMA SavedType ==
    ASSUME Chatted(chats), NEW r \in Requests, NEW d \in Documents,
           Conversation(r) \in Requests, chats[Conversation(r)] # None
    PROVE  Chatted(Saved(r, d)) /\ Grown(chats, Saved(r, d))
<1>1. PICK c \in Requests : c = Conversation(r)
  OBVIOUS
<1>2. chats[c] \in Seq(Documents)
  BY <1>1 DEF Chatted
<1>3. Append(chats[c], d) \in Seq(Documents)
  BY <1>2, AppendProperties
<1>4. Append(chats[c], d) # None
  BY <1>3, NoneAssumption
<1>5. Saved(r, d) = [chats EXCEPT ![c] = Append(chats[c], d)]
  BY <1>1 DEF Saved
<1> QED BY <1>3, <1>4, <1>5 DEF Chatted, Grown

\* The messages of a conversation, as update_message_status leaves them.
MarkedIn(s, r, role, status) ==
    [i \in DOMAIN s |-> IF s[i].turn = r /\ s[i].role = role THEN [s[i] EXCEPT !.status = status]
                        ELSE s[i]]

LEMMA MarkedInType ==
    ASSUME NEW s \in Seq(Documents), NEW r, NEW role, NEW status \in {"pending", "sent", "failed"}
    PROVE  MarkedIn(s, r, role, status) \in Seq(Documents)
           /\ Len(MarkedIn(s, r, role, status)) = Len(s)
           /\ \A i \in 1 .. Len(s) :
                 \/ MarkedIn(s, r, role, status)[i] = s[i]
                 \/ MarkedIn(s, r, role, status)[i] = [s[i] EXCEPT !.status = status]
<1>1. Len(s) \in Nat /\ DOMAIN s = 1 .. Len(s) /\ \A i \in 1 .. Len(s) : s[i] \in Documents
  BY LenProperties, ElementOfSeq
<1>2. \A d \in Documents : [d EXCEPT !.status = status] \in Documents
  BY DEF Documents
<1>3. MarkedIn(s, r, role, status) \in [1 .. Len(s) -> Documents]
  BY <1>1, <1>2 DEF MarkedIn
<1>4. Len(MarkedIn(s, r, role, status)) = Len(s) /\ MarkedIn(s, r, role, status) \in Seq(Documents)
  BY <1>1, <1>3
<1> QED BY <1>1, <1>4 DEF MarkedIn

LEMMA MarkedIs ==
    ASSUME Chatted(chats), NEW r \in Requests, NEW role,
           NEW status \in {"pending", "sent", "failed"},
           NEW c \in Requests, c = Conversation(r), chats[c] # None
    PROVE  /\ Marked(r, role, status) = [chats EXCEPT ![c] = MarkedIn(chats[c], r, role, status)]
           /\ Chatted(Marked(r, role, status)) /\ Grown(chats, Marked(r, role, status))
<1>1. chats[c] \in Seq(Documents)
  BY DEF Chatted
<1>2. Marked(r, role, status) = [chats EXCEPT ![c] = MarkedIn(chats[c], r, role, status)]
  BY DEF Marked, MarkedIn
<1>3. MarkedIn(chats[c], r, role, status) \in Seq(Documents)
  BY <1>1, MarkedInType
<1>4. MarkedIn(chats[c], r, role, status) # None
  BY <1>3, NoneAssumption
<1> QED BY <1>2, <1>3, <1>4 DEF Chatted, Grown
LEMMA TurnFacts ==
    ASSUME Inv, NEW r \in Requests, NEW t, t = turn[r]
    PROVE  /\ t \in Turns /\ Good(r, t, Limits, chats)
           /\ Limits \in LimitSets
           /\ Conversation(r) = Chat(r, t) /\ Conversation(r) \in Requests
           /\ t.place \notin Idle => t.ask \in Asks /\ t.ask \in AskTypes /\ Chats(r) \in BOOLEAN
           /\ t.place \notin Idle \cup {"read"} /\ Chats(r) =>
                 chats[Conversation(r)] # None /\ chats[Conversation(r)] \in Seq(Documents)
<1>1. t \in Turns /\ Good(r, t, Limits, chats)
  BY DEF Inv
<1>2. Limits \in LimitSets
  BY LimitsType DEF Inv
<1>3. Conversation(r) = Chat(r, t) /\ Conversation(r) \in Requests
  BY <1>1, ChatType DEF Conversation, Chat
<1>4. t.place \notin Idle => t.ask \in Asks /\ t.ask \in AskTypes /\ Chats(r) \in BOOLEAN
  BY <1>1, AsksAssumption DEF Good, Idle, Chats, AskTypes
<1>5. t.place \notin Idle \cup {"read"} /\ Chats(r) => chats[Conversation(r)] # None
  BY <1>1, <1>3 DEF Good, Open, Chats
<1>6. chats[Conversation(r)] # None => chats[Conversation(r)] \in Seq(Documents)
  BY <1>3 DEF Inv, Chatted
<1> QED BY <1>1, <1>2, <1>3, <1>4, <1>5, <1>6

LEMMA MoveGood ==
    ASSUME NEW r \in Requests, NEW t, NEW lim, NEW docs, Good(r, t, lim, docs),
           t.place \notin Idle \cup {"read"},
           NEW place \in Places \ {"new", "read"},
           place \in {"save", "call"} => t.place \in {"save", "call"},
           place \in {"save", "userSent", "reply", "undoUser", "undoReply"} => t.ask.chat,
           place \in {"context", "undoContext"} => ~t.ask.chat
    PROVE  Good(r, [t EXCEPT !.place = place], lim, docs)
<1> DEFINE u == [t EXCEPT !.place = place]
<1>1. t \in Turns
  BY DEF Good
<1>2. /\ u \in Turns /\ u.place = place /\ u.ask = t.ask /\ u.from = t.from
      /\ u.past = t.past /\ u.kept = t.kept /\ u.payload = t.payload
  BY <1>1 DEF Turns
<1> HIDE DEF u
<1>3. u.place # "new" => u.ask \in Asks
  BY <1>2 DEF Good, Idle
<1>4. Admitted(u, lim)
  <2>1. Admitted(t, lim)
    BY DEF Good
  <2> QED BY <1>2, <2>1 DEF Admitted
<1>5. Open(r, u, docs)
  <2>1. Open(r, t, docs)
    BY DEF Good
  <2> QED BY <1>2, <2>1 DEF Open, Chat
<1>6. Sided(u)
  BY <1>2 DEF Sided
<1>7. Built(u, lim)
  <2>1. Built(t, lim)
    BY DEF Good
  <2> QED BY <1>2, <2>1 DEF Built
<1>8. Good(r, u, lim, docs)
  BY <1>2, <1>3, <1>4, <1>5, <1>6, <1>7 DEF Good
<1> QED BY <1>8 DEF u

LEMMA GotoIs ==
    ASSUME Inv, NEW r \in Requests, NEW place, Goto(r, place)
    PROVE  turn' = [turn EXCEPT ![r] = [turn[r] EXCEPT !.place = place]]
BY DEF Goto

\* A step that moves a turn on and may add to the chats.
LEMMA MoveStep ==
    ASSUME Inv, NEW r \in Requests, NEW place \in Places \ {"new", "read"}, Goto(r, place),
           turn[r].place \notin Idle \cup {"read"},
           place \in {"save", "call"} => turn[r].place \in {"save", "call"},
           place \in {"save", "userSent", "reply", "undoUser", "undoReply"} => Chats(r),
           place \in {"context", "undoContext"} => ~Chats(r),
           UNCHANGED config, Chatted(chats'), Grown(chats, chats'),
           contexts' \in [Requests -> Seq(Messages) \cup {None}],
           thread' \in [Requests -> Seq(Messages)]
    PROVE  Inv'
<1>1. PICK t : t = turn[r]
  OBVIOUS
<1>2. Good(r, t, Limits, chats)
  BY <1>1, TurnFacts
<1>3. Good(r, t, Limits, chats')
  BY <1>2, GoodStays
<1>4. PICK u : u = [t EXCEPT !.place = place]
  OBVIOUS
<1>5. Good(r, u, Limits, chats')
  <2>1. t.ask.chat = Chats(r)
    BY <1>1 DEF Chats
  <2>2. /\ t.place \notin Idle \cup {"read"}
        /\ place \in {"save", "call"} => t.place \in {"save", "call"}
        /\ place \in {"save", "userSent", "reply", "undoUser", "undoReply"} => t.ask.chat
        /\ place \in {"context", "undoContext"} => ~t.ask.chat
    BY <1>1, <2>1
  <2> QED BY <1>3, <1>4, <2>2, MoveGood
<1>6. turn' = [turn EXCEPT ![r] = u]
  BY <1>1, <1>4, GotoIs
<1> QED BY <1>5, <1>6, TurnStep

LEMMA SameChats ==
    ASSUME Inv, UNCHANGED chats
    PROVE  Chatted(chats') /\ Grown(chats, chats')
BY DEF Inv, Grown

LEMMA SameContexts ==
    ASSUME Inv, UNCHANGED <<contexts, thread>>
    PROVE  /\ contexts' \in [Requests -> Seq(Messages) \cup {None}]
           /\ thread' \in [Requests -> Seq(Messages)]
BY DEF Inv

LEMMA ReceiveKeepsInv ==
    ASSUME Inv, NEW r \in Requests, NEW ask \in Asks, NEW from \in Requests \cup {None},
           Receive(r, ask, from)
    PROVE  Inv'
<1> DEFINE ok == ValidInput(ask, Limits) /\ ValidParameters(ask, Limits) /\ Found(ask, from)
           continues == ~ask.chat /\ from # None /\ Found(ask, from)
<1>1. PICK past : past = IF continues THEN contexts[from] ELSE <<>>
  OBVIOUS
<1>2. PICK place : place = IF ok THEN "read" ELSE "over"
  OBVIOUS
<1>3. PICK u : u = [turn[r] EXCEPT !.ask = ask, !.from = from, !.past = past, !.place = place]
  OBVIOUS
<1>4. turn' = [turn EXCEPT ![r] = u]
  <2>1. turn' = [turn EXCEPT ![r].ask = ask, ![r].from = from, ![r].past = past, ![r].place = place]
    BY <1>1, <1>2 DEF Receive
  <2> QED BY <1>3, <2>1 DEF Inv
<1>5. turn[r] \in Turns
  BY DEF Inv
<1>6. past \in Seq(Messages)
  <2>1. CASE continues
    <3>1. from \in Requests /\ contexts[from] # None
      BY <2>1 DEF Found
    <3>2. contexts[from] \in Seq(Messages)
      BY <3>1 DEF Inv
    <3> QED BY <1>1, <2>1, <3>2
  <2>2. CASE ~continues
    BY <1>1, <2>2, EmptySeq
  <2> QED BY <2>1, <2>2
<1>7. ask \in AskTypes
  BY AsksAssumption
<1>8. u \in Turns /\ u.ask = ask /\ u.from = from /\ u.place = place
  <2>1. place \in Places
    BY <1>2 DEF Places
  <2> QED BY <1>3, <1>5, <1>6, <1>7, <2>1 DEF Turns
<1>9. place = "over" \/ (place = "read" /\ ok)
  BY <1>2
<1> HIDE DEF ok
<1>10. ASSUME place = "read" PROVE Admitted(u, Limits) /\ Open(r, u, chats)
  <2>1. ok
    BY <1>9, <1>10
  <2>2. Admitted(u, Limits)
    BY <1>8, <2>1 DEF Admitted, ok
  <2>3. Open(r, u, chats)
    BY <1>8, <1>10, <2>1 DEF Open, Chat, ok, Found
  <2> QED BY <2>2, <2>3
<1>11. Good(r, u, Limits, chats)
  BY <1>8, <1>9, <1>10 DEF Good, Idle, Sided, Built
<1>12. UNCHANGED <<config, chats, contexts, thread>>
  BY DEF Receive
<1> QED BY <1>4, <1>11, <1>12, SameChats, SameContexts, TurnStep

LEMMA OpenedIs ==
    ASSUME Inv, NEW r \in Requests, At(r, "read")
    PROVE  /\ Chatted(Opened(r)) /\ Grown(chats, Opened(r))
           /\ Chats(r) => Opened(r)[Conversation(r)] \in Seq(Documents)
                          /\ Opened(r)[Conversation(r)] # None
<1>1. PICK t : t = turn[r]
  OBVIOUS
<1>2. Good(r, t, Limits, chats) /\ Conversation(r) = Chat(r, t) /\ Conversation(r) \in Requests
  BY <1>1, TurnFacts
<1>3. <<>> \in Seq(Documents) /\ <<>> # None
  <2>1. <<>> \in Seq(Documents)
    BY EmptySeq
  <2> QED BY <2>1, NoneAssumption
<1>4. Chatted(Opened(r)) /\ Grown(chats, Opened(r))
  BY <1>3 DEF Opened, Inv, Chatted, Grown
<1>5. ASSUME Chats(r) PROVE Opened(r)[Conversation(r)] # None
  <2>1. CASE t.from = None
    <3>1. Opened(r) = [chats EXCEPT ![r] = <<>>] /\ Conversation(r) = r
      BY <1>1, <1>2, <1>5, <2>1 DEF Opened, Chat
    <3> QED BY <1>3, <3>1 DEF Inv, Chatted
  <2>2. CASE t.from # None
    <3>1. Opened(r) = chats
      BY <1>1, <2>2 DEF Opened
    <3>2. t.place \notin Idle /\ t.ask.chat
      BY <1>1, <1>5 DEF At, Idle, Chats
    <3>3. Open(r, t, chats)
      BY <1>2, <3>2 DEF Good
    <3>4. chats[Chat(r, t)] # None
      BY <2>2, <3>2, <3>3 DEF Open
    <3> QED BY <1>2, <3>1, <3>4
  <2> QED BY <2>1, <2>2
<1>6. Opened(r)[Conversation(r)] # None => Opened(r)[Conversation(r)] \in Seq(Documents)
  BY <1>2, <1>4 DEF Chatted
<1> QED BY <1>4, <1>5, <1>6

\* What a turn reads before it builds its payload.
PastRead(r) ==
    IF Chats(r) THEN GraniteInput(RecentMessages(Opened(r)[Conversation(r)], RecentLimit))
    ELSE turn[r].past

LEMMA PastReadType ==
    ASSUME Inv, NEW r \in Requests, At(r, "read")
    PROVE  PastRead(r) \in Seq(Messages)
<1>1. CASE Chats(r)
  <2>1. PICK s \in Seq(Documents) : s = Opened(r)[Conversation(r)]
    BY <1>1, OpenedIs
  <2>2. RecentMessages(s, RecentLimit) \in Seq(Documents)
    BY RecentMessagesType, RepliesAssumption
  <2>3. GraniteInput(RecentMessages(s, RecentLimit)) \in Seq(Messages)
    BY <2>2, GraniteInputIs
  <2> QED BY <1>1, <2>1, <2>3 DEF PastRead
<1>2. CASE ~Chats(r)
  <2>1. turn[r].past \in Seq(Messages)
    BY DEF Inv, Turns
  <2> QED BY <1>2, <2>1 DEF PastRead
<1> QED BY <1>1, <1>2

LEMMA ReadKeepsInv ==
    ASSUME Inv, NEW r \in Requests, Read(r)
    PROVE  Inv'
<1>1. PICK t : t = turn[r]
  OBVIOUS
<1>2. /\ t \in Turns /\ Good(r, t, Limits, chats) /\ t.place = "read" /\ Limits \in LimitSets
      /\ t.ask \in Asks /\ t.ask \in AskTypes /\ Conversation(r) = Chat(r, t)
  <2>1. t.place = "read" /\ t.place \notin Idle
    BY <1>1 DEF Read, At, Idle
  <2> QED BY <1>1, <2>1, TurnFacts
<1>3. At(r, "read")
  BY DEF Read
<1>4. PICK past \in Seq(Messages) : past = PastRead(r)
  BY <1>3, PastReadType
<1>5. PICK c, kept : c = CurrentMessages(t.ask.input)
                     /\ kept = BoundedHistory(past, c, t.ask.instructions, Limits)
  OBVIOUS
<1>6. PICK payload : payload = Payload(t.ask, past, Limits)
  OBVIOUS
<1>7. kept \in Seq(Messages) /\ payload \in Payloads
  BY <1>2, <1>5, <1>6, PayloadIs
<1>8. PICK place : place = IF ~HasUserPrompt(payload) THEN "over"
                           ELSE IF t.ask.chat THEN "save" ELSE "call"
  OBVIOUS
<1>9. PICK u : u = [t EXCEPT !.past = past, !.payload = payload, !.kept = kept, !.place = place]
  OBVIOUS
<1>10. turn' = [turn EXCEPT ![r] = u]
  <2>1. turn' = [turn EXCEPT ![r].past = past, ![r].payload = payload, ![r].kept = kept,
                             ![r].place = place]
    BY <1>1, <1>4, <1>5, <1>6, <1>8 DEF Read, PastRead, Chats
  <2> QED BY <1>1, <1>9, <2>1 DEF Inv
<1>11. place \in {"over", "save", "call"} /\ (place = "save" => t.ask.chat)
  BY <1>8
<1>12. /\ u \in Turns /\ u.ask = t.ask /\ u.from = t.from /\ u.place = place /\ u.past = past
       /\ u.kept = kept /\ u.payload = payload
  <2>1. place \in Places
    BY <1>11 DEF Places
  <2> QED BY <1>2, <1>4, <1>7, <1>9, <2>1 DEF Turns
<1>13. Chatted(Opened(r)) /\ Grown(chats, Opened(r)) /\ chats' = Opened(r)
       /\ (t.ask.chat => Opened(r)[Chat(r, t)] # None)
  BY <1>1, <1>2, <1>3, OpenedIs DEF Read, Chats
<1>14. Good(r, u, Limits, chats')
  <2>1. u.place # "new" => u.ask \in Asks
    BY <1>2, <1>12
  <2>2. Admitted(u, Limits)
    <3>1. Admitted(t, Limits)
      BY <1>2 DEF Good, Idle
    <3> QED BY <1>12, <3>1 DEF Admitted
  <2>3. Open(r, u, chats')
    <3>1. Chat(r, u) = Chat(r, t)
      BY <1>12 DEF Chat
    <3> QED BY <1>12, <1>13, <3>1 DEF Open
  <2>4. Sided(u)
    BY <1>11, <1>12 DEF Sided
  <2>5. Built(u, Limits)
    BY <1>5, <1>6, <1>12 DEF Built
  <2> QED BY <1>12, <2>1, <2>2, <2>3, <2>4, <2>5 DEF Good
<1>15. UNCHANGED <<config, contexts, thread>>
  BY DEF Read
<1> QED BY <1>10, <1>13, <1>14, <1>15, SameContexts, TurnStep
LEMMA AdmittedWeb ==
    ASSUME NEW ask \in Asks, ask.chat, NEW lim, ValidInput(ask, lim)
    PROVE  /\ ask.input \in Seq(Messages) /\ WebInput(ask.input)
           /\ ask.input[1].content # <<>>
<1>1. ask.input \in Seq(Messages) /\ WebInput(ask.input)
  BY AsksAssumption DEF AskTypes
<1>2. 1 \in DOMAIN ask.input
  BY <1>1, LenProperties DEF WebInput
<1>3. ask.input[1] \in ToSet(ask.input)
  BY <1>2 DEF ToSet
<1>4. ask.input[1].content # <<>>
  BY <1>3 DEF ValidInput
<1> QED BY <1>1, <1>4

LEMMA AddedType ==
    ASSUME Inv, NEW r \in Requests, turn[r].place # "new"
    PROVE  Added(r) \in Seq(Messages)
<1>1. PICK t : t = turn[r]
  OBVIOUS
<1>2. t.ask \in AskTypes /\ t.reply \in Nat
  <2>1. Good(r, t, Limits, chats) /\ t \in Turns
    BY <1>1, TurnFacts
  <2> QED BY <1>1, <2>1, AsksAssumption DEF Good, Turns
<1>3. PICK c \in Seq(Messages) : c = CurrentMessages(t.ask.input)
  BY <1>2, CurrentMessagesIs DEF AskTypes
<1> DEFINE a == IF t.reply = 0 THEN <<>>
                ELSE <<[role |-> "assistant", content |-> <<Text(t.reply)>>]>>
<1>4. a \in Seq(Messages)
  <2>1. CASE t.reply = 0
    BY <2>1, EmptySeq
  <2>2. CASE t.reply # 0
    <3>1. t.reply > 0
      BY <1>2, <2>2
    <3>2. <<Text(t.reply)>> \in Seq(AllBlocks)
      <4>1. Text(t.reply) \in AllBlocks
        BY <1>2, <3>1, TextIs
      <4> QED BY <4>1
    <3>3. [role |-> "assistant", content |-> <<Text(t.reply)>>] \in Messages
      BY <3>2 DEF Messages, Roles
    <3>4. a = <<[role |-> "assistant", content |-> <<Text(t.reply)>>]>>
      BY <2>2
    <3> HIDE DEF a
    <3> QED BY <3>3, <3>4
  <2> QED BY <2>1, <2>2
<1>5. Added(r) = c \o a
  BY <1>1, <1>3 DEF Added
<1> HIDE DEF a
<1> QED BY <1>4, <1>5, ConcatProperties

LEMMA SaveUserKeepsInv ==
    ASSUME Inv, NEW r \in Requests, SaveUser(r)
    PROVE  Inv'
<1>1. turn[r].place = "save" /\ turn[r].place \notin Idle \cup {"read"}
  BY DEF SaveUser, At, Idle
<1>2. PICK t : t = turn[r]
  OBVIOUS
<1>3. Good(r, t, Limits, chats) /\ t.place = "save" /\ t.ask \in Asks /\ Conversation(r) \in Requests
  BY <1>1, <1>2, TurnFacts
<1>4. t.ask.chat /\ Chats(r) /\ ValidInput(t.ask, Limits)
  BY <1>2, <1>3 DEF Good, Sided, Admitted, Chats, Idle
<1>5. UserText(t.ask.input) \in Nat /\ UserImages(t.ask.input) \in Seq(ImageBlocks)
  BY <1>3, <1>4, AdmittedWeb, WebMessage
<1>6. chats[Conversation(r)] # None
  BY <1>1, <1>2, <1>4, TurnFacts
<1>7. PICK d : d = [turn |-> r, role |-> "user", status |-> "pending",
                    text |-> UserText(t.ask.input), images |-> UserImages(t.ask.input)]
  OBVIOUS
<1>8. d \in Documents
  BY <1>5, <1>7 DEF Documents
<1>9. chats' = Saved(r, d)
  BY <1>2, <1>7 DEF SaveUser
<1>10. Chatted(chats') /\ Grown(chats, chats')
  <2>1. Chatted(chats)
    BY DEF Inv
  <2> QED BY <1>3, <1>6, <1>8, <1>9, <2>1, SavedType
<1>11. Goto(r, "call") /\ UNCHANGED <<config, contexts, thread>>
  BY DEF SaveUser
<1>12. "call" \in Places \ {"new", "read"}
  BY DEF Places
<1> QED BY <1>1, <1>10, <1>11, <1>12, SameContexts, MoveStep

LEMMA MarkedStep ==
    ASSUME Inv, NEW r \in Requests, turn[r].place \notin Idle \cup {"read"}, Chats(r),
           NEW role, NEW status \in {"pending", "sent", "failed"}, chats' = Marked(r, role, status)
    PROVE  Chatted(chats') /\ Grown(chats, chats')
<1>1. PICK c \in Requests : c = Conversation(r)
  BY TurnFacts
<1>2. chats[c] # None
  BY <1>1, TurnFacts
<1>3. Chatted(chats)
  BY DEF Inv
<1> QED BY <1>1, <1>2, <1>3, MarkedIs

LEMMA ModelFailsKeepsInv ==
    ASSUME Inv, NEW r \in Requests, ModelFails(r)
    PROVE  Inv'
<1>1. turn[r].place \notin Idle \cup {"read"}
  BY DEF ModelFails, At, Idle
<1>2. Chatted(chats') /\ Grown(chats, chats')
  <2>1. CASE Chats(r)
    BY <1>1, <2>1, MarkedStep DEF ModelFails
  <2>2. CASE ~Chats(r)
    BY <2>2, SameChats DEF ModelFails
  <2> QED BY <2>1, <2>2
<1>3. Goto(r, "over") /\ UNCHANGED <<config, contexts, thread>>
  BY DEF ModelFails
<1>4. "over" \in Places \ {"new", "read"}
  BY DEF Places
<1> QED BY <1>1, <1>2, <1>3, <1>4, SameContexts, MoveStep

LEMMA ModelAnswersKeepsInv ==
    ASSUME Inv, NEW r \in Requests, NEW reply \in Replies, NEW incomplete \in BOOLEAN,
           ModelAnswers(r, reply, incomplete)
    PROVE  Inv'
<1>1. PICK t : t = turn[r]
  OBVIOUS
<1>2. t.place = "call" /\ t.place \notin Idle /\ Good(r, t, Limits, chats) /\ t \in Turns
      /\ t.ask \in AskTypes
  <2>1. t.place = "call" /\ t.place \notin Idle
    BY <1>1 DEF ModelAnswers, At, Idle
  <2> QED BY <1>1, <2>1, TurnFacts
<1>3. PICK place : place = IF t.ask.chat THEN "userSent"
                           ELSE IF t.ask.store THEN "context" ELSE "over"
  OBVIOUS
<1>4. PICK u : u = [t EXCEPT !.reply = reply, !.incomplete = incomplete, !.place = place]
  OBVIOUS
<1>5. turn' = [turn EXCEPT ![r] = u]
  <2>1. turn' = [turn EXCEPT ![r].reply = reply, ![r].incomplete = incomplete, ![r].place = place]
    BY <1>1, <1>3 DEF ModelAnswers, Chats
  <2> QED BY <1>1, <1>4, <2>1 DEF Inv
<1>6. /\ place \in {"userSent", "context", "over"} /\ (place = "userSent" => t.ask.chat)
      /\ (place = "context" => ~t.ask.chat)
  BY <1>3
<1>7. u \in Turns /\ u.ask = t.ask /\ u.from = t.from /\ u.place = place
  <2>1. place \in Places /\ reply \in Nat
    BY <1>6, RepliesAssumption DEF Places
  <2> QED BY <1>2, <1>4, <2>1 DEF Turns
<1>8. Good(r, u, Limits, chats)
  <2>1. u.ask \in Asks
    BY <1>2, <1>7 DEF Good
  <2>2. Admitted(u, Limits)
    <3>1. Admitted(t, Limits)
      BY <1>2 DEF Good
    <3> QED BY <1>7, <3>1 DEF Admitted
  <2>3. Open(r, u, chats)
    <3>1. Open(r, t, chats)
      BY <1>2 DEF Good
    <3> QED BY <1>2, <1>7, <3>1 DEF Open, Chat
  <2>4. Sided(u) /\ Built(u, Limits)
    BY <1>6, <1>7 DEF Sided, Built
  <2> QED BY <1>7, <2>1, <2>2, <2>3, <2>4 DEF Good
<1>9. UNCHANGED <<config, chats, contexts, thread>>
  BY DEF ModelAnswers
<1> QED BY <1>5, <1>8, <1>9, SameChats, SameContexts, TurnStep

LEMMA SidedAt ==
    ASSUME Inv, NEW r \in Requests
    PROVE  /\ turn[r].place \in {"save", "userSent", "reply", "undoUser", "undoReply"} => Chats(r)
           /\ turn[r].place \in {"context", "undoContext"} => ~Chats(r)
BY DEF Inv, Good, Sided, Chats

LEMMA MarkUserKeepsInv ==
    ASSUME Inv, NEW r \in Requests, MarkUser(r)
    PROVE  Inv'
<1>1. turn[r].place \notin Idle \cup {"read"} /\ turn[r].place = "userSent"
  BY DEF MarkUser, At, Idle
<1>2. Chats(r)
  BY <1>1, SidedAt
<1>3. Chatted(chats') /\ Grown(chats, chats')
  <2>1. chats' = Marked(r, "user", Verdict(r)) /\ Verdict(r) \in {"pending", "sent", "failed"}
    BY DEF MarkUser, Verdict
  <2> QED BY <1>1, <1>2, <2>1, MarkedStep
<1>4. PICK place : place = IF turn[r].reply > 0 THEN "reply" ELSE "finish"
  OBVIOUS
<1>5. place \in {"reply", "finish"} /\ Goto(r, place) /\ UNCHANGED <<config, contexts, thread>>
  BY <1>4 DEF MarkUser
<1>6. place \in Places \ {"new", "read"}
  BY <1>5 DEF Places
<1> QED BY <1>1, <1>2, <1>3, <1>5, <1>6, SameContexts, MoveStep

LEMMA SaveReplyKeepsInv ==
    ASSUME Inv, NEW r \in Requests, SaveReply(r)
    PROVE  Inv'
<1>1. turn[r].place \notin Idle \cup {"read"} /\ turn[r].place = "reply"
  BY DEF SaveReply, At, Idle
<1>2. Chats(r)
  BY <1>1, SidedAt
<1>3. PICK d : d = [turn |-> r, role |-> "assistant", status |-> Verdict(r),
                    text |-> turn[r].reply, images |-> <<>>]
  OBVIOUS
<1>4. d \in Documents
  <2>1. Verdict(r) \in {"pending", "sent", "failed"} /\ turn[r].reply \in Nat
    BY DEF Verdict, Inv, Turns
  <2>2. <<>> \in Seq(ImageBlocks)
    BY EmptySeq
  <2> QED BY <1>3, <2>1, <2>2 DEF Documents
<1>5. Chatted(chats') /\ Grown(chats, chats')
  <2>1. chats' = Saved(r, d)
    BY <1>3 DEF SaveReply
  <2>2. chats[Conversation(r)] # None /\ Conversation(r) \in Requests
    BY <1>1, <1>2, TurnFacts
  <2>3. Chatted(chats)
    BY DEF Inv
  <2> QED BY <1>4, <2>1, <2>2, <2>3, SavedType
<1>6. Goto(r, "finish") /\ UNCHANGED <<config, contexts, thread>>
  BY DEF SaveReply
<1>7. "finish" \in Places \ {"new", "read"}
  BY DEF Places
<1> QED BY <1>1, <1>5, <1>6, <1>7, SameContexts, MoveStep

LEMMA SaveContextKeepsInv ==
    ASSUME Inv, NEW r \in Requests, SaveContext(r)
    PROVE  Inv'
<1>1. turn[r].place \notin Idle \cup {"read"} /\ turn[r].place = "context"
  BY DEF SaveContext, At, Idle
<1>2. PICK a \in Seq(Messages) : a = Added(r)
  BY <1>1, AddedType
<1>3. PICK k \in Seq(Messages) : k = turn[r].kept
  BY DEF Inv, Turns
<1>4. PICK b \in Seq(Messages) : b = IF turn[r].from = None THEN <<>> ELSE thread[turn[r].from]
  <2>1. turn[r].from \in Requests \cup {None} /\ thread \in [Requests -> Seq(Messages)]
    BY DEF Inv, Turns
  <2> QED BY <2>1, EmptySeq
<1>5. k \o a \in Seq(Messages) /\ b \o a \in Seq(Messages)
  BY ConcatProperties
<1>6. contexts' = [contexts EXCEPT ![r] = k \o a] /\ thread' = [thread EXCEPT ![r] = b \o a]
  BY <1>2, <1>3, <1>4 DEF SaveContext
<1>7. /\ contexts' \in [Requests -> Seq(Messages) \cup {None}]
      /\ thread' \in [Requests -> Seq(Messages)]
  BY <1>5, <1>6 DEF Inv
<1>8. Goto(r, "finish") /\ UNCHANGED <<config, chats>>
  BY DEF SaveContext
<1>9. "finish" \in Places \ {"new", "read"}
  BY DEF Places
<1> QED BY <1>1, <1>7, <1>8, <1>9, SameChats, MoveStep

LEMMA FinishKeepsInv ==
    ASSUME Inv, NEW r \in Requests, NEW recorded \in BOOLEAN, Finish(r, recorded)
    PROVE  Inv'
<1>1. turn[r].place \notin Idle \cup {"read"}
  BY DEF Finish, At, Idle
<1>2. PICK place : place = IF recorded THEN "over" ELSE IF Chats(r) THEN "undoUser" ELSE "undoContext"
  OBVIOUS
<1>3. place \in {"over", "undoUser", "undoContext"} /\ (place = "undoUser" => Chats(r))
      /\ (place = "undoContext" => ~Chats(r))
  BY <1>2
<1>4. place \in Places \ {"new", "read"}
  BY <1>3 DEF Places
<1>5. Goto(r, place) /\ UNCHANGED <<config, chats, contexts, thread>>
  BY <1>2 DEF Finish
<1> QED BY <1>1, <1>3, <1>4, <1>5, SameChats, SameContexts, MoveStep

LEMMA UndoContextKeepsInv ==
    ASSUME Inv, NEW r \in Requests, UndoContext(r)
    PROVE  Inv'
<1>1. turn[r].place \notin Idle \cup {"read"}
  BY DEF UndoContext, At, Idle
<1>2. /\ contexts' \in [Requests -> Seq(Messages) \cup {None}]
      /\ thread' \in [Requests -> Seq(Messages)]
  BY DEF Inv, UndoContext
<1>3. Goto(r, "over") /\ UNCHANGED <<config, chats>>
  BY DEF UndoContext
<1>4. "over" \in Places \ {"new", "read"}
  BY DEF Places
<1> QED BY <1>1, <1>2, <1>3, <1>4, SameChats, MoveStep

LEMMA UndoKeepsInv ==
    ASSUME Inv, NEW r \in Requests, UndoUser(r) \/ UndoReply(r)
    PROVE  Inv'
<1>1. turn[r].place \notin Idle \cup {"read"} /\ turn[r].place \in {"undoUser", "undoReply"}
  BY DEF UndoUser, UndoReply, At, Idle
<1>2. Chats(r)
  BY <1>1, SidedAt
<1>3. PICK role : chats' = Marked(r, role, "failed")
  BY DEF UndoUser, UndoReply
<1>4. Chatted(chats') /\ Grown(chats, chats')
  BY <1>1, <1>2, <1>3, MarkedStep
<1>5. PICK place \in {"undoReply", "over"} : Goto(r, place)
  BY DEF UndoUser, UndoReply
<1>6. place \in Places \ {"new", "read"}
  BY DEF Places
<1>7. UNCHANGED <<config, contexts, thread>>
  BY DEF UndoUser, UndoReply
<1> QED BY <1>1, <1>2, <1>4, <1>5, <1>6, <1>7, SameContexts, MoveStep

LEMMA RestartKeepsInv ==
    ASSUME Inv, Restart
    PROVE  Inv'
<1>1. config' \in DOMAIN Configs
  <2>1. Len(Configs) \in Nat /\ DOMAIN Configs = 1 .. Len(Configs) /\ config \in 1 .. Len(Configs)
    BY ConfigsAssumption, LenProperties DEF Inv
  <2> QED BY <2>1 DEF Restart
<1>2. ASSUME NEW r \in Requests
      PROVE  turn'[r] \in Turns /\ Good(r, turn'[r], Limits', chats')
  <2>1. PICK t : t = turn[r]
    OBVIOUS
  <2>2. t \in Turns /\ Good(r, t, Limits, chats)
    BY <2>1, TurnFacts
  <2>3. CASE t.place \in Idle
    <3>1. turn'[r] = t
      BY <2>1, <2>3 DEF Restart, UnderWay, Idle
    <3>2. Good(r, t, Limits', chats')
      BY <2>2, <2>3 DEF Good, Built, Idle
    <3> QED BY <2>2, <3>1, <3>2
  <2>4. CASE t.place \notin Idle
    <3>1. PICK u : u = [t EXCEPT !.place = "over"]
      OBVIOUS
    <3>2. turn'[r] = u
      BY <2>1, <2>4, <3>1 DEF Restart, UnderWay, Idle
    <3>3. u \in Turns /\ u.place = "over" /\ u.ask = t.ask
      BY <2>2, <3>1 DEF Turns, Places
    <3>4. t.ask \in Asks
      BY <2>2, <2>4 DEF Good, Idle
    <3>5. Good(r, u, Limits', chats')
      BY <3>3, <3>4 DEF Good, Built, Idle, Sided
    <3> QED BY <3>2, <3>3, <3>5
  <2> QED BY <2>3, <2>4
<1>3. turn' \in [Requests -> Turns]
  <2>1. turn' = [r \in Requests |-> turn'[r]]
    BY DEF Restart
  <2> QED BY <1>2, <2>1
<1>4. UNCHANGED <<chats, contexts, thread>>
  BY DEF Restart
<1> QED BY <1>1, <1>2, <1>3, <1>4 DEF Inv

LEMMA InitInv ==
    ASSUME Init
    PROVE  Inv
<1>1. config \in DOMAIN Configs
  <2>1. Len(Configs) \in Nat \ {0} /\ DOMAIN Configs = 1 .. Len(Configs)
    BY ConfigsAssumption, LenProperties, EmptySeq
  <2> QED BY <2>1 DEF Init
<1>2. NewTurn \in Turns
  <2>1. <<>> \in Seq(Messages)
    BY EmptySeq
  <2> QED BY <2>1 DEF NewTurn, Turns, Places
<1>3. NewTurn.place = "new"
  BY DEF NewTurn
<1>5. \A r \in Requests : Good(r, NewTurn, Limits, chats)
  BY <1>2, <1>3 DEF Good, Idle, Sided, Built
<1>6. <<>> \in Seq(Messages)
  BY EmptySeq
<1> QED BY <1>1, <1>2, <1>5, <1>6 DEF Init, Inv, Chatted

LEMMA NextKeepsInv ==
    ASSUME Inv, [Next]_vars
    PROVE  Inv'
<1>1. CASE UNCHANGED vars
  BY <1>1 DEF vars, Inv, Limits
<1>2. CASE Restart
  BY <1>2, RestartKeepsInv
<1>3. ASSUME NEW r \in Requests, NEW ask \in Asks, NEW from \in Requests \cup {None},
             Receive(r, ask, from)
      PROVE  Inv'
  BY <1>3, ReceiveKeepsInv
<1>4. ASSUME NEW r \in Requests, NEW reply \in Replies, NEW incomplete \in BOOLEAN,
             ModelAnswers(r, reply, incomplete)
      PROVE  Inv'
  BY <1>4, ModelAnswersKeepsInv
<1>5. ASSUME NEW r \in Requests, NEW recorded \in BOOLEAN, Finish(r, recorded) PROVE Inv'
  BY <1>5, FinishKeepsInv
<1>6. ASSUME NEW r \in Requests,
             Read(r) \/ SaveUser(r) \/ ModelFails(r) \/ MarkUser(r) \/ SaveReply(r)
      PROVE  Inv'
  BY <1>6, ReadKeepsInv, SaveUserKeepsInv, ModelFailsKeepsInv, MarkUserKeepsInv, SaveReplyKeepsInv
<1>7. ASSUME NEW r \in Requests, SaveContext(r) \/ UndoContext(r) \/ UndoUser(r) \/ UndoReply(r)
      PROVE  Inv'
  BY <1>7, SaveContextKeepsInv, UndoContextKeepsInv, UndoKeepsInv
<1> QED BY <1>1, <1>2, <1>3, <1>4, <1>5, <1>6, <1>7 DEF Next

\* A turn that is under way was admitted under the limits that are in force, its
\* conversation is there, and what it is about to send is what bounded_history_messages
\* and build_granite_payload_with_context make of what it has read; whatever is stored
\* by any turn, in any order and under whatever limits, reads again as messages.
THEOREM ConversationsCorrect == Spec => []Inv
<1>1. Init => Inv
  BY InitInv
<1>2. Inv /\ [Next]_vars => Inv'
  BY NextKeepsInv
<1> QED BY <1>1, <1>2, PTL DEF Spec

-----------------------------------------------------------------------------
(***************************************************************************)
(* The history that is sent.                                               *)
(***************************************************************************)
LEMMA LongestIs ==
    ASSUME NEW h \in Seq(Messages), NEW left, NEW kept, Longest(h, left, kept),
           NEW ends, ends = {s \in Suffixes(h) : FitsTogether(s, left)}
    PROVE  kept \in ends /\ \A s \in ends : Len(s) <= Len(kept)
<1>1. PICK k \in 0 .. Len(h) :
         /\ kept = End(h, k)
         /\ FitsTogether(End(h, k), left)
         /\ \A l \in 0 .. Len(h) : FitsTogether(End(h, l), left) => l <= k
  BY DEF Longest
<1>2. kept \in ends
  BY <1>1, SuffixesAre
<1>3. Len(kept) = k
  BY <1>1, EndType
<1>4. ASSUME NEW s \in ends PROVE Len(s) <= k
  <2>1. PICK l \in 0 .. Len(h) : s = End(h, l)
    BY <1>4, SuffixesAre
  <2>2. FitsTogether(End(h, l), left)
    BY <1>4, <2>1
  <2>3. Len(s) = l
    BY <2>1, EndType
  <2> QED BY <1>1, <2>2, <2>3
<1> QED BY <1>2, <1>3, <1>4

LEMMA InvGivesLongest ==
    ASSUME Inv
    PROVE  HistoryIsLongestEnd
<1> SUFFICES ASSUME NEW r \in Requests, turn[r].place \in {"save", "call"}
             PROVE  LET ask == turn[r].ask
                        past == IF Limits.enabled THEN turn[r].past ELSE WithoutImages(turn[r].past)
                        left == LeftBy(CurrentMessages(ask.input), ask.instructions, Limits)
                        ends == {s \in Suffixes(past) : FitsTogether(s, left)}
                    IN  turn[r].kept \in ends /\ \A s \in ends : Len(s) <= Len(turn[r].kept)
  BY DEF HistoryIsLongestEnd
<1>1. PICK t : t = turn[r]
  OBVIOUS
<1>2. /\ t \in Turns /\ Good(r, t, Limits, chats) /\ Limits \in LimitSets /\ t.ask \in AskTypes
      /\ t.place \in {"save", "call"}
  <2>1. t.place \in {"save", "call"} /\ t.place \notin Idle
    BY <1>1 DEF Idle
  <2> QED BY <1>1, <2>1, TurnFacts
<1>3. PICK c \in Seq(Messages) : c = CurrentMessages(t.ask.input)
  BY <1>2, CurrentMessagesIs DEF AskTypes
<1>4. PICK n \in Nat, past \in Seq(Messages) : n = t.ask.instructions /\ past = t.past
  BY <1>2 DEF AskTypes, Turns
<1>5. PICK h, left : h = History(past, Limits) /\ left = LeftBy(c, n, Limits)
  OBVIOUS
<1>6. t.kept = BoundedHistory(past, c, n, Limits)
  BY <1>2, <1>3, <1>4 DEF Good, Built
<1>7. Longest(h, left, t.kept)
  BY <1>2, <1>5, <1>6, BoundedHistoryIs
<1>8. h \in Seq(Messages)
  BY <1>2, <1>5, HistoryType
<1>9. PICK ends : ends = {s \in Suffixes(h) : FitsTogether(s, left)}
  OBVIOUS
<1>10. t.kept \in ends /\ \A s \in ends : Len(s) <= Len(t.kept)
  BY <1>7, <1>8, <1>9, LongestIs
<1> QED BY <1>1, <1>3, <1>4, <1>5, <1>9, <1>10 DEF History

\* The history that goes to Granite is the longest end of what was read that fits
\* with the new messages: bounded_history_messages leaves no hole and gives nothing
\* away, for every limit and every conversation.
THEOREM HistoryStaysLongest == Spec => []HistoryIsLongestEnd
<1>1. Inv => HistoryIsLongestEnd
  BY InvGivesLongest
<1> QED BY <1>1, ConversationsCorrect, PTL
-----------------------------------------------------------------------------
(***************************************************************************)
(* Messages without their images.                                          *)
(***************************************************************************)
LEMMA StrippedConcat ==
    ASSUME NEW s \in Seq(Messages), NEW t \in Seq(Messages)
    PROVE  Mapped(Stripped, s \o t) = Mapped(Stripped, s) \o Mapped(Stripped, t)
<1>1. ASSUME NEW F, Takes(F, Messages, Messages)
      PROVE  Mapped(F, s \o t) = Mapped(F, s) \o Mapped(F, t)
  BY <1>1, MappedConcat
<1> QED BY <1>1, StrippedTakes

LEMMA ContentfulConcat ==
    ASSUME NEW s \in Seq(Messages), NEW t \in Seq(Messages)
    PROVE  Filtered(s \o t, Contentful) = Filtered(s, Contentful) \o Filtered(t, Contentful)
BY FilteredConcat

LEMMA WithoutImagesConcat ==
    ASSUME NEW s \in Seq(Messages), NEW t \in Seq(Messages)
    PROVE  WithoutImages(s \o t) = WithoutImages(s) \o WithoutImages(t)
<1>1. PICK u \in Seq(Messages) : u = s \o t
  BY ConcatProperties
<1>2. PICK a \in Seq(Messages), b \in Seq(Messages) : a = Mapped(Stripped, s) /\ b = Mapped(Stripped, t)
  BY WithoutImagesIs
<1>3. Mapped(Stripped, u) = a \o b
  BY <1>1, <1>2, StrippedConcat
<1>4. Filtered(a \o b, Contentful) = Filtered(a, Contentful) \o Filtered(b, Contentful)
  BY ContentfulConcat
<1> QED BY <1>1, <1>2, <1>3, <1>4, WithoutImagesIs

Plain == {m \in Messages : m.content \in Seq(TextBlocks)}

LEMMA StrippedIsPlain == Takes(Stripped, Messages, Plain)
<1>1. ASSUME NEW m \in Messages PROVE Stripped[m] \in Plain
  <2>1. m.content \in Seq(AllBlocks)
    BY DEF Messages
  <2>2. Filtered(m.content, TextBlocks) \in Seq(TextBlocks)
    BY <2>1, FilteredInto
  <2>3. Stripped[m] \in Messages
    BY StrippedTakes DEF Takes
  <2> QED BY <2>2, <2>3 DEF Stripped, Plain
<1> QED BY <1>1 DEF Takes

LEMMA PlainStays ==
    ASSUME NEW m \in Plain
    PROVE  Stripped[m] = m
<1>1. m \in Messages /\ m.content \in Seq(TextBlocks)
  BY DEF Plain
<1>2. \A i \in 1 .. Len(m.content) : m.content[i] \in TextBlocks
  BY <1>1, ElementOfSeq
<1>3. Filtered(m.content, TextBlocks) = m.content
  BY <1>1, <1>2, FilteredAll
<1> QED BY <1>1, <1>3 DEF Stripped, Messages

LEMMA WithoutImagesTwice ==
    ASSUME NEW s \in Seq(Messages)
    PROVE  WithoutImages(WithoutImages(s)) = WithoutImages(s)
<1>1. Mapped(Stripped, s) \in Seq(Plain)
  <2>1. ASSUME NEW F, Takes(F, Messages, Plain) PROVE Mapped(F, s) \in Seq(Plain)
    BY <2>1, MappedType
  <2> QED BY <2>1, StrippedIsPlain
<1>2. PICK w \in Seq(Plain \cap Contentful) : w = WithoutImages(s)
  <2>1. Filtered(Mapped(Stripped, s), Contentful) \in Seq(Plain \cap Contentful)
    BY <1>1, FilteredType
  <2> QED BY <2>1, WithoutImagesIs
<1>3. Len(w) \in Nat /\ DOMAIN w = 1 .. Len(w) /\ \A i \in 1 .. Len(w) : w[i] \in Plain /\ w[i] \in Contentful
  BY LenProperties, ElementOfSeq
<1>4. w \in Seq(Messages)
  <2>1. \A i \in 1 .. Len(w) : w[i] \in Messages
    BY <1>3 DEF Plain
  <2> QED BY <1>3, <2>1
<1>5. Mapped(Stripped, w) = w
  <2>1. \A i \in DOMAIN w : Stripped[w[i]] = w[i]
    BY <1>3, PlainStays
  <2>2. w = [i \in DOMAIN w |-> w[i]]
    BY <1>3
  <2> QED BY <2>1, <2>2 DEF Mapped
<1>6. Filtered(w, Contentful) = w
  BY <1>3, <1>4, FilteredAll
<1> QED BY <1>2, <1>4, <1>5, <1>6, WithoutImagesIs

LEMMA WithoutImagesEmpty == WithoutImages(<<>>) = <<>>
<1>1. PICK e \in Seq(Messages) : e = <<>>
  BY EmptySeq
<1> QED BY <1>1, WithoutImagesIs, MappedEmpty, FilteredEmpty

-----------------------------------------------------------------------------
(***************************************************************************)
(* The end of a sequence, as what comes after something else.              *)
(***************************************************************************)
EndOf(s, t) == \E u \in Seq(Messages) : t = u \o s

LEMMA EndOfItself ==
    ASSUME NEW s \in Seq(Messages)
    PROVE  EndOf(s, s)
<1>1. <<>> \in Seq(Messages) /\ <<>> \o s = s
  BY EmptySeq, ConcatEmptySeq
<1> QED BY <1>1 DEF EndOf

LEMMA EndOfConcat ==
    ASSUME NEW s \in Seq(Messages), NEW t \in Seq(Messages), EndOf(s, t), NEW a \in Seq(Messages)
    PROVE  EndOf(s \o a, t \o a)
<1>1. PICK u \in Seq(Messages) : t = u \o s
  BY DEF EndOf
<1>2. (u \o s) \o a = u \o (s \o a)
  BY ConcatAssociative
<1> QED BY <1>1, <1>2 DEF EndOf

LEMMA EndOfEnd ==
    ASSUME NEW s \in Seq(Messages), NEW t \in Seq(Messages), NEW v,
           EndOf(s, t), EndOf(t, v)
    PROVE  EndOf(s, v)
<1>1. PICK u \in Seq(Messages) : t = u \o s
  BY DEF EndOf
<1>2. PICK w \in Seq(Messages) : v = w \o t
  BY DEF EndOf
<1>3. Grouped(w, u, s)
  BY GroupedAlways
<1>4. PICK x \in Seq(Messages) : x = w \o u
  BY ConcatProperties
<1>5. v = x \o s
  BY <1>1, <1>2, <1>3, <1>4 DEF Grouped
<1> QED BY <1>5 DEF EndOf

LEMMA EndOfWithoutImages ==
    ASSUME NEW s \in Seq(Messages), NEW t \in Seq(Messages), EndOf(s, t)
    PROVE  EndOf(WithoutImages(s), WithoutImages(t))
<1>1. PICK u \in Seq(Messages) : t = u \o s
  BY DEF EndOf
<1>2. WithoutImages(t) = WithoutImages(u) \o WithoutImages(s) /\ WithoutImages(u) \in Seq(Messages)
  BY <1>1, WithoutImagesConcat, WithoutImagesIs
<1> QED BY <1>2 DEF EndOf

LEMMA EndIsEndOf ==
    ASSUME NEW h \in Seq(Messages), NEW k \in 0 .. Len(h)
    PROVE  EndOf(End(h, k), h)
<1>1. Len(h) \in Nat
  BY LenProperties
<1>2. PICK j \in 0 .. Len(h) : j = Len(h) - k
  <2>1. Len(h) - k \in 0 .. Len(h)
    BY <1>1
  <2> QED BY <2>1
<1>3. SubSeq(h, 1, j) \o SubSeq(h, j + 1, Len(h)) = SubSeq(h, 1, Len(h))
  <2>1. 1 \in 1 .. Len(h) + 1 /\ j \in 1 - 1 .. Len(h) /\ Len(h) \in j .. Len(h)
    BY <1>1
  <2> QED BY <2>1, ConcatAdjacentSubSeq
<1>4. SubSeq(h, 1, Len(h)) = h
  BY SubSeqFull
<1>5. j + 1 = Len(h) - k + 1
  BY <1>1, <1>2
<1>6. SubSeq(h, 1, j) \in Seq(Messages)
  <2>1. \A i \in 1 .. j : h[i] \in Messages
    BY <1>1, ElementOfSeq
  <2> QED BY <1>1, <2>1, SubSeqProperties
<1> QED BY <1>3, <1>4, <1>5, <1>6 DEF EndOf, End

LEMMA FirstOnes ==
    ASSUME NEW S, NEW s \in Seq(S), NEW n \in Nat, n <= Len(s)
    PROVE  /\ SubSeq(s, 1, n) \in Seq(S) /\ Len(SubSeq(s, 1, n)) = n
           /\ \A i \in 1 .. n : SubSeq(s, 1, n)[i] = s[i]
<1>1. Len(s) \in Nat /\ 1 \in Int /\ n \in Int
  BY LenProperties
<1>2. \A i \in 1 .. n : s[i] \in S
  BY <1>1, ElementOfSeq
<1>3. /\ SubSeq(s, 1, n) \in Seq(S)
      /\ Len(SubSeq(s, 1, n)) = IF 1 <= n THEN n - 1 + 1 ELSE 0
      /\ \A i \in 1 .. n - 1 + 1 : SubSeq(s, 1, n)[i] = s[1 + i - 1]
  BY <1>1, <1>2, SubSeqProperties
<1>4. n - 1 + 1 = n /\ \A i \in 1 .. n : 1 + i - 1 = i
  OBVIOUS
<1> QED BY <1>3, <1>4

LEMMA EndOfIsSuffix ==
    ASSUME NEW s \in Seq(Messages), NEW t \in Seq(Messages), EndOf(s, t)
    PROVE  IsSuffix(s, t)
<1>1. PICK u \in Seq(Messages) : t = u \o s
  BY DEF EndOf
<1>2. PICK n \in Nat, m \in Nat : n = Len(s) /\ m = Len(t) /\ m = Len(u) + n /\ Len(u) \in Nat
  <2>1. Len(s) \in Nat /\ Len(t) \in Nat /\ Len(u) \in Nat /\ Len(t) = Len(u) + Len(s)
    BY <1>1, LenProperties, ConcatProperties
  <2> QED BY <2>1
<1> DEFINE a == Reverse(s)
           b == Reverse(t)
<1>3. a = [i \in 1 .. n |-> s[(n - i) + 1]] /\ b = [i \in 1 .. m |-> t[(m - i) + 1]]
  BY <1>2 DEF Reverse
<1>4. a \in Seq(Messages) /\ Len(a) = n
  <2>1. \A i \in 1 .. n : s[(n - i) + 1] \in Messages
    <3>1. \A i \in 1 .. n : (n - i) + 1 \in 1 .. n
      OBVIOUS
    <3> QED BY <1>2, <3>1, ElementOfSeq
  <2>2. a \in [1 .. n -> Messages]
    BY <1>3, <2>1
  <2> HIDE DEF a
  <2> QED BY <2>2
<1>5. b \in Seq(Messages) /\ Len(b) = m
  <2>1. \A i \in 1 .. m : t[(m - i) + 1] \in Messages
    <3>1. \A i \in 1 .. m : (m - i) + 1 \in 1 .. m
      OBVIOUS
    <3> QED BY <1>2, <3>1, ElementOfSeq
  <2>2. b \in [1 .. m -> Messages]
    BY <1>3, <2>1
  <2> HIDE DEF b
  <2> QED BY <2>2
<1>6. ASSUME NEW i \in 1 .. n PROVE a[i] = b[i]
  <2>1. PICK j \in 1 .. n : j = (n - i) + 1
    <3>1. (n - i) + 1 \in 1 .. n
      OBVIOUS
    <3> QED BY <3>1
  <2>2. PICK k \in 1 .. m : k = (m - i) + 1
    <3>1. (m - i) + 1 \in 1 .. m
      BY <1>2
    <3> QED BY <3>1
  <2>3. k = Len(u) + j /\ ~ (k <= Len(u)) /\ k \in 1 .. Len(u) + Len(s) /\ k - Len(u) = j
    BY <1>2, <2>1, <2>2
  <2>4. t[k] = s[j]
    BY <1>1, <2>3, ConcatProperties
  <2>5. a[i] = s[j]
    BY <1>3, <2>1
  <2>6. b[i] = t[k]
    <3>1. i \in 1 .. m
      BY <1>2
    <3> QED BY <1>3, <2>2, <3>1
  <2> QED BY <2>4, <2>5, <2>6
<1>7. SubSeq(a, 1, n) = SubSeq(b, 1, n)
  <2> HIDE DEF a, b
  <2>2. PICK x \in Seq(Messages) :
           x = SubSeq(a, 1, n) /\ Len(x) = n /\ \A i \in 1 .. n : x[i] = a[i]
    BY <1>2, <1>4, FirstOnes
  <2>3. PICK y \in Seq(Messages) :
           y = SubSeq(b, 1, n) /\ Len(y) = n /\ \A i \in 1 .. n : y[i] = b[i]
    <3>1. n <= Len(b)
      BY <1>2, <1>5
    <3>2. /\ SubSeq(b, 1, n) \in Seq(Messages) /\ Len(SubSeq(b, 1, n)) = n
          /\ \A i \in 1 .. n : SubSeq(b, 1, n)[i] = b[i]
      BY <1>5, <3>1, FirstOnes
    <3> QED BY <3>2
  <2>6. x = y
    BY <1>6, <2>2, <2>3, SeqEqual
  <2> QED BY <2>2, <2>3, <2>6
<1>8. IsPrefix(a, b)
  <2> HIDE DEF a, b
  <2> QED BY <1>2, <1>4, <1>5, <1>7 DEF IsPrefix
<1> QED BY <1>8 DEF IsSuffix
-----------------------------------------------------------------------------
(***************************************************************************)
(* The contexts.  A context is there only once its turn is settled, and    *)
(* then neither its turn nor its thread changes any more; what continues   *)
(* it has read what it was, and keeps an end of that.                      *)
(***************************************************************************)
AddedBy(t) ==
    CurrentMessages(t.ask.input) \o
    IF t.reply = 0 THEN <<>>
    ELSE <<[role |-> "assistant", content |-> <<Text(t.reply)>>]>>

Settled(t) == t.place \in {"finish", "undoContext", "over"} /\ ~t.ask.chat

TrueAt(t, c, th) ==
    c # None =>
        /\ Settled(t)
        /\ EndOf(WithoutImages(c), WithoutImages(th))
        /\ EndOf(AddedBy(t), c)

Before(t, ths) == IF t.from = None THEN <<>> ELSE ths[t.from]

FedBy(t, ts, ths) ==
    t.place \notin Idle /\ ~t.ask.chat =>
        /\ t.from # None => Settled(ts[t.from])
        /\ t.place = "read" => EndOf(WithoutImages(t.past), WithoutImages(Before(t, ths)))
        /\ t.place \in {"call", "context"} =>
              EndOf(WithoutImages(t.kept), WithoutImages(Before(t, ths)))

ContextsTrue ==
    \A r \in Requests : TrueAt(turn[r], contexts[r], thread[r]) /\ FedBy(turn[r], turn, thread)

SettledStay(ts, ths, new, news) ==
    \A p \in Requests : Settled(ts[p]) => Settled(new[p]) /\ news[p] = ths[p]

LEMMA FedStays ==
    ASSUME NEW t, t.from \in Requests \cup {None}, NEW ts, NEW ths, NEW new, NEW news,
           FedBy(t, ts, ths), SettledStay(ts, ths, new, news)
    PROVE  FedBy(t, new, news)
<1> SUFFICES ASSUME t.place \notin Idle, ~t.ask.chat
             PROVE  /\ t.from # None => Settled(new[t.from])
                    /\ t.place = "read" => EndOf(WithoutImages(t.past), WithoutImages(Before(t, news)))
                    /\ t.place \in {"call", "context"} =>
                          EndOf(WithoutImages(t.kept), WithoutImages(Before(t, news)))
  BY DEF FedBy
<1>1. t.from # None => Settled(new[t.from]) /\ news[t.from] = ths[t.from]
  BY DEF FedBy, SettledStay
<1>2. Before(t, news) = Before(t, ths)
  BY <1>1 DEF Before
<1> QED BY <1>1, <1>2 DEF FedBy

LEMMA ContextsStep ==
    ASSUME Inv, ContextsTrue, NEW r \in Requests, NEW u \in Turns, NEW c, NEW th,
           turn' = [turn EXCEPT ![r] = u], contexts' = [contexts EXCEPT ![r] = c],
           thread' = [thread EXCEPT ![r] = th],
           Settled(turn[r]) => Settled(u) /\ th = thread[r],
           TrueAt(u, c, th), FedBy(u, turn, thread)
    PROVE  ContextsTrue'
<1>1. \A p \in Requests : turn'[p] = IF p = r THEN u ELSE turn[p]
  BY DEF Inv
<1>2. \A p \in Requests : contexts'[p] = IF p = r THEN c ELSE contexts[p]
  BY DEF Inv
<1>3. \A p \in Requests : thread'[p] = IF p = r THEN th ELSE thread[p]
  BY DEF Inv
<1>4. SettledStay(turn, thread, turn', thread')
  BY <1>1, <1>3 DEF SettledStay
<1>5. ASSUME NEW p \in Requests PROVE TrueAt(turn'[p], contexts'[p], thread'[p])
  <2>1. CASE p = r
    BY <1>1, <1>2, <1>3, <2>1
  <2>2. CASE p # r
    BY <1>1, <1>2, <1>3, <2>2 DEF ContextsTrue
  <2> QED BY <2>1, <2>2
<1>6. ASSUME NEW p \in Requests PROVE FedBy(turn'[p], turn', thread')
  <2>1. FedBy(turn'[p], turn, thread)
    BY <1>1 DEF ContextsTrue
  <2>2. turn'[p].from \in Requests \cup {None}
    <3>1. turn'[p] \in Turns
      BY <1>1 DEF Inv
    <3> QED BY <3>1 DEF Turns
  <2> QED BY <1>4, <2>1, <2>2, FedStays
<1> QED BY <1>5, <1>6 DEF ContextsTrue

\* A turn that moves on with its own ask, and no context is touched.
LEMMA MovesOn ==
    ASSUME Inv, ContextsTrue, NEW r \in Requests, NEW t, t = turn[r], NEW u \in Turns,
           turn' = [turn EXCEPT ![r] = u], UNCHANGED <<contexts, thread>>,
           t.place \notin Idle, u.ask = t.ask, u.from = t.from, u.kept = t.kept, u.place # "read",
           u.place \in {"call", "context"} /\ ~t.ask.chat => t.place \in {"call", "context"},
           Settled(t) => Settled(u) /\ u.reply = t.reply
    PROVE  ContextsTrue'
<1>1. TrueAt(t, contexts[r], thread[r]) /\ FedBy(t, turn, thread)
  BY DEF ContextsTrue
<1>2. TrueAt(u, contexts[r], thread[r])
  <2>1. Settled(t) => AddedBy(u) = AddedBy(t)
    BY DEF AddedBy
  <2> QED BY <1>1, <2>1 DEF TrueAt
<1>3. FedBy(u, turn, thread)
  <2>1. Before(u, thread) = Before(t, thread)
    BY DEF Before
  <2> QED BY <1>1, <2>1 DEF FedBy
<1>4. contexts' = [contexts EXCEPT ![r] = contexts[r]] /\ thread' = [thread EXCEPT ![r] = thread[r]]
  BY DEF Inv
<1> QED BY <1>2, <1>3, <1>4, ContextsStep

LEMMA ContextsGoto ==
    ASSUME Inv, ContextsTrue, NEW r \in Requests, NEW place \in Places \ {"new", "read"},
           Goto(r, place), UNCHANGED <<contexts, thread>>, turn[r].place \notin Idle,
           place \in {"call", "context"} => Chats(r),
           turn[r].place \in {"finish", "undoContext"} /\ ~Chats(r) => place \in {"undoContext", "over"}
    PROVE  ContextsTrue'
<1>1. PICK t : t = turn[r]
  OBVIOUS
<1>2. PICK u : u = [t EXCEPT !.place = place]
  OBVIOUS
<1>3. t \in Turns
  BY <1>1 DEF Inv
<1>4. /\ u \in Turns /\ u.place = place /\ u.ask = t.ask /\ u.from = t.from /\ u.kept = t.kept
      /\ u.reply = t.reply
  BY <1>2, <1>3 DEF Turns
<1>5. turn' = [turn EXCEPT ![r] = u]
  BY <1>1, <1>2, GotoIs
<1>6. Settled(t) => Settled(u)
  <2>1. t.place # "over"
    BY <1>1 DEF Idle
  <2> QED BY <1>1, <1>4, <2>1 DEF Settled, Chats
<1>7. t.place \notin Idle /\ u.place # "read"
  BY <1>1, <1>4
<1>8. u.place \in {"call", "context"} /\ ~t.ask.chat => t.place \in {"call", "context"}
  BY <1>1, <1>4 DEF Chats
<1> QED BY <1>1, <1>4, <1>5, <1>6, <1>7, <1>8, MovesOn
LEMMA NotSettled ==
    ASSUME ContextsTrue, NEW r \in Requests, ~Settled(turn[r])
    PROVE  contexts[r] = None
BY DEF ContextsTrue, TrueAt

LEMMA ReceiveKeepsContexts ==
    ASSUME Inv, ContextsTrue, NEW r \in Requests, NEW ask \in Asks,
           NEW from \in Requests \cup {None}, Receive(r, ask, from)
    PROVE  ContextsTrue'
<1> DEFINE ok == ValidInput(ask, Limits) /\ ValidParameters(ask, Limits) /\ Found(ask, from)
           continues == ~ask.chat /\ from # None /\ Found(ask, from)
<1>1. PICK past : past = IF continues THEN contexts[from] ELSE <<>>
  OBVIOUS
<1>2. PICK place : place = IF ok THEN "read" ELSE "over"
  OBVIOUS
<1>3. PICK u : u = [turn[r] EXCEPT !.ask = ask, !.from = from, !.past = past, !.place = place]
  OBVIOUS
<1>4. turn' = [turn EXCEPT ![r] = u]
  <2>1. turn' = [turn EXCEPT ![r].ask = ask, ![r].from = from, ![r].past = past, ![r].place = place]
    BY <1>1, <1>2 DEF Receive
  <2> QED BY <1>3, <2>1 DEF Inv
<1>5. turn[r].place = "new" /\ ~Settled(turn[r]) /\ UNCHANGED <<contexts, thread>>
  BY DEF Receive, At, Settled
<1>6. u \in Turns
  <2>1. turn' \in [Requests -> Turns]
    BY ReceiveKeepsInv DEF Inv
  <2>2. turn'[r] = u
    BY <1>4 DEF Inv
  <2> QED BY <2>1, <2>2
<1>7. u.ask = ask /\ u.from = from /\ u.past = past /\ u.place = place
  <2>1. turn[r] \in Turns
    BY DEF Inv
  <2> QED BY <1>3, <2>1 DEF Turns
<1>8. FedBy(u, turn, thread)
  <2> SUFFICES ASSUME place = "read", ~ask.chat
               PROVE  /\ from # None => Settled(turn[from])
                      /\ EndOf(WithoutImages(past), WithoutImages(Before(u, thread)))
    <3>1. place \in {"read", "over"}
      BY <1>2
    <3> QED BY <1>7, <3>1 DEF FedBy, Idle
  <2>1. ok
    BY <1>2
  <2>2. CASE from = None
    <3>1. past = <<>> /\ Before(u, thread) = <<>>
      BY <1>1, <1>7, <2>2 DEF Before
    <3>2. <<>> \in Seq(Messages)
      BY EmptySeq
    <3>3. EndOf(<<>>, <<>>)
      BY <3>2, EndOfItself
    <3> QED BY <2>2, <3>1, <3>3, WithoutImagesEmpty
  <2>3. CASE from # None
    <3>1. contexts[from] # None /\ from \in Requests /\ continues
      BY <2>1, <2>3 DEF Found
    <3>2. Settled(turn[from]) /\ EndOf(WithoutImages(contexts[from]), WithoutImages(thread[from]))
      BY <3>1 DEF ContextsTrue, TrueAt
    <3>3. past = contexts[from] /\ Before(u, thread) = thread[from]
      BY <1>1, <1>7, <2>3, <3>1 DEF Before
    <3> QED BY <3>2, <3>3
  <2> QED BY <2>2, <2>3
<1>9. TrueAt(u, contexts[r], thread[r])
  BY <1>5, NotSettled DEF TrueAt
<1>10. contexts' = [contexts EXCEPT ![r] = contexts[r]] /\ thread' = [thread EXCEPT ![r] = thread[r]]
  BY <1>5 DEF Inv
<1> HIDE DEF ok, continues
<1> QED BY <1>4, <1>5, <1>6, <1>8, <1>9, <1>10, ContextsStep

\* What is kept of a past is, but for its images, an end of it.
LEMMA KeptIsEnd ==
    ASSUME NEW past \in Seq(Messages), NEW c \in Seq(Messages), NEW n \in Nat,
           NEW lim \in LimitSets, NEW kept, kept = BoundedHistory(past, c, n, lim)
    PROVE  kept \in Seq(Messages) /\ EndOf(WithoutImages(kept), WithoutImages(past))
<1>1. kept \in Seq(Messages)
  BY BoundedHistoryType
<1>2. PICK h \in Seq(Messages) : h = History(past, lim)
  BY HistoryType
<1>3. PICK left : left = LeftBy(c, n, lim)
  OBVIOUS
<1>4. Longest(h, left, kept)
  BY <1>2, <1>3, BoundedHistoryIs
<1>5. PICK k \in 0 .. Len(h) : kept = End(h, k)
  BY <1>4 DEF Longest
<1>6. EndOf(kept, h)
  BY <1>5, EndIsEndOf
<1>7. EndOf(WithoutImages(kept), WithoutImages(h))
  BY <1>1, <1>6, EndOfWithoutImages
<1>8. WithoutImages(h) = WithoutImages(past)
  BY <1>2, WithoutImagesTwice DEF History
<1> QED BY <1>1, <1>7, <1>8

LEMMA ReadKeepsContexts ==
    ASSUME Inv, ContextsTrue, NEW r \in Requests, Read(r)
    PROVE  ContextsTrue'
<1>1. PICK t : t = turn[r]
  OBVIOUS
<1>2. /\ t \in Turns /\ t.place = "read" /\ Limits \in LimitSets
      /\ t.ask \in Asks /\ t.ask \in AskTypes
  <2>1. t.place = "read" /\ t.place \notin Idle
    BY <1>1 DEF Read, At, Idle
  <2> QED BY <1>1, <2>1, TurnFacts
<1>3. At(r, "read")
  BY DEF Read
<1>4. PICK past \in Seq(Messages) : past = PastRead(r)
  BY <1>3, PastReadType
<1>5. PICK c \in Seq(Messages) : c = CurrentMessages(t.ask.input)
  BY <1>2, CurrentMessagesIs DEF AskTypes
<1>6. PICK kept : kept = BoundedHistory(past, c, t.ask.instructions, Limits)
  OBVIOUS
<1>7. PICK payload, place :
         /\ payload = Payload(t.ask, past, Limits)
         /\ place = IF ~HasUserPrompt(payload) THEN "over" ELSE IF t.ask.chat THEN "save" ELSE "call"
  OBVIOUS
<1>8. PICK u : u = [t EXCEPT !.past = past, !.payload = payload, !.kept = kept, !.place = place]
  OBVIOUS
<1>9. turn' = [turn EXCEPT ![r] = u]
  <2>1. turn' = [turn EXCEPT ![r].past = past, ![r].payload = payload, ![r].kept = kept,
                             ![r].place = place]
    BY <1>1, <1>4, <1>5, <1>6, <1>7 DEF Read, PastRead, Chats
  <2> QED BY <1>1, <1>8, <2>1 DEF Inv
<1>10. u \in Turns
  <2>1. turn' \in [Requests -> Turns]
    BY ReadKeepsInv DEF Inv
  <2>2. turn'[r] = u
    BY <1>9 DEF Inv
  <2> QED BY <2>1, <2>2
<1>11. u.ask = t.ask /\ u.from = t.from /\ u.place = place /\ u.past = past /\ u.kept = kept
  BY <1>2, <1>8 DEF Turns
<1>12. place \in {"over", "save", "call"} /\ (place = "save" => t.ask.chat)
  BY <1>7
<1>13. FedBy(t, turn, thread) /\ ~Settled(t)
  BY <1>1, <1>2 DEF ContextsTrue, Settled
<1>14. FedBy(u, turn, thread)
  <2> SUFFICES ASSUME place = "call", ~t.ask.chat
               PROVE  /\ t.from # None => Settled(turn[t.from])
                      /\ EndOf(WithoutImages(kept), WithoutImages(Before(u, thread)))
    BY <1>11, <1>12 DEF FedBy, Idle
  <2>1. PICK b \in Seq(Messages) : b = Before(t, thread)
    <3>1. t.from \in Requests \cup {None} /\ thread \in [Requests -> Seq(Messages)]
      BY <1>2 DEF Inv, Turns
    <3> QED BY <3>1, EmptySeq DEF Before
  <2>2. Before(u, thread) = b
    BY <1>11, <2>1 DEF Before
  <2>3. past = t.past
    BY <1>1, <1>4 DEF PastRead, Chats
  <2>4. EndOf(WithoutImages(past), WithoutImages(b)) /\ (t.from # None => Settled(turn[t.from]))
    BY <1>2, <1>13, <2>1, <2>3 DEF FedBy, Idle
  <2>5. t.ask.instructions \in Nat
    BY <1>2 DEF AskTypes
  <2>6. kept \in Seq(Messages) /\ EndOf(WithoutImages(kept), WithoutImages(past))
    BY <1>2, <1>6, <2>5, KeptIsEnd
  <2>7. WithoutImages(kept) \in Seq(Messages) /\ WithoutImages(past) \in Seq(Messages)
    BY <2>6, WithoutImagesIs
  <2>8. EndOf(WithoutImages(kept), WithoutImages(b))
    BY <2>4, <2>6, <2>7, EndOfEnd
  <2> QED BY <2>2, <2>4, <2>8
<1>15. TrueAt(u, contexts[r], thread[r])
  BY <1>1, <1>13, NotSettled DEF TrueAt
<1>16. contexts' = [contexts EXCEPT ![r] = contexts[r]] /\ thread' = [thread EXCEPT ![r] = thread[r]]
  BY DEF Read, Inv
<1> QED BY <1>1, <1>9, <1>10, <1>13, <1>14, <1>15, <1>16, ContextsStep

LEMMA SaveContextKeepsContexts ==
    ASSUME Inv, ContextsTrue, NEW r \in Requests, SaveContext(r)
    PROVE  ContextsTrue'
<1>1. PICK t : t = turn[r]
  OBVIOUS
<1>2. t.place = "context" /\ t.place \notin Idle /\ t \in Turns
  BY <1>1 DEF SaveContext, At, Idle, Inv
<1>3. ~t.ask.chat
  <2>1. Good(r, t, Limits, chats)
    BY <1>1, TurnFacts
  <2> QED BY <1>2, <2>1 DEF Good, Sided
<1>4. PICK a \in Seq(Messages) : a = Added(r)
  BY <1>1, <1>2, AddedType
<1>5. PICK k \in Seq(Messages) : k = t.kept
  BY <1>2 DEF Turns
<1>6. PICK b \in Seq(Messages) : b = Before(t, thread)
  <2>1. t.from \in Requests \cup {None} /\ thread \in [Requests -> Seq(Messages)]
    BY <1>2 DEF Inv, Turns
  <2> QED BY <2>1, EmptySeq DEF Before
<1>7. contexts' = [contexts EXCEPT ![r] = k \o a] /\ thread' = [thread EXCEPT ![r] = b \o a]
  BY <1>1, <1>4, <1>5, <1>6 DEF SaveContext, Before
<1>8. PICK u : u = [t EXCEPT !.place = "finish"]
  OBVIOUS
<1>9. turn' = [turn EXCEPT ![r] = u]
  BY <1>1, <1>8, GotoIs DEF SaveContext
<1>10. /\ u \in Turns /\ u.place = "finish" /\ u.ask = t.ask /\ u.from = t.from /\ u.kept = t.kept
       /\ u.reply = t.reply
  BY <1>2, <1>8 DEF Turns, Places
<1>11. FedBy(t, turn, thread) /\ ~Settled(turn[r])
  BY <1>1, <1>2 DEF ContextsTrue, Settled
<1>12. EndOf(WithoutImages(k), WithoutImages(b))
  BY <1>2, <1>3, <1>5, <1>6, <1>11 DEF FedBy
<1>13. EndOf(WithoutImages(k \o a), WithoutImages(b \o a))
  <2>1. /\ WithoutImages(k) \in Seq(Messages) /\ WithoutImages(b) \in Seq(Messages)
        /\ WithoutImages(a) \in Seq(Messages)
    BY WithoutImagesIs
  <2>2. /\ WithoutImages(k \o a) = WithoutImages(k) \o WithoutImages(a)
        /\ WithoutImages(b \o a) = WithoutImages(b) \o WithoutImages(a)
    BY WithoutImagesConcat
  <2> QED BY <1>12, <2>1, <2>2, EndOfConcat
<1>14. AddedBy(u) = a
  BY <1>1, <1>4, <1>10 DEF AddedBy, Added
<1>15. EndOf(AddedBy(u), k \o a)
  BY <1>14 DEF EndOf
<1>16. Settled(u)
  BY <1>3, <1>10 DEF Settled
<1>17. TrueAt(u, k \o a, b \o a)
  BY <1>13, <1>15, <1>16 DEF TrueAt
<1>18. FedBy(u, turn, thread)
  <2>1. t.from # None => Settled(turn[t.from])
    BY <1>2, <1>3, <1>11 DEF FedBy
  <2> QED BY <1>10, <2>1 DEF FedBy
<1> QED BY <1>7, <1>9, <1>10, <1>11, <1>17, <1>18, ContextsStep

LEMMA UndoContextKeepsContexts ==
    ASSUME Inv, ContextsTrue, NEW r \in Requests, UndoContext(r)
    PROVE  ContextsTrue'
<1>1. PICK t : t = turn[r]
  OBVIOUS
<1>2. PICK u : u = [t EXCEPT !.place = "over"]
  OBVIOUS
<1>3. t \in Turns /\ turn' = [turn EXCEPT ![r] = u]
  BY <1>1, <1>2, GotoIs DEF UndoContext, Inv
<1>4. u \in Turns /\ u.place = "over" /\ u.ask = t.ask
  BY <1>2, <1>3 DEF Turns, Places
<1>5. Settled(t) => Settled(u)
  BY <1>4 DEF Settled
<1>6. contexts' = [contexts EXCEPT ![r] = None] /\ thread' = [thread EXCEPT ![r] = thread[r]]
  BY DEF UndoContext, Inv
<1>7. TrueAt(u, None, thread[r]) /\ FedBy(u, turn, thread)
  BY <1>4 DEF TrueAt, FedBy, Idle
<1> QED BY <1>1, <1>3, <1>4, <1>5, <1>6, <1>7, ContextsStep

LEMMA ModelAnswersKeepsContexts ==
    ASSUME Inv, ContextsTrue, NEW r \in Requests, NEW reply \in Replies, NEW incomplete \in BOOLEAN,
           ModelAnswers(r, reply, incomplete)
    PROVE  ContextsTrue'
<1>1. PICK t : t = turn[r]
  OBVIOUS
<1>2. PICK place : place = IF Chats(r) THEN "userSent" ELSE IF t.ask.store THEN "context" ELSE "over"
  OBVIOUS
<1>3. PICK u : u = [t EXCEPT !.reply = reply, !.incomplete = incomplete, !.place = place]
  OBVIOUS
<1>4. t \in Turns /\ t.place = "call" /\ UNCHANGED <<contexts, thread>>
  BY <1>1 DEF ModelAnswers, At, Inv
<1>5. turn' = [turn EXCEPT ![r] = u]
  <2>1. turn' = [turn EXCEPT ![r].reply = reply, ![r].incomplete = incomplete, ![r].place = place]
    BY <1>1, <1>2 DEF ModelAnswers
  <2> QED BY <1>1, <1>3, <2>1 DEF Inv
<1>6. u \in Turns
  <2>1. turn' \in [Requests -> Turns]
    BY ModelAnswersKeepsInv DEF Inv
  <2>2. turn'[r] = u
    BY <1>5 DEF Inv
  <2> QED BY <2>1, <2>2
<1>7. u.ask = t.ask /\ u.from = t.from /\ u.kept = t.kept /\ u.place = place
  BY <1>3, <1>4 DEF Turns
<1>8. t.place \notin Idle /\ u.place # "read" /\ ~Settled(t)
  BY <1>2, <1>4, <1>7 DEF Idle, Settled
<1> QED BY <1>1, <1>4, <1>5, <1>6, <1>7, <1>8, MovesOn

LEMMA GotosKeepContexts ==
    ASSUME Inv, ContextsTrue, NEW r \in Requests,
           \/ SaveUser(r) \/ ModelFails(r) \/ MarkUser(r) \/ SaveReply(r)
           \/ UndoUser(r) \/ UndoReply(r)
           \/ \E recorded \in BOOLEAN : Finish(r, recorded)
    PROVE  ContextsTrue'
<1>1. CASE SaveUser(r)
  <2>1. turn[r].place = "save" /\ Goto(r, "call") /\ UNCHANGED <<contexts, thread>>
    BY <1>1 DEF SaveUser, At
  <2>2. Chats(r)
    BY <2>1, SidedAt
  <2> QED BY <2>1, <2>2, ContextsGoto DEF Places, Idle
<1>2. CASE ModelFails(r) \/ UndoUser(r) \/ UndoReply(r) \/ SaveReply(r)
  <2>1. PICK place \in {"over", "undoReply", "finish"} : Goto(r, place)
    BY <1>2 DEF ModelFails, UndoUser, UndoReply, SaveReply
  <2>2. turn[r].place \in {"call", "undoUser", "undoReply", "reply"} /\ UNCHANGED <<contexts, thread>>
    BY <1>2 DEF ModelFails, UndoUser, UndoReply, SaveReply, At
  <2> QED BY <2>1, <2>2, ContextsGoto DEF Places, Idle
<1>3. CASE MarkUser(r)
  <2>1. PICK place \in {"reply", "finish"} : Goto(r, place)
    BY <1>3 DEF MarkUser
  <2>2. turn[r].place = "userSent" /\ UNCHANGED <<contexts, thread>>
    BY <1>3 DEF MarkUser, At
  <2> QED BY <2>1, <2>2, ContextsGoto DEF Places, Idle
<1>4. CASE \E recorded \in BOOLEAN : Finish(r, recorded)
  <2>1. PICK place \in {"over", "undoUser", "undoContext"} :
           Goto(r, place) /\ (place = "undoUser" => Chats(r))
    BY <1>4 DEF Finish
  <2>2. turn[r].place = "finish" /\ UNCHANGED <<contexts, thread>>
    BY <1>4 DEF Finish, At
  <2> QED BY <2>1, <2>2, ContextsGoto DEF Places, Idle
<1> QED BY <1>1, <1>2, <1>3, <1>4

LEMMA RestartKeepsContexts ==
    ASSUME Inv, ContextsTrue, Restart
    PROVE  ContextsTrue'
<1>1. UNCHANGED <<contexts, thread>>
  BY DEF Restart
<1>2. ASSUME NEW p \in Requests
      PROVE  \/ turn'[p] = turn[p]
             \/ turn'[p] = [turn[p] EXCEPT !.place = "over"] /\ turn[p].place \notin Idle
  BY DEF Restart, UnderWay, Idle
<1>3. ASSUME NEW p \in Requests
      PROVE  /\ Settled(turn[p]) => Settled(turn'[p])
             /\ TrueAt(turn'[p], contexts[p], thread[p])
             /\ FedBy(turn'[p], turn, thread)
             /\ turn'[p].from \in Requests \cup {None}
  <2>1. TrueAt(turn[p], contexts[p], thread[p]) /\ FedBy(turn[p], turn, thread) /\ turn[p] \in Turns
    BY DEF ContextsTrue, Inv
  <2>2. CASE turn'[p] = turn[p]
    BY <2>1, <2>2 DEF Turns
  <2>3. CASE turn'[p] = [turn[p] EXCEPT !.place = "over"]
    <3>1. PICK u : u = turn'[p]
      OBVIOUS
    <3>2. /\ u.place = "over" /\ u.ask = turn[p].ask /\ u.reply = turn[p].reply
          /\ u.from \in Requests \cup {None}
      BY <2>1, <2>3, <3>1 DEF Turns
    <3>3. Settled(turn[p]) => Settled(u)
      BY <3>2 DEF Settled
    <3>4. AddedBy(u) = AddedBy(turn[p])
      BY <3>2 DEF AddedBy
    <3>5. TrueAt(u, contexts[p], thread[p])
      BY <2>1, <3>3, <3>4 DEF TrueAt
    <3>6. FedBy(u, turn, thread)
      BY <3>2 DEF FedBy, Idle
    <3> QED BY <3>1, <3>2, <3>3, <3>5, <3>6
  <2> QED BY <1>2, <2>2, <2>3
<1>4. SettledStay(turn, thread, turn', thread')
  BY <1>1, <1>3 DEF SettledStay
<1>5. ASSUME NEW p \in Requests PROVE FedBy(turn'[p], turn', thread')
  BY <1>3, <1>4, FedStays
<1> QED BY <1>1, <1>3, <1>5 DEF ContextsTrue

LEMMA NextKeepsContexts ==
    ASSUME Inv, ContextsTrue, [Next]_vars
    PROVE  ContextsTrue'
<1>1. CASE UNCHANGED vars
  BY <1>1 DEF vars, ContextsTrue
<1>2. ASSUME NEW r \in Requests, NEW ask \in Asks, NEW from \in Requests \cup {None},
             Receive(r, ask, from)
      PROVE  ContextsTrue'
  BY <1>2, ReceiveKeepsContexts
<1>3. ASSUME NEW r \in Requests, Read(r) PROVE ContextsTrue'
  BY <1>3, ReadKeepsContexts
<1>4. ASSUME NEW r \in Requests, NEW reply \in Replies, NEW incomplete \in BOOLEAN,
             ModelAnswers(r, reply, incomplete)
      PROVE  ContextsTrue'
  BY <1>4, ModelAnswersKeepsContexts
<1>5. ASSUME NEW r \in Requests, SaveContext(r) \/ UndoContext(r) PROVE ContextsTrue'
  BY <1>5, SaveContextKeepsContexts, UndoContextKeepsContexts
<1>6. ASSUME NEW r \in Requests,
             \/ SaveUser(r) \/ ModelFails(r) \/ MarkUser(r) \/ SaveReply(r)
             \/ UndoUser(r) \/ UndoReply(r)
             \/ \E recorded \in BOOLEAN : Finish(r, recorded)
      PROVE  ContextsTrue'
  BY <1>6, GotosKeepContexts
<1>7. CASE Restart
  BY <1>7, RestartKeepsContexts
<1> QED BY <1>1, <1>2, <1>3, <1>4, <1>5, <1>6, <1>7 DEF Next

LEMMA InitContexts ==
    ASSUME Init
    PROVE  ContextsTrue
<1>1. ASSUME NEW r \in Requests PROVE turn[r].place = "new" /\ contexts[r] = None
  BY DEF Init, NewTurn
<1> QED BY <1>1 DEF ContextsTrue, TrueAt, FedBy, Idle

LEMMA ContextsAreTrue == Spec => []ContextsTrue
<1>1. Init => ContextsTrue
  BY InitContexts
<1>2. Inv /\ ContextsTrue /\ [Next]_vars => ContextsTrue'
  BY NextKeepsContexts
<1> QED BY <1>1, <1>2, ConversationsCorrect, PTL DEF Spec
-----------------------------------------------------------------------------
(***************************************************************************)
(* The chats.  A stored message of a user is that of its turn, whose ask   *)
(* never changes; what a turn keeps is what somebody finds in the chat.    *)
(***************************************************************************)
DocTrue(d, t) ==
    /\ \A i \in 1 .. Len(d.images) : d.images[i].sound /\ d.images[i].bytes > 0
    /\ d.role = "user" =>
          /\ t.place # "new" /\ t.ask \in Asks /\ t.ask.chat
          /\ t.ask.input[1].content # <<>>
          /\ d.text = UserText(t.ask.input) /\ d.images = UserImages(t.ask.input)

DocsTrue(s, ts) == \A i \in 1 .. Len(s) : DocTrue(s[i], ts[s[i].turn])

KeptTrue(t, lim, s) ==
    t.place \in {"save", "call"} /\ t.ask.chat /\ lim.enabled =>
        \A i \in 1 .. Len(t.kept) : \E j \in 1 .. Len(s) : t.kept[i] = Shown(s[j])

ChatsTrue ==
    \A c \in Requests :
        /\ chats[c] # None => DocsTrue(chats[c], turn) /\ turn[c].place \notin {"new", "read"}
        /\ KeptTrue(turn[c], Limits, chats[Chat(c, turn[c])])

Forward(ts, new) ==
    \A p \in Requests :
        /\ ts[p].place # "new" => new[p].place # "new" /\ new[p].ask = ts[p].ask
        /\ ts[p].place \notin {"new", "read"} => new[p].place \notin {"new", "read"}

Shows(s, new) == \A j \in 1 .. Len(s) : \E k \in 1 .. Len(new) : Shown(new[k]) = Shown(s[j])

LEMMA DocTrueStays ==
    ASSUME NEW d \in Documents, NEW ts, NEW new, DocTrue(d, ts[d.turn]), Forward(ts, new)
    PROVE  DocTrue(d, new[d.turn])
<1>1. d.turn \in Requests
  BY DEF Documents
<1>2. ts[d.turn].place # "new" => new[d.turn].place # "new" /\ new[d.turn].ask = ts[d.turn].ask
  BY <1>1 DEF Forward
<1> QED BY <1>2 DEF DocTrue

LEMMA DocsTrueStay ==
    ASSUME NEW s \in Seq(Documents), NEW ts, NEW new, DocsTrue(s, ts), Forward(ts, new)
    PROVE  DocsTrue(s, new)
<1>1. ASSUME NEW i \in 1 .. Len(s) PROVE DocTrue(s[i], new[s[i].turn])
  <2>1. s[i] \in Documents
    BY ElementOfSeq
  <2>2. DocTrue(s[i], ts[s[i].turn])
    BY DEF DocsTrue
  <2> QED BY <2>1, <2>2, DocTrueStays
<1> QED BY <1>1 DEF DocsTrue

LEMMA KeptStays ==
    ASSUME NEW t, NEW lim, NEW s, NEW new, KeptTrue(t, lim, s), Shows(s, new)
    PROVE  KeptTrue(t, lim, new)
<1> SUFFICES ASSUME t.place \in {"save", "call"} /\ t.ask.chat /\ lim.enabled, NEW i \in 1 .. Len(t.kept)
             PROVE  \E j \in 1 .. Len(new) : t.kept[i] = Shown(new[j])
  BY DEF KeptTrue
<1>1. PICK j \in 1 .. Len(s) : t.kept[i] = Shown(s[j])
  BY DEF KeptTrue
<1>2. PICK k \in 1 .. Len(new) : Shown(new[k]) = Shown(s[j])
  BY DEF Shows
<1> QED BY <1>1, <1>2

LEMMA AppendTrue ==
    ASSUME NEW s \in Seq(Documents), NEW d \in Documents, NEW ts, DocsTrue(s, ts), DocTrue(d, ts[d.turn])
    PROVE  DocsTrue(Append(s, d), ts) /\ Shows(s, Append(s, d))
<1>1. PICK a \in Seq(Documents) : a = Append(s, d)
  BY AppendProperties
<1>2. /\ Len(s) \in Nat /\ Len(a) = Len(s) + 1 /\ a[Len(s) + 1] = d
      /\ \A i \in 1 .. Len(s) : a[i] = s[i]
  BY <1>1, AppendProperties, LenProperties
<1>3. ASSUME NEW i \in 1 .. Len(a) PROVE DocTrue(a[i], ts[a[i].turn])
  <2>1. CASE i \in 1 .. Len(s)
    BY <1>2, <2>1 DEF DocsTrue
  <2>2. CASE i \notin 1 .. Len(s)
    <3>1. i = Len(s) + 1
      BY <1>2, <2>2
    <3> QED BY <1>2, <3>1
  <2> QED BY <2>1, <2>2
<1>4. ASSUME NEW j \in 1 .. Len(s) PROVE j \in 1 .. Len(a) /\ Shown(a[j]) = Shown(s[j])
  BY <1>2
<1>5. DocsTrue(a, ts) /\ Shows(s, a)
  BY <1>3, <1>4 DEF DocsTrue, Shows
<1> QED BY <1>1, <1>5

LEMMA ShownWhatever ==
    ASSUME NEW d \in Documents, NEW status
    PROVE  Shown([d EXCEPT !.status = status]) = Shown(d)
<1>1. PICK e : e = [d EXCEPT !.status = status]
  OBVIOUS
<1>2. e.role = d.role /\ e.text = d.text /\ e.images = d.images
  BY <1>1 DEF Documents
<1> QED BY <1>1, <1>2 DEF Shown

LEMMA MarkedTrue ==
    ASSUME NEW s \in Seq(Documents), NEW ts, DocsTrue(s, ts), NEW r, NEW role,
           NEW status \in {"pending", "sent", "failed"}
    PROVE  DocsTrue(MarkedIn(s, r, role, status), ts) /\ Shows(s, MarkedIn(s, r, role, status))
<1>1. PICK m \in Seq(Documents) : m = MarkedIn(s, r, role, status)
  BY MarkedInType
<1>2. Len(m) = Len(s) /\ \A i \in 1 .. Len(s) : m[i] = s[i] \/ m[i] = [s[i] EXCEPT !.status = status]
  BY <1>1, MarkedInType
<1>3. ASSUME NEW i \in 1 .. Len(s)
      PROVE  DocTrue(m[i], ts[m[i].turn]) /\ Shown(m[i]) = Shown(s[i])
  <2>1. DocTrue(s[i], ts[s[i].turn])
    BY DEF DocsTrue
  <2>2. s[i] \in Documents
    BY ElementOfSeq
  <2>3. CASE m[i] = s[i]
    BY <2>1, <2>3
  <2>4. CASE m[i] = [s[i] EXCEPT !.status = status]
    <3>1. m[i].role = s[i].role /\ m[i].text = s[i].text /\ m[i].images = s[i].images /\ m[i].turn = s[i].turn
      BY <2>2, <2>4 DEF Documents
    <3>2. DocTrue(m[i], ts[m[i].turn])
      BY <2>1, <3>1 DEF DocTrue
    <3>3. Shown(m[i]) = Shown(s[i])
      BY <2>2, <2>4, ShownWhatever
    <3> QED BY <3>2, <3>3
  <2> QED BY <1>2, <2>3, <2>4
<1>4. DocsTrue(m, ts)
  BY <1>2, <1>3 DEF DocsTrue
<1>5. Shows(s, m)
  BY <1>2, <1>3 DEF Shows
<1> QED BY <1>1, <1>4, <1>5

-----------------------------------------------------------------------------
\* What a step may do to the chats.
ChatsFollow ==
    /\ \A c \in Requests : chats'[c] # None =>
          DocsTrue(chats'[c], turn') /\ turn'[c].place \notin {"new", "read"}
    /\ \A c \in Requests : chats[c] # None => Shows(chats[c], chats'[c])

LEMMA ChatsRest ==
    ASSUME Inv, ChatsTrue, Forward(turn, turn'), UNCHANGED chats
    PROVE  ChatsFollow
<1>1. ASSUME NEW c \in Requests, chats[c] # None
      PROVE  /\ DocsTrue(chats[c], turn') /\ turn'[c].place \notin {"new", "read"}
             /\ Shows(chats[c], chats[c])
  <2>1. chats[c] \in Seq(Documents)
    BY <1>1 DEF Inv, Chatted
  <2>2. DocsTrue(chats[c], turn) /\ turn[c].place \notin {"new", "read"}
    BY <1>1 DEF ChatsTrue
  <2>3. DocsTrue(chats[c], turn')
    BY <2>1, <2>2, DocsTrueStay
  <2> QED BY <2>2, <2>3 DEF Forward, Shows
<1> QED BY <1>1 DEF ChatsFollow

LEMMA OneChatFollows ==
    ASSUME Inv, ChatsTrue, Forward(turn, turn'), NEW c \in Requests, NEW s,
           chats' = [chats EXCEPT ![c] = s], DocsTrue(s, turn'),
           turn'[c].place \notin {"new", "read"}, chats[c] # None => Shows(chats[c], s)
    PROVE  ChatsFollow
<1>1. \A q \in Requests : chats'[q] = IF q = c THEN s ELSE chats[q]
  BY DEF Inv, Chatted
<1>2. ASSUME NEW q \in Requests, q # c, chats[q] # None
      PROVE  /\ DocsTrue(chats[q], turn') /\ turn'[q].place \notin {"new", "read"}
             /\ Shows(chats[q], chats[q])
  <2>1. chats[q] \in Seq(Documents)
    BY <1>2 DEF Inv, Chatted
  <2>2. DocsTrue(chats[q], turn) /\ turn[q].place \notin {"new", "read"}
    BY <1>2 DEF ChatsTrue
  <2>3. DocsTrue(chats[q], turn')
    BY <2>1, <2>2, DocsTrueStay
  <2> QED BY <2>2, <2>3 DEF Forward, Shows
<1> QED BY <1>1, <1>2 DEF ChatsFollow

LEMMA ChatsSaved ==
    ASSUME Inv, ChatsTrue, Forward(turn, turn'), NEW c \in Requests, chats[c] # None,
           NEW d \in Documents, DocTrue(d, turn'[d.turn]), chats' = [chats EXCEPT ![c] = Append(chats[c], d)]
    PROVE  ChatsFollow
<1>1. PICK s \in Seq(Documents) : s = chats[c]
  BY DEF Inv, Chatted
<1>2. DocsTrue(s, turn) /\ turn[c].place \notin {"new", "read"}
  BY <1>1 DEF ChatsTrue
<1>3. DocsTrue(s, turn')
  BY <1>2, DocsTrueStay
<1>4. PICK new : new = Append(s, d)
  OBVIOUS
<1>5. DocsTrue(new, turn') /\ Shows(s, new)
  BY <1>3, <1>4, AppendTrue
<1>6. turn'[c].place \notin {"new", "read"}
  BY <1>2 DEF Forward
<1> QED BY <1>1, <1>4, <1>5, <1>6, OneChatFollows

LEMMA ChatsMarked ==
    ASSUME Inv, ChatsTrue, Forward(turn, turn'), NEW r \in Requests,
           NEW c \in Requests, c = Conversation(r), chats[c] # None,
           NEW role, NEW status \in {"pending", "sent", "failed"}, chats' = Marked(r, role, status)
    PROVE  ChatsFollow
<1>1. PICK s \in Seq(Documents) : s = chats[c]
  BY DEF Inv, Chatted
<1>2. DocsTrue(s, turn) /\ turn[c].place \notin {"new", "read"}
  BY <1>1 DEF ChatsTrue
<1>3. DocsTrue(s, turn')
  BY <1>2, DocsTrueStay
<1>4. PICK new : new = MarkedIn(s, r, role, status)
  OBVIOUS
<1>5. DocsTrue(new, turn') /\ Shows(s, new)
  BY <1>3, <1>4, MarkedTrue
<1>6. chats' = [chats EXCEPT ![c] = new]
  <2>1. Chatted(chats)
    BY DEF Inv
  <2>2. Marked(r, role, status) = [chats EXCEPT ![c] = MarkedIn(chats[c], r, role, status)]
    BY <2>1, MarkedIs
  <2> QED BY <1>1, <1>4, <2>2
<1>7. turn'[c].place \notin {"new", "read"}
  BY <1>2 DEF Forward
<1> QED BY <1>1, <1>5, <1>6, <1>7, OneChatFollows

LEMMA ChatsStep ==
    ASSUME Inv, ChatsTrue, NEW r \in Requests, NEW u \in Turns, turn' = [turn EXCEPT ![r] = u],
           UNCHANGED config, ChatsFollow, KeptTrue(u, Limits, chats'[Chat(r, u)])
    PROVE  ChatsTrue'
<1>1. \A p \in Requests : turn'[p] = IF p = r THEN u ELSE turn[p]
  BY DEF Inv
<1>2. Limits' = Limits
  BY DEF Limits
<1>3. ASSUME NEW p \in Requests PROVE KeptTrue(turn'[p], Limits, chats'[Chat(p, turn'[p])])
  <2>1. CASE p = r
    BY <1>1, <2>1
  <2>2. CASE p # r
    <3>1. PICK t \in Turns : t = turn[p] /\ t = turn'[p]
      BY <1>1, <2>2 DEF Inv
    <3>2. PICK c \in Requests : c = Chat(p, t)
      BY ChatType
    <3>3. KeptTrue(t, Limits, chats[c])
      BY <3>1, <3>2 DEF ChatsTrue
    <3>4. CASE t.place \in {"save", "call"} /\ t.ask.chat
      <4>1. Good(p, t, Limits, chats)
        BY <3>1 DEF Inv
      <4>2. chats[c] # None
        BY <3>2, <3>4, <4>1 DEF Good, Open, Idle
      <4>3. Shows(chats[c], chats'[c])
        BY <4>2 DEF ChatsFollow
      <4>4. KeptTrue(t, Limits, chats'[c])
        BY <3>3, <4>3, KeptStays
      <4> QED BY <3>1, <3>2, <4>4
    <3>5. CASE ~ (t.place \in {"save", "call"} /\ t.ask.chat)
      BY <3>1, <3>5 DEF KeptTrue
    <3> QED BY <3>4, <3>5
  <2> QED BY <2>1, <2>2
<1> QED BY <1>2, <1>3 DEF ChatsTrue, ChatsFollow
-----------------------------------------------------------------------------
LEMMA ForwardStep ==
    ASSUME Inv, NEW r \in Requests, NEW t, t = turn[r], NEW u, turn' = [turn EXCEPT ![r] = u],
           t.place # "new" => u.place # "new" /\ u.ask = t.ask,
           t.place \notin {"new", "read"} => u.place \notin {"new", "read"}
    PROVE  Forward(turn, turn')
<1>1. \A p \in Requests : turn'[p] = IF p = r THEN u ELSE turn[p]
  BY DEF Inv
<1> QED BY <1>1 DEF Forward

\* A turn that moves on, and the chats are as they were.
LEMMA TurnKeepsChats ==
    ASSUME Inv, ChatsTrue, NEW r \in Requests, NEW t, t = turn[r], NEW u \in Turns,
           turn' = [turn EXCEPT ![r] = u], UNCHANGED <<config, chats>>, u.place \notin {"save", "call"},
           t.place # "new" => u.place # "new" /\ u.ask = t.ask,
           t.place \notin {"new", "read"} => u.place \notin {"new", "read"}
    PROVE  ChatsTrue'
<1>1. Forward(turn, turn')
  BY ForwardStep
<1>2. ChatsFollow
  BY <1>1, ChatsRest
<1>3. KeptTrue(u, Limits, chats'[Chat(r, u)])
  BY DEF KeptTrue
<1> QED BY <1>2, <1>3, ChatsStep

LEMMA GotoTurn ==
    ASSUME Inv, NEW r \in Requests, NEW t, t = turn[r], NEW place \in Places \ {"new", "read"},
           Goto(r, place)
    PROVE  \E u \in Turns :
              /\ turn' = [turn EXCEPT ![r] = u]
              /\ u.place = place /\ u.ask = t.ask /\ u.from = t.from /\ u.kept = t.kept
              /\ Forward(turn, turn')
<1>1. PICK u : u = [t EXCEPT !.place = place]
  OBVIOUS
<1>2. t \in Turns
  BY DEF Inv
<1>3. u \in Turns /\ u.place = place /\ u.ask = t.ask /\ u.from = t.from /\ u.kept = t.kept
  BY <1>1, <1>2 DEF Turns
<1>4. turn' = [turn EXCEPT ![r] = u]
  BY <1>1, GotoIs
<1>5. Forward(turn, turn')
  BY <1>3, <1>4, ForwardStep
<1> QED BY <1>3, <1>4, <1>5

LEMMA GotoKeepsChats ==
    ASSUME Inv, ChatsTrue, NEW r \in Requests, NEW place \in Places \ {"new", "read", "save", "call"},
           Goto(r, place), UNCHANGED config, Forward(turn, turn') => ChatsFollow
    PROVE  ChatsTrue'
<1>1. PICK t : t = turn[r]
  OBVIOUS
<1>2. PICK u \in Turns : /\ turn' = [turn EXCEPT ![r] = u]
                         /\ u.place = place /\ u.ask = t.ask /\ u.from = t.from /\ u.kept = t.kept
                         /\ Forward(turn, turn')
  BY <1>1, GotoTurn
<1>3. KeptTrue(u, Limits, chats'[Chat(r, u)])
  BY <1>2 DEF KeptTrue
<1> QED BY <1>2, <1>3, ChatsStep

LEMMA MarkKeepsChats ==
    ASSUME Inv, ChatsTrue, NEW r \in Requests, turn[r].place \notin Idle \cup {"read"}, Chats(r),
           NEW place \in Places \ {"new", "read", "save", "call"},
           Goto(r, place), UNCHANGED config,
           NEW role, NEW status \in {"pending", "sent", "failed"}, chats' = Marked(r, role, status)
    PROVE  ChatsTrue'
<1>1. PICK c \in Requests : c = Conversation(r)
  BY TurnFacts
<1>2. chats[c] # None
  BY <1>1, TurnFacts
<1>3. Forward(turn, turn') => ChatsFollow
  BY <1>1, <1>2, ChatsMarked
<1> QED BY <1>3, GotoKeepsChats

LEMMA RestKeepsChats ==
    ASSUME Inv, ChatsTrue, NEW r \in Requests, NEW place \in Places \ {"new", "read", "save", "call"},
           Goto(r, place), UNCHANGED <<config, chats>>
    PROVE  ChatsTrue'
<1>1. Forward(turn, turn') => ChatsFollow
  BY ChatsRest
<1> QED BY <1>1, GotoKeepsChats

LEMMA GotosKeepChats ==
    ASSUME Inv, ChatsTrue, NEW r \in Requests,
           \/ ModelFails(r) \/ MarkUser(r) \/ UndoUser(r) \/ UndoReply(r)
           \/ SaveContext(r) \/ UndoContext(r)
           \/ \E recorded \in BOOLEAN : Finish(r, recorded)
    PROVE  ChatsTrue'
<1>1. CASE ModelFails(r)
  <2>1. turn[r].place \notin Idle \cup {"read"} /\ Goto(r, "over") /\ UNCHANGED config
    BY <1>1 DEF ModelFails, At, Idle
  <2>2. "over" \in Places \ {"new", "read", "save", "call"}
    BY DEF Places
  <2>3. CASE Chats(r)
    <3>1. chats' = Marked(r, "user", "failed")
      BY <1>1, <2>3 DEF ModelFails
    <3> QED BY <2>1, <2>2, <2>3, <3>1, MarkKeepsChats
  <2>4. CASE ~Chats(r)
    <3>1. chats' = chats
      BY <1>1, <2>4 DEF ModelFails
    <3> QED BY <2>1, <2>2, <3>1, RestKeepsChats
  <2> QED BY <2>3, <2>4
<1>2. CASE MarkUser(r)
  <2>1. turn[r].place \notin Idle \cup {"read"} /\ turn[r].place = "userSent" /\ UNCHANGED config
    BY <1>2 DEF MarkUser, At, Idle
  <2>2. Chats(r)
    BY <2>1, SidedAt
  <2>3. PICK place \in {"reply", "finish"} : Goto(r, place)
    BY <1>2 DEF MarkUser
  <2>4. place \in Places \ {"new", "read", "save", "call"}
    BY <2>3 DEF Places
  <2>5. chats' = Marked(r, "user", Verdict(r)) /\ Verdict(r) \in {"pending", "sent", "failed"}
    BY <1>2 DEF MarkUser, Verdict
  <2> QED BY <2>1, <2>2, <2>3, <2>4, <2>5, MarkKeepsChats
<1>3. CASE UndoUser(r) \/ UndoReply(r)
  <2>1. turn[r].place \notin Idle \cup {"read"} /\ turn[r].place \in {"undoUser", "undoReply"} /\ UNCHANGED config
    BY <1>3 DEF UndoUser, UndoReply, At, Idle
  <2>2. Chats(r)
    BY <2>1, SidedAt
  <2>3. PICK place \in {"undoReply", "over"} : Goto(r, place)
    BY <1>3 DEF UndoUser, UndoReply
  <2>4. place \in Places \ {"new", "read", "save", "call"}
    BY <2>3 DEF Places
  <2>5. PICK role : chats' = Marked(r, role, "failed")
    BY <1>3 DEF UndoUser, UndoReply
  <2> QED BY <2>1, <2>2, <2>3, <2>4, <2>5, MarkKeepsChats
<1>4. CASE SaveContext(r) \/ UndoContext(r) \/ \E recorded \in BOOLEAN : Finish(r, recorded)
  <2>1. UNCHANGED <<config, chats>>
    BY <1>4 DEF SaveContext, UndoContext, Finish
  <2>2. PICK place \in {"finish", "over", "undoUser", "undoContext"} : Goto(r, place)
    BY <1>4 DEF SaveContext, UndoContext, Finish
  <2>3. place \in Places \ {"new", "read", "save", "call"}
    BY <2>2 DEF Places
  <2> QED BY <2>1, <2>2, <2>3, RestKeepsChats
<1> QED BY <1>1, <1>2, <1>3, <1>4

LEMMA ReceiveKeepsChats ==
    ASSUME Inv, ChatsTrue, NEW r \in Requests, NEW ask \in Asks,
           NEW from \in Requests \cup {None}, Receive(r, ask, from)
    PROVE  ChatsTrue'
<1>1. PICK past, place :
         /\ place \in {"read", "over"}
         /\ turn' = [turn EXCEPT ![r].ask = ask, ![r].from = from, ![r].past = past, ![r].place = place]
  BY DEF Receive
<1>2. PICK t : t = turn[r]
  OBVIOUS
<1>3. PICK u : u = [t EXCEPT !.ask = ask, !.from = from, !.past = past, !.place = place]
  OBVIOUS
<1>4. turn' = [turn EXCEPT ![r] = u]
  BY <1>1, <1>2, <1>3 DEF Inv
<1>5. u \in Turns
  <2>1. turn' \in [Requests -> Turns]
    BY ReceiveKeepsInv DEF Inv
  <2>2. turn'[r] = u
    BY <1>4 DEF Inv
  <2> QED BY <2>1, <2>2
<1>6. u.place = place /\ t.place = "new" /\ UNCHANGED <<config, chats>>
  <2>1. t \in Turns
    BY <1>2 DEF Inv
  <2> QED BY <1>2, <1>3, <2>1 DEF Turns, Receive, At
<1>7. u.place \notin {"save", "call"}
  BY <1>1, <1>6
<1> QED BY <1>2, <1>4, <1>5, <1>6, <1>7, TurnKeepsChats

LEMMA ModelAnswersKeepsChats ==
    ASSUME Inv, ChatsTrue, NEW r \in Requests, NEW reply \in Replies, NEW incomplete \in BOOLEAN,
           ModelAnswers(r, reply, incomplete)
    PROVE  ChatsTrue'
<1>1. PICK t : t = turn[r]
  OBVIOUS
<1>2. PICK place : place = IF Chats(r) THEN "userSent" ELSE IF t.ask.store THEN "context" ELSE "over"
  OBVIOUS
<1>3. PICK u : u = [t EXCEPT !.reply = reply, !.incomplete = incomplete, !.place = place]
  OBVIOUS
<1>4. t \in Turns /\ t.place = "call" /\ UNCHANGED <<config, chats>>
  BY <1>1 DEF ModelAnswers, At, Inv
<1>5. turn' = [turn EXCEPT ![r] = u]
  <2>1. turn' = [turn EXCEPT ![r].reply = reply, ![r].incomplete = incomplete, ![r].place = place]
    BY <1>1, <1>2 DEF ModelAnswers
  <2> QED BY <1>1, <1>3, <2>1 DEF Inv
<1>6. u \in Turns
  <2>1. turn' \in [Requests -> Turns]
    BY ModelAnswersKeepsInv DEF Inv
  <2>2. turn'[r] = u
    BY <1>5 DEF Inv
  <2> QED BY <2>1, <2>2
<1>7. u.ask = t.ask /\ u.place = place
  BY <1>3, <1>4 DEF Turns
<1>8. u.place \notin {"save", "call", "new", "read"}
  BY <1>2, <1>7
<1> QED BY <1>1, <1>4, <1>5, <1>6, <1>7, <1>8, TurnKeepsChats
\* The images that the browser sends are sound, or there are none.
LEMMA WebImagesSound ==
    ASSUME NEW ask \in Asks, ask.chat, NEW lim, ValidInput(ask, lim)
    PROVE  /\ WebInput(ask.input) /\ ask.input[1].content # <<>>
           /\ UserText(ask.input) \in Nat /\ UserImages(ask.input) \in Seq(ImageBlocks)
           /\ \A i \in 1 .. Len(UserImages(ask.input)) :
                 UserImages(ask.input)[i].sound /\ UserImages(ask.input)[i].bytes > 0
<1>1. ask.input \in Seq(Messages) /\ WebInput(ask.input) /\ ask.input[1].content # <<>>
  BY AdmittedWeb
<1>2. UserText(ask.input) \in Nat /\ UserImages(ask.input) \in Seq(ImageBlocks)
      /\ UserImages(ask.input) = ImagesOf(ask.input)
  BY <1>1, WebMessage
<1>3. PICK images \in Seq(ImageBlocks) : images = UserImages(ask.input) /\ images = ImagesOf(ask.input)
  BY <1>2
<1>4. Len(images) \in Nat /\ DOMAIN images = 1 .. Len(images)
  BY LenProperties
<1>5. ASSUME NEW i \in 1 .. Len(images) PROVE images[i].sound /\ images[i].bytes > 0
  <2>1. CASE lim.enabled
    <3>1. ValidImages(ask.input, lim)
      BY <2>1 DEF ValidInput
    <3>2. images[i] \in ToSet(images)
      BY <1>4 DEF ToSet
    <3>3. AcceptableImage(images[i], lim)
      BY <1>3, <3>1, <3>2 DEF ValidImages
    <3>4. images[i] \in ImageBlocks
      BY ElementOfSeq
    <3> QED BY <3>3, <3>4 DEF AcceptableImage, ImageBlocks
  <2>2. CASE ~lim.enabled
    <3>1. images = <<>>
      BY <1>3, <2>2 DEF ValidInput
    <3> QED BY <3>1, EmptySeq
  <2> QED BY <2>1, <2>2
<1> QED BY <1>1, <1>2, <1>3, <1>5

LEMMA SaveUserKeepsChats ==
    ASSUME Inv, ChatsTrue, NEW r \in Requests, SaveUser(r)
    PROVE  ChatsTrue'
<1>1. PICK t : t = turn[r]
  OBVIOUS
<1>2. t.place = "save" /\ t.place \notin Idle \cup {"read"} /\ t \in Turns /\ UNCHANGED config
  BY <1>1 DEF SaveUser, At, Idle, Inv
<1>3. Good(r, t, Limits, chats) /\ t.ask \in Asks /\ Chats(r) /\ t.ask.chat
  <2>1. Good(r, t, Limits, chats) /\ t.ask \in Asks
    BY <1>1, <1>2, TurnFacts
  <2>2. Chats(r)
    BY <1>1, <1>2, SidedAt
  <2> QED BY <1>1, <2>1, <2>2 DEF Chats
<1>4. PICK c \in Requests : c = Conversation(r) /\ c = Chat(r, t) /\ chats[c] # None
  BY <1>1, <1>2, <1>3, TurnFacts
<1>5. ValidInput(t.ask, Limits)
  BY <1>2, <1>3 DEF Good, Admitted
<1>6. PICK d : d = [turn |-> r, role |-> "user", status |-> "pending",
                    text |-> UserText(t.ask.input), images |-> UserImages(t.ask.input)]
  OBVIOUS
<1>7. /\ UserText(t.ask.input) \in Nat /\ UserImages(t.ask.input) \in Seq(ImageBlocks)
      /\ t.ask.input[1].content # <<>>
      /\ \A i \in 1 .. Len(UserImages(t.ask.input)) :
            UserImages(t.ask.input)[i].sound /\ UserImages(t.ask.input)[i].bytes > 0
  BY <1>3, <1>5, WebImagesSound
<1>8. d \in Documents
  BY <1>6, <1>7 DEF Documents
<1>9. PICK u \in Turns : /\ turn' = [turn EXCEPT ![r] = u]
                         /\ u.place = "call" /\ u.ask = t.ask /\ u.from = t.from /\ u.kept = t.kept
                         /\ Forward(turn, turn')
  <2>1. Goto(r, "call") /\ "call" \in Places \ {"new", "read"}
    BY DEF SaveUser, Places
  <2>2. \E u \in Turns : /\ turn' = [turn EXCEPT ![r] = u]
                         /\ u.place = "call" /\ u.ask = t.ask /\ u.from = t.from /\ u.kept = t.kept
                         /\ Forward(turn, turn')
    BY <1>1, <2>1, GotoTurn
  <2> QED BY <2>2
<1>10. turn'[d.turn] = u
  BY <1>6, <1>9 DEF Inv
<1>11. DocTrue(d, u)
  BY <1>3, <1>6, <1>7, <1>9 DEF DocTrue
<1>12. chats' = [chats EXCEPT ![c] = Append(chats[c], d)]
  BY <1>1, <1>4, <1>6 DEF SaveUser, Saved
<1>13. ChatsFollow
  BY <1>4, <1>8, <1>9, <1>10, <1>11, <1>12, ChatsSaved
<1>14. KeptTrue(u, Limits, chats'[Chat(r, u)])
  <2>1. Chat(r, u) = c
    BY <1>4, <1>9 DEF Chat
  <2>2. KeptTrue(t, Limits, chats[c])
    BY <1>1, <1>4 DEF ChatsTrue
  <2>3. Shows(chats[c], chats'[c])
    BY <1>4, <1>13 DEF ChatsFollow
  <2>4. KeptTrue(t, Limits, chats'[c])
    BY <2>2, <2>3, KeptStays
  <2> QED BY <1>2, <1>9, <2>1, <2>4 DEF KeptTrue
<1> QED BY <1>2, <1>9, <1>13, <1>14, ChatsStep

LEMMA SaveReplyKeepsChats ==
    ASSUME Inv, ChatsTrue, NEW r \in Requests, SaveReply(r)
    PROVE  ChatsTrue'
<1>1. turn[r].place = "reply" /\ turn[r].place \notin Idle \cup {"read"} /\ UNCHANGED config
  BY DEF SaveReply, At, Idle
<1>2. Chats(r)
  BY <1>1, SidedAt
<1>3. PICK c \in Requests : c = Conversation(r) /\ chats[c] # None
  BY <1>1, <1>2, TurnFacts
<1>4. PICK d : d = [turn |-> r, role |-> "assistant", status |-> Verdict(r),
                    text |-> turn[r].reply, images |-> <<>>]
  OBVIOUS
<1>5. d \in Documents
  <2>1. turn[r].reply \in Nat /\ Verdict(r) \in {"pending", "sent", "failed"}
    BY DEF Inv, Turns, Verdict
  <2>2. <<>> \in Seq(ImageBlocks)
    BY EmptySeq
  <2> QED BY <1>4, <2>1, <2>2 DEF Documents
<1>6. DocTrue(d, turn'[d.turn])
  <2>1. d.images = <<>> /\ d.role # "user"
    BY <1>4
  <2> QED BY <2>1, EmptySeq DEF DocTrue
<1>7. chats' = [chats EXCEPT ![c] = Append(chats[c], d)]
  BY <1>3, <1>4 DEF SaveReply, Saved
<1>8. Forward(turn, turn') => ChatsFollow
  BY <1>3, <1>5, <1>6, <1>7, ChatsSaved
<1>9. Goto(r, "finish") /\ "finish" \in Places \ {"new", "read", "save", "call"}
  BY DEF SaveReply, Places
<1> QED BY <1>1, <1>8, <1>9, GotoKeepsChats

LEMMA RestartKeepsChats ==
    ASSUME Inv, ChatsTrue, Restart
    PROVE  ChatsTrue'
<1>1. UNCHANGED chats
  BY DEF Restart
<1>2. ASSUME NEW p \in Requests
      PROVE  /\ turn'[p].place \notin {"save", "call"}
             /\ turn[p].place # "new" => turn'[p].place # "new" /\ turn'[p].ask = turn[p].ask
             /\ turn[p].place \notin {"new", "read"} => turn'[p].place \notin {"new", "read"}
  <2>1. turn[p] \in Turns
    BY DEF Inv
  <2>2. CASE turn[p].place \in Idle
    <3>1. turn'[p] = turn[p]
      BY <2>2 DEF Restart, UnderWay, Idle
    <3> QED BY <2>2, <3>1 DEF Idle
  <2>3. CASE turn[p].place \notin Idle
    <3>1. turn'[p] = [turn[p] EXCEPT !.place = "over"]
      BY <2>3 DEF Restart, UnderWay, Idle
    <3> QED BY <2>1, <3>1 DEF Turns
  <2> QED BY <2>2, <2>3
<1>3. Forward(turn, turn')
  BY <1>2 DEF Forward
<1>4. ChatsFollow
  BY <1>1, <1>3, ChatsRest
<1>5. \A p \in Requests : KeptTrue(turn'[p], Limits', chats'[Chat(p, turn'[p])])
  BY <1>2 DEF KeptTrue
<1> QED BY <1>4, <1>5 DEF ChatsTrue, ChatsFollow

LEMMA ToldIsShown ==
    ASSUME NEW d \in Documents, \A i \in 1 .. Len(d.images) : d.images[i].sound /\ d.images[i].bytes > 0
    PROVE  Told[d] = Shown(d)
<1>1. PICK images \in Seq(ImageBlocks) : images = d.images
  BY DEF Documents
<1>2. DOMAIN images = 1 .. Len(images)
  BY LenProperties
<1>3. PICK P : P = {i \in DOMAIN images : images[i].sound /\ images[i].bytes > 0}
  OBVIOUS
<1>4. \A i \in 1 .. Len(images) : i \in P
  BY <1>1, <1>2, <1>3
<1>5. Chosen(images, P) = images
  BY <1>4, ChosenAll
<1>6. Selected(d.images, LAMBDA image : image.sound /\ image.bytes > 0) = images
  BY <1>1, <1>3, <1>5 DEF Selected
<1> QED BY <1>1, <1>6 DEF Told, Shown, SaidBy

\* What Granite is told of a chat is what is shown of it, message by message.
LEMMA ToldFrom ==
    ASSUME NEW s \in Seq(Documents), NEW n \in Nat, NEW ts, DocsTrue(s, ts)
    PROVE  /\ GraniteInput(RecentMessages(s, n)) \in Seq(Messages)
           /\ \A i \in 1 .. Len(GraniteInput(RecentMessages(s, n))) :
                 \E j \in 1 .. Len(s) : GraniteInput(RecentMessages(s, n))[i] = Shown(s[j])
<1>1. PICK m \in Seq(Documents) :
         m = RecentMessages(s, n) /\ \A i \in 1 .. Len(m) : \E j \in 1 .. Len(s) : m[i] = s[j]
  BY RecentMessagesType
<1>2. PICK Here : Here = {s[j] : j \in 1 .. Len(s)}
  OBVIOUS
<1>3. PICK f \in Seq(Here \cap Documents) : f = Filtered(m, Usable)
  <2>1. \A i \in 1 .. Len(m) : m[i] \in Here \cap Documents
    BY <1>1, <1>2, ElementOfSeq
  <2>2. \A i \in 1 .. Len(m) : i \in {j \in DOMAIN m : m[j] \in Usable} => m[i] \in Here \cap Documents
    BY <2>1
  <2> QED BY <2>2, ChosenType DEF Filtered
<1>4. Len(f) \in Nat /\ DOMAIN f = 1 .. Len(f) /\ \A i \in 1 .. Len(f) : f[i] \in Here /\ f[i] \in Documents
  BY <1>3, LenProperties, ElementOfSeq
<1>5. GraniteInput(m) = Mapped(Told, f) /\ GraniteInput(m) \in Seq(Messages)
  BY <1>3, GraniteInputIs
<1>6. PICK g \in Seq(Messages) : g = GraniteInput(m)
  BY <1>5
<1>7. DOMAIN g = 1 .. Len(g) /\ DOMAIN g = 1 .. Len(f) /\ \A i \in 1 .. Len(f) : g[i] = Told[f[i]]
  <2>1. DOMAIN g = 1 .. Len(g)
    BY LenProperties
  <2> QED BY <1>4, <1>5, <1>6, <2>1 DEF Mapped
<1>8. ASSUME NEW i \in 1 .. Len(g) PROVE \E j \in 1 .. Len(s) : g[i] = Shown(s[j])
  <2>1. i \in 1 .. Len(f)
    BY <1>7
  <2>2. PICK j \in 1 .. Len(s) : f[i] = s[j]
    BY <1>2, <1>4, <2>1
  <2>3. s[j] \in Documents /\ DocTrue(s[j], ts[s[j].turn])
    BY ElementOfSeq DEF DocsTrue
  <2>4. Told[s[j]] = Shown(s[j])
    BY <2>3, ToldIsShown DEF DocTrue
  <2> QED BY <1>7, <2>1, <2>2, <2>4
<1> QED BY <1>1, <1>6, <1>8
LEMMA KeptFrom ==
    ASSUME NEW past \in Seq(Messages), NEW c \in Seq(Messages), NEW n \in Nat,
           NEW lim \in LimitSets, lim.enabled, NEW kept, kept = BoundedHistory(past, c, n, lim)
    PROVE  \A i \in 1 .. Len(kept) : \E j \in 1 .. Len(past) : kept[i] = past[j]
<1>1. PICK left : left = LeftBy(c, n, lim)
  OBVIOUS
<1>2. Longest(past, left, kept)
  <2>1. History(past, lim) = past
    BY DEF History
  <2> QED BY <1>1, <2>1, BoundedHistoryIs
<1>3. PICK k \in 0 .. Len(past) : kept = End(past, k)
  BY <1>2 DEF Longest
<1>4. PICK a \in Nat : a = Len(past)
  BY LenProperties
<1>5. Len(kept) = k
  BY <1>3, EndType
<1>6. ASSUME NEW i \in 1 .. Len(kept) PROVE \E j \in 1 .. Len(past) : kept[i] = past[j]
  <2>1. PICK j \in 1 .. Len(past) : j = a - k + i
    <3>1. a - k + i \in 1 .. Len(past)
      BY <1>4, <1>5
    <3> QED BY <3>1
  <2>2. kept[i] = past[j]
    <3>1. kept = SubSeq(past, a - k + 1, a)
      BY <1>3, <1>4 DEF End
    <3>2. kept = [x \in 1 .. (a - (a - k + 1) + 1) |-> past[a - k + 1 + x - 1]]
      BY <3>1, <1>4 DEF SubSeq
    <3>3. i \in 1 .. (a - (a - k + 1) + 1) /\ a - k + 1 + i - 1 = j
      BY <1>4, <1>5, <2>1
    <3> QED BY <3>2, <3>3
  <2> QED BY <2>2
<1> QED BY <1>6

LEMMA ReadKeepsChats ==
    ASSUME Inv, ChatsTrue, NEW r \in Requests, Read(r)
    PROVE  ChatsTrue'
<1>1. PICK t : t = turn[r]
  OBVIOUS
<1>2. /\ t \in Turns /\ t.place = "read" /\ Limits \in LimitSets
      /\ t.ask \in Asks /\ t.ask \in AskTypes /\ Conversation(r) = Chat(r, t)
  <2>1. t.place = "read" /\ t.place \notin Idle
    BY <1>1 DEF Read, At, Idle
  <2> QED BY <1>1, <2>1, TurnFacts
<1>3. At(r, "read") /\ UNCHANGED config /\ chats' = Opened(r)
  BY DEF Read
<1>4. PICK past \in Seq(Messages) : past = PastRead(r)
  BY <1>3, PastReadType
<1>5. PICK c \in Seq(Messages) : c = CurrentMessages(t.ask.input)
  BY <1>2, CurrentMessagesIs DEF AskTypes
<1>6. PICK kept : kept = BoundedHistory(past, c, t.ask.instructions, Limits)
  OBVIOUS
<1>7. PICK payload, place :
         /\ payload = Payload(t.ask, past, Limits)
         /\ place = IF ~HasUserPrompt(payload) THEN "over" ELSE IF t.ask.chat THEN "save" ELSE "call"
  OBVIOUS
<1>8. PICK u : u = [t EXCEPT !.past = past, !.payload = payload, !.kept = kept, !.place = place]
  OBVIOUS
<1>9. turn' = [turn EXCEPT ![r] = u]
  <2>1. turn' = [turn EXCEPT ![r].past = past, ![r].payload = payload, ![r].kept = kept,
                             ![r].place = place]
    BY <1>1, <1>4, <1>5, <1>6, <1>7 DEF Read, PastRead, Chats
  <2> QED BY <1>1, <1>8, <2>1 DEF Inv
<1>10. u \in Turns
  <2>1. turn' \in [Requests -> Turns]
    BY ReadKeepsInv DEF Inv
  <2>2. turn'[r] = u
    BY <1>9 DEF Inv
  <2> QED BY <2>1, <2>2
<1>11. u.ask = t.ask /\ u.from = t.from /\ u.place = place /\ u.past = past /\ u.kept = kept
  BY <1>2, <1>8 DEF Turns
<1>12. place \in {"over", "save", "call"}
  BY <1>7
<1>13. Forward(turn, turn') /\ turn'[r].place \notin {"new", "read"}
  <2>1. Forward(turn, turn')
    BY <1>1, <1>2, <1>9, <1>11, <1>12, ForwardStep
  <2>2. turn'[r] = u
    BY <1>9 DEF Inv
  <2> QED BY <1>11, <1>12, <2>1, <2>2
<1>14. chats[r] = None
  BY <1>1, <1>2 DEF ChatsTrue
<1>15. ChatsFollow
  <2>1. CASE Chats(r) /\ t.from = None
    <3>1. chats' = [chats EXCEPT ![r] = <<>>]
      BY <1>1, <1>3, <2>1 DEF Opened
    <3>2. DocsTrue(<<>>, turn')
      BY EmptySeq DEF DocsTrue
    <3> QED BY <1>13, <1>14, <3>1, <3>2, OneChatFollows
  <2>2. CASE ~ (Chats(r) /\ t.from = None)
    <3>1. chats' = chats
      BY <1>1, <1>3, <2>2 DEF Opened
    <3> QED BY <1>13, <3>1, ChatsRest
  <2> QED BY <2>1, <2>2
<1>16. KeptTrue(u, Limits, chats'[Chat(r, u)])
  <2> SUFFICES ASSUME t.ask.chat, Limits.enabled
               PROVE  \A i \in 1 .. Len(kept) : \E j \in 1 .. Len(chats'[Chat(r, t)]) :
                         kept[i] = Shown(chats'[Chat(r, t)][j])
    <3>1. Chat(r, u) = Chat(r, t)
      BY <1>11 DEF Chat
    <3> QED BY <1>11, <3>1 DEF KeptTrue
  <2>1. Chats(r)
    BY <1>1 DEF Chats
  <2>2. PICK q \in Requests : q = Chat(r, t)
    BY <1>2, ChatType
  <2>3. PICK s \in Seq(Documents) : s = chats'[q] /\ s # None
    <3>1. Opened(r)[Conversation(r)] \in Seq(Documents) /\ Opened(r)[Conversation(r)] # None
      BY <1>3, <2>1, OpenedIs
    <3> QED BY <1>2, <1>3, <2>2, <3>1
  <2>4. DocsTrue(s, turn')
    BY <1>15, <2>2, <2>3 DEF ChatsFollow
  <2>5. past = GraniteInput(RecentMessages(s, RecentLimit))
    BY <1>2, <1>3, <1>4, <2>1, <2>2, <2>3 DEF PastRead
  <2>6. \A i \in 1 .. Len(past) : \E j \in 1 .. Len(s) : past[i] = Shown(s[j])
    <3>1. \A i \in 1 .. Len(GraniteInput(RecentMessages(s, RecentLimit))) :
                 \E j \in 1 .. Len(s) : GraniteInput(RecentMessages(s, RecentLimit))[i] = Shown(s[j])
      BY <2>4, ToldFrom, RepliesAssumption
    <3> QED BY <2>5, <3>1
  <2>7. \A i \in 1 .. Len(kept) : \E j \in 1 .. Len(past) : kept[i] = past[j]
    <3>1. t.ask.instructions \in Nat
      BY <1>2 DEF AskTypes
    <3> QED BY <1>2, <1>6, <3>1, KeptFrom
  <2>8. ASSUME NEW i \in 1 .. Len(kept) PROVE \E j \in 1 .. Len(s) : kept[i] = Shown(s[j])
    <3>1. PICK k \in 1 .. Len(past) : kept[i] = past[k]
      BY <2>7
    <3>2. PICK j \in 1 .. Len(s) : past[k] = Shown(s[j])
      BY <2>6
    <3> QED BY <3>1, <3>2
  <2> QED BY <2>2, <2>3, <2>8
<1> QED BY <1>3, <1>9, <1>10, <1>15, <1>16, ChatsStep

LEMMA NextKeepsChats ==
    ASSUME Inv, ChatsTrue, [Next]_vars
    PROVE  ChatsTrue'
<1>1. CASE UNCHANGED vars
  BY <1>1 DEF vars, ChatsTrue, Limits
<1>2. ASSUME NEW r \in Requests, NEW ask \in Asks, NEW from \in Requests \cup {None},
             Receive(r, ask, from)
      PROVE  ChatsTrue'
  BY <1>2, ReceiveKeepsChats
<1>3. ASSUME NEW r \in Requests, Read(r) PROVE ChatsTrue'
  BY <1>3, ReadKeepsChats
<1>4. ASSUME NEW r \in Requests, NEW reply \in Replies, NEW incomplete \in BOOLEAN,
             ModelAnswers(r, reply, incomplete)
      PROVE  ChatsTrue'
  BY <1>4, ModelAnswersKeepsChats
<1>5. ASSUME NEW r \in Requests, SaveUser(r) \/ SaveReply(r) PROVE ChatsTrue'
  BY <1>5, SaveUserKeepsChats, SaveReplyKeepsChats
<1>6. ASSUME NEW r \in Requests,
             \/ ModelFails(r) \/ MarkUser(r) \/ UndoUser(r) \/ UndoReply(r)
             \/ SaveContext(r) \/ UndoContext(r)
             \/ \E recorded \in BOOLEAN : Finish(r, recorded)
      PROVE  ChatsTrue'
  BY <1>6, GotosKeepChats
<1>7. CASE Restart
  BY <1>7, RestartKeepsChats
<1> QED BY <1>1, <1>2, <1>3, <1>4, <1>5, <1>6, <1>7 DEF Next

LEMMA InitChats ==
    ASSUME Init
    PROVE  ChatsTrue
<1>1. ASSUME NEW r \in Requests PROVE turn[r].place = "new" /\ chats[r] = None
  BY DEF Init, NewTurn
<1> QED BY <1>1 DEF ChatsTrue, KeptTrue

LEMMA ChatsAreTrue == Spec => []ChatsTrue
<1>1. Init => ChatsTrue
  BY InitChats
<1>2. Inv /\ ChatsTrue /\ [Next]_vars => ChatsTrue'
  BY NextKeepsChats
<1> QED BY <1>1, <1>2, ConversationsCorrect, PTL DEF Spec

-----------------------------------------------------------------------------
LEMMA ContextReads ==
    ASSUME Inv, ContextsTrue, NEW r \in Requests, contexts[r] # None
    PROVE  /\ IsSuffix(WithoutImages(contexts[r]), WithoutImages(thread[r]))
           /\ IsSuffix(Added(r), contexts[r])
<1>1. PICK c \in Seq(Messages), th \in Seq(Messages) : c = contexts[r] /\ th = thread[r]
  BY DEF Inv
<1>2. PICK t \in Turns : t = turn[r]
  BY DEF Inv
<1>3. Settled(t) /\ EndOf(WithoutImages(c), WithoutImages(th)) /\ EndOf(AddedBy(t), c)
  BY <1>1, <1>2 DEF ContextsTrue, TrueAt
<1>4. Added(r) = AddedBy(t)
  BY <1>2 DEF Added, AddedBy
<1>5. PICK v \in Seq(Messages), w \in Seq(Messages) : v = WithoutImages(c) /\ w = WithoutImages(th)
  BY WithoutImagesIs
<1>6. IsSuffix(v, w)
  BY <1>3, <1>5, EndOfIsSuffix
<1>7. AddedBy(t) \in Seq(Messages)
  BY <1>2, <1>3, <1>4, AddedType DEF Settled
<1>8. IsSuffix(AddedBy(t), c)
  BY <1>3, <1>7, EndOfIsSuffix
<1> QED BY <1>1, <1>4, <1>5, <1>6, <1>8

LEMMA ChatReads ==
    ASSUME Inv, ChatsTrue, NEW c \in Requests, chats[c] # None, NEW i \in DOMAIN chats[c],
           chats[c][i].role = "user"
    PROVE  GraniteInput(<<[chats[c][i] EXCEPT !.status = "sent"]>>)
               = CurrentMessages(turn[chats[c][i].turn].ask.input)
<1>1. PICK s \in Seq(Documents) : s = chats[c]
  BY DEF Inv, Chatted
<1>2. i \in 1 .. Len(s)
  BY <1>1, LenProperties
<1>3. PICK d \in Documents : d = s[i]
  BY <1>2, ElementOfSeq
<1>4. PICK input : input = turn[d.turn].ask.input
  OBVIOUS
<1>5. d.text = UserText(input) /\ d.images = UserImages(input) /\ input[1].content # <<>>
      /\ turn[d.turn].ask \in Asks /\ turn[d.turn].ask.chat /\ d.role = "user"
  BY <1>1, <1>2, <1>3, <1>4 DEF ChatsTrue, DocsTrue, DocTrue
<1>6. input \in Seq(Messages) /\ WebInput(input)
  BY <1>4, <1>5, AsksAssumption DEF AskTypes
<1>7. /\ CurrentMessages(input) = input
      /\ UserText(input) > 0 \/ UserImages(input) # <<>>
      /\ Shape(input[1].content, UserText(input), UserImages(input))
      /\ input = <<input[1]>> /\ input[1] \in Messages /\ input[1].role = "user"
  BY <1>5, <1>6, WebMessage
<1>8. PICK e : e = [d EXCEPT !.status = "sent"]
  OBVIOUS
<1>9. e \in Documents /\ e.status = "sent" /\ e.role = "user" /\ e.text = d.text /\ e.images = d.images
  BY <1>5, <1>8 DEF Documents
<1>10. e \in Usable
  BY <1>5, <1>7, <1>9 DEF Usable
<1>11. GraniteInput(<<e>>) = <<Told[e]>>
  <2>1. <<e>> \in Seq(Documents)
    BY <1>9
  <2>2. Filtered(<<e>>, Usable) = <<e>>
    BY <1>10, FilteredOne
  <2>3. Mapped(Told, <<e>>) = <<Told[e]>>
    BY MappedOne
  <2> QED BY <2>1, <2>2, <2>3, GraniteInputIs
<1>12. Told[e] = input[1]
  <2>1. PICK m \in Messages : m = input[1]
    BY <1>7
  <2>2. m = [role |-> m.role, content |-> m.content]
    BY DEF Messages
  <2>3. SaidBy(e) = m.content
    BY <1>5, <1>7, <1>9, <2>1 DEF SaidBy, Shape
  <2> QED BY <1>7, <1>9, <2>1, <2>2, <2>3 DEF Told
<1> QED BY <1>1, <1>3, <1>4, <1>7, <1>8, <1>11, <1>12

LEMMA KeptReads ==
    ASSUME Inv, ChatsTrue, NEW r \in Requests, At(r, "call"), Chats(r), Limits.enabled
    PROVE  ToSet(turn[r].kept) \subseteq {Shown(d) : d \in ToSet(chats[Conversation(r)])}
<1>1. PICK t : t = turn[r]
  OBVIOUS
<1>2. t.place = "call" /\ t.ask.chat /\ t \in Turns
  BY <1>1 DEF At, Chats, Inv
<1>3. PICK c \in Requests : c = Conversation(r) /\ c = Chat(r, t) /\ chats[c] # None
  BY <1>1, <1>2, TurnFacts DEF Idle, Chats
<1>4. PICK s \in Seq(Documents) : s = chats[c]
  BY <1>3 DEF Inv, Chatted
<1>5. KeptTrue(t, Limits, s)
  BY <1>1, <1>3, <1>4 DEF ChatsTrue
<1>6. PICK kept \in Seq(Messages) : kept = t.kept
  BY <1>2 DEF Turns
<1>7. DOMAIN kept = 1 .. Len(kept) /\ DOMAIN s = 1 .. Len(s)
  BY LenProperties
<1>8. ASSUME NEW i \in DOMAIN kept PROVE \E d \in ToSet(s) : kept[i] = Shown(d)
  <2>1. PICK j \in 1 .. Len(s) : kept[i] = Shown(s[j])
    BY <1>2, <1>5, <1>6, <1>7 DEF KeptTrue
  <2>2. s[j] \in ToSet(s)
    BY <1>7 DEF ToSet
  <2> QED BY <2>1, <2>2
<1>9. ToSet(kept) \subseteq {Shown(d) : d \in ToSet(s)}
  BY <1>8 DEF ToSet
<1> QED BY <1>1, <1>3, <1>4, <1>6, <1>9

\* Whatever is continued is what was said: a stored context is an end of all that led
\* to it, with its own turn whole; a chat message that save_message has stored reads
\* again as the browser sent it; and no turn of a chat tells the model what its owner
\* does not find in it, whatever was stored, marked and taken back meanwhile.
THEOREM PastStaysTrue == Spec => []PastIsTrue
<1>1. Inv /\ ContextsTrue /\ ChatsTrue => PastIsTrue
  BY ContextReads, ChatReads, KeptReads DEF PastIsTrue
<1> QED BY <1>1, ConversationsCorrect, ContextsAreTrue, ChatsAreTrue, PTL

-----------------------------------------------------------------------------
-----------------------------------------------------------------------------
(***************************************************************************)
(* All blocks of some messages, and those of them that are images.         *)
(***************************************************************************)
ContentOf == [m \in Messages |-> m.content]

LEMMA SeqGrows ==
    ASSUME NEW S, NEW U, S \subseteq U, NEW s \in Seq(S)
    PROVE  s \in Seq(U)
<1>1. Len(s) \in Nat /\ DOMAIN s = 1 .. Len(s) /\ \A i \in 1 .. Len(s) : s[i] \in U
  BY LenProperties, ElementOfSeq
<1> QED BY <1>1

LEMMA ContentTakes == Takes(ContentOf, Messages, Seq(AllBlocks))
BY DEF Takes, ContentOf, Messages

LEMMA BlocksIs ==
    ASSUME NEW s \in Seq(Messages)
    PROVE  /\ Blocks(s) = FlattenSeq(Mapped(ContentOf, s))
           /\ Mapped(ContentOf, s) \in Seq(Seq(AllBlocks))
           /\ Blocks(s) \in Seq(AllBlocks)
<1>1. DOMAIN s = 1 .. Len(s) /\ \A i \in 1 .. Len(s) : s[i] \in Messages
  BY LenProperties, ElementOfSeq
<1>2. [i \in DOMAIN s |-> s[i].content] = Mapped(ContentOf, s)
  BY <1>1 DEF Mapped, ContentOf
<1>3. Mapped(ContentOf, s) \in Seq(Seq(AllBlocks))
  BY ContentTakes, MappedType
<1>4. FlattenSeq(Mapped(ContentOf, s)) \in Seq(AllBlocks)
  BY <1>3, FlattenType
<1> QED BY <1>2, <1>3, <1>4 DEF Blocks

LEMMA ContentsConcat ==
    ASSUME NEW s \in Seq(Messages), NEW t \in Seq(Messages)
    PROVE  Mapped(ContentOf, s \o t) = Mapped(ContentOf, s) \o Mapped(ContentOf, t)
<1>1. ASSUME NEW F, Takes(F, Messages, Seq(AllBlocks))
      PROVE  Mapped(F, s \o t) = Mapped(F, s) \o Mapped(F, t)
  BY <1>1, MappedConcat
<1> QED BY <1>1, ContentTakes

LEMMA BlocksConcat ==
    ASSUME NEW s \in Seq(Messages), NEW t \in Seq(Messages)
    PROVE  Blocks(s \o t) = Blocks(s) \o Blocks(t)
<1>1. PICK a \in Seq(Seq(AllBlocks)), b \in Seq(Seq(AllBlocks)) :
          a = Mapped(ContentOf, s) /\ b = Mapped(ContentOf, t)
  BY BlocksIs
<1>2. PICK u \in Seq(Messages) : u = s \o t
  BY ConcatProperties
<1>3. FlattenSeq(a \o b) = FlattenSeq(a) \o FlattenSeq(b)
  BY FlattenConcat
<1>4. Mapped(ContentOf, u) = a \o b
  BY <1>1, <1>2, ContentsConcat
<1> QED BY <1>1, <1>2, <1>3, <1>4, BlocksIs

LEMMA BlocksOne ==
    ASSUME NEW m \in Messages
    PROVE  Blocks(<<m>>) = m.content
<1>1. m.content \in Seq(AllBlocks) /\ <<m>> \in Seq(Messages)
  BY DEF Messages
<1>2. Mapped(ContentOf, <<m>>) = <<m.content>>
  BY MappedOne DEF ContentOf
<1>3. FlattenSeq(<<m.content>>) = m.content
  BY <1>1, FlattenOne
<1> QED BY <1>1, <1>2, <1>3, BlocksIs

LEMMA BlocksEmpty == Blocks(<<>>) = <<>>
<1>1. <<>> \in Seq(Messages)
  BY EmptySeq
<1>2. Mapped(ContentOf, <<>>) = <<>>
  BY MappedEmpty
<1> QED BY <1>1, <1>2, BlocksIs, FlattenEmpty

LEMMA BlocksAppend ==
    ASSUME NEW s \in Seq(Messages), NEW m \in Messages
    PROVE  Blocks(Append(s, m)) = Blocks(s) \o m.content
<1>1. <<m>> \in Seq(Messages)
  OBVIOUS
<1>2. Append(s, m) = s \o <<m>>
  OBVIOUS
<1>3. Blocks(s \o <<m>>) = Blocks(s) \o Blocks(<<m>>)
  BY <1>1, BlocksConcat
<1> QED BY <1>2, <1>3, BlocksOne

\* The blocks are what the contents are made of.
LEMMA BlocksOf ==
    ASSUME NEW B, NEW M \in SUBSET Messages, \A m \in M : m.content \in Seq(B), NEW s \in Seq(M)
    PROVE  s \in Seq(Messages) /\ Blocks(s) \in Seq(B)
<1>1. s \in Seq(Messages)
  BY SeqGrows
<1>2. Takes(ContentOf, M, Seq(B))
  BY DEF Takes, ContentOf
<1>3. ASSUME NEW F, Takes(F, M, Seq(B)) PROVE Mapped(F, s) \in Seq(Seq(B))
  BY <1>3, MappedType
<1>4. Mapped(ContentOf, s) \in Seq(Seq(B))
  BY <1>2, <1>3
<1>5. FlattenSeq(Mapped(ContentOf, s)) \in Seq(B)
  BY <1>4, FlattenType
<1> QED BY <1>1, <1>5, BlocksIs

\* Whatever is in a message is among them.
Has(s, x) == \E k \in 1 .. Len(s) : s[k] = x

LEMMA HasConcat ==
    ASSUME NEW S, NEW s \in Seq(S), NEW t \in Seq(S), NEW x, Has(s, x) \/ Has(t, x)
    PROVE  Has(s \o t, x)
<1>1. CASE Has(s, x)
  <2>1. PICK k \in 1 .. Len(s) : s[k] = x
    BY <1>1 DEF Has
  <2>2. k \in 1 .. Len(s \o t) /\ (s \o t)[k] = x
    BY <2>1
  <2> QED BY <2>2 DEF Has
<1>2. CASE Has(t, x)
  <2>1. PICK k \in 1 .. Len(t) : t[k] = x
    BY <1>2 DEF Has
  <2>2. PICK j \in Nat : j = Len(s) + k
    BY <2>1
  <2>3. j \in 1 .. Len(s \o t) /\ (s \o t)[j] = x
    BY <2>1, <2>2
  <2> QED BY <2>3 DEF Has
<1> QED BY <1>1, <1>2

HasAll(s) == \A i \in 1 .. Len(s) : \A j \in 1 .. Len(s[i].content) : Has(Blocks(s), s[i].content[j])

LEMMA BlocksHaveAll ==
    ASSUME NEW s \in Seq(Messages)
    PROVE  HasAll(s)
<1> DEFINE T == {t \in Seq(Messages) : HasAll(t)}
<1>1. <<>> \in T
  BY EmptySeq DEF HasAll
<1>2. ASSUME NEW t \in Seq(Messages), NEW m \in Messages, t \in T PROVE Append(t, m) \in T
  <2>1. PICK u \in Seq(Messages) : u = Append(t, m)
    BY AppendProperties
  <2>2. Len(u) = Len(t) + 1 /\ u[Len(u)] = m /\ \A i \in 1 .. Len(t) : u[i] = t[i]
    BY <2>1
  <2>3. Blocks(u) = Blocks(t) \o m.content
    BY <2>1, BlocksAppend
  <2>4. Blocks(t) \in Seq(AllBlocks) /\ m.content \in Seq(AllBlocks)
    BY BlocksIs DEF Messages
  <2>5. ASSUME NEW i \in 1 .. Len(u), NEW j \in 1 .. Len(u[i].content)
        PROVE  Has(Blocks(u), u[i].content[j])
    <3>1. CASE i \in 1 .. Len(t)
      <4>1. Has(Blocks(t), u[i].content[j])
        BY <1>2, <2>2, <3>1 DEF HasAll
      <4> QED BY <2>3, <2>4, <4>1, HasConcat
    <3>2. CASE i \notin 1 .. Len(t)
      <4>1. u[i] = m
        BY <2>2, <3>2
      <4>2. Has(m.content, u[i].content[j])
        BY <4>1 DEF Has
      <4> QED BY <2>3, <2>4, <4>2, HasConcat
    <3> QED BY <3>1, <3>2
  <2> QED BY <2>1, <2>5 DEF HasAll
<1>3. Seq(Messages) \subseteq T
  <2> HIDE DEF T
  <2> QED BY <1>1, <1>2, SeqInduction
<1> QED BY <1>3

LEMMA ImagesOfIs ==
    ASSUME NEW s \in Seq(Messages)
    PROVE  /\ ImagesOf(s) = Filtered(Blocks(s), ImageBlocks) /\ ImagesOf(s) \in Seq(ImageBlocks)
           /\ TextsOf(s) = Filtered(Blocks(s), TextBlocks) /\ TextsOf(s) \in Seq(TextBlocks)
<1>1. Blocks(s) \in Seq(AllBlocks)
  BY BlocksIs
<1>2. Filtered(Blocks(s), ImageBlocks) \in Seq(ImageBlocks)
  BY <1>1, FilteredInto
<1>3. Filtered(Blocks(s), TextBlocks) \in Seq(TextBlocks)
  BY <1>1, FilteredInto
<1> QED BY <1>1, <1>2, <1>3, SelectedBlocks DEF ImagesOf, TextsOf

LEMMA ImagesOfConcat ==
    ASSUME NEW s \in Seq(Messages), NEW t \in Seq(Messages)
    PROVE  ImagesOf(s \o t) = ImagesOf(s) \o ImagesOf(t)
<1>1. PICK a \in Seq(AllBlocks), b \in Seq(AllBlocks) : a = Blocks(s) /\ b = Blocks(t)
  BY BlocksIs
<1>2. PICK u \in Seq(Messages) : u = s \o t
  BY ConcatProperties
<1>3. Filtered(a \o b, ImageBlocks) = Filtered(a, ImageBlocks) \o Filtered(b, ImageBlocks)
  BY FilteredConcat
<1> QED BY <1>1, <1>2, <1>3, BlocksConcat, ImagesOfIs

LEMMA ImagesOfOne ==
    ASSUME NEW m \in Messages
    PROVE  /\ ImagesOf(<<m>>) = Filtered(m.content, ImageBlocks)
           /\ ImagesOf(<<m>>) = Selected(m.content, IsImage)
           /\ ImagesOf(<<m>>) \in Seq(ImageBlocks)
<1>1. m.content \in Seq(AllBlocks) /\ <<m>> \in Seq(Messages)
  BY DEF Messages
<1> QED BY <1>1, BlocksOne, ImagesOfIs, SelectedBlocks

LEMMA ImagesOfEmpty == ImagesOf(<<>>) = <<>>
<1>1. <<>> \in Seq(Messages)
  BY EmptySeq
<1> QED BY <1>1, BlocksEmpty, ImagesOfIs, FilteredEmpty

-----------------------------------------------------------------------------
(***************************************************************************)
(* The images of some messages take what the messages take one by one.     *)
(***************************************************************************)
ImageFields == {"images", "bytes", "pixels"}
Taken(images) ==
    [images |-> Len(images), bytes |-> TotalOf(BytesOf, images), pixels |-> TotalOf(PixelsOf, images)]

BytesIn == [b \in ImageBlocks |-> b.bytes]
PixelsIn == [b \in ImageBlocks |-> b.pixels]

LEMMA TotalsOfImages ==
    ASSUME NEW s \in Seq(ImageBlocks)
    PROVE  /\ TotalOf(BytesOf, s) = Total(Mapped(BytesIn, s))
           /\ TotalOf(PixelsOf, s) = Total(Mapped(PixelsIn, s))
           /\ Takes(BytesIn, ImageBlocks, Nat) /\ Takes(PixelsIn, ImageBlocks, Nat)
<1>1. DOMAIN s = 1 .. Len(s) /\ \A i \in 1 .. Len(s) : s[i] \in ImageBlocks
  BY LenProperties, ElementOfSeq
<1>2. [i \in DOMAIN s |-> s[i].bytes] = Mapped(BytesIn, s)
  BY <1>1 DEF Mapped, BytesIn
<1>3. [i \in DOMAIN s |-> s[i].pixels] = Mapped(PixelsIn, s)
  BY <1>1 DEF Mapped, PixelsIn
<1>4. Takes(BytesIn, ImageBlocks, Nat) /\ Takes(PixelsIn, ImageBlocks, Nat)
  BY DEF Takes, BytesIn, PixelsIn, ImageBlocks
<1> QED BY <1>2, <1>3, <1>4 DEF TotalOf, BytesOf, PixelsOf

LEMMA MappedTotal ==
    ASSUME NEW S, NEW s \in Seq(S), NEW t \in Seq(S), NEW F, Takes(F, S, Nat)
    PROVE  /\ Total(Mapped(F, s)) \in Nat
           /\ Total(Mapped(F, s \o t)) = Total(Mapped(F, s)) + Total(Mapped(F, t))
<1>1. PICK a \in Seq(Nat), b \in Seq(Nat) : a = Mapped(F, s) /\ b = Mapped(F, t)
  BY MappedType
<1>2. Mapped(F, s \o t) = Mapped(F, s) \o Mapped(F, t)
  BY MappedConcat
<1>3. Total(a \o b) = Total(a) + Total(b) /\ Total(a) \in Nat
  BY TotalConcat, TotalType
<1> QED BY <1>1, <1>2, <1>3

LEMMA TakenConcat ==
    ASSUME NEW s \in Seq(ImageBlocks), NEW t \in Seq(ImageBlocks), NEW field \in ImageFields
    PROVE  Taken(s \o t)[field] = Taken(s)[field] + Taken(t)[field]
<1>1. PICK u \in Seq(ImageBlocks) : u = s \o t
  BY ConcatProperties
<1>2. Len(u) = Len(s) + Len(t)
  BY <1>1, ConcatProperties
<1>3. ASSUME NEW F, Takes(F, ImageBlocks, Nat)
      PROVE  Total(Mapped(F, s \o t)) = Total(Mapped(F, s)) + Total(Mapped(F, t))
  BY <1>3, MappedTotal
<1>4. TotalOf(BytesOf, u) = TotalOf(BytesOf, s) + TotalOf(BytesOf, t)
  BY <1>1, <1>3, TotalsOfImages
<1>5. TotalOf(PixelsOf, u) = TotalOf(PixelsOf, s) + TotalOf(PixelsOf, t)
  BY <1>1, <1>3, TotalsOfImages
<1>6. Taken(u)[field] = Taken(s)[field] + Taken(t)[field]
  <2>1. field = "images" \/ field = "bytes" \/ field = "pixels"
    BY DEF ImageFields
  <2>2. CASE field = "images"
    BY <1>2, <2>2 DEF Taken
  <2>3. CASE field = "bytes"
    BY <1>4, <2>3 DEF Taken
  <2>4. CASE field = "pixels"
    BY <1>5, <2>4 DEF Taken
  <2> QED BY <2>1, <2>2, <2>3, <2>4
<1> QED BY <1>1, <1>6

LEMMA TakenEmpty ==
    ASSUME NEW field \in ImageFields
    PROVE  Taken(<<>>)[field] = 0
<1>1. <<>> \in Seq(ImageBlocks) /\ Len(<<>>) = 0
  BY EmptySeq
<1>2. Mapped(BytesIn, <<>>) = <<>> /\ Mapped(PixelsIn, <<>>) = <<>>
  BY MappedEmpty
<1>3. TotalOf(BytesOf, <<>>) = 0 /\ TotalOf(PixelsOf, <<>>) = 0
  BY <1>1, <1>2, TotalsOfImages, TotalEmpty
<1> QED BY <1>1, <1>3 DEF Taken, ImageFields

LEMMA SizeIsTaken ==
    ASSUME NEW m \in Messages, NEW field \in ImageFields
    PROVE  SizeOf(m, field) = Taken(ImagesOf(<<m>>))[field]
<1>1. ImageUsage(m) = Taken(ImagesOf(<<m>>))
  BY ImagesOfOne DEF ImageUsage, Taken
<1>2. field # "chars"
  BY DEF ImageFields
<1> QED BY <1>1, <1>2 DEF SizeOf

LEMMA SumIsTaken ==
    ASSUME NEW s \in Seq(Messages), NEW field \in ImageFields
    PROVE  Sum(s, field) = Taken(ImagesOf(s))[field]
<1> DEFINE T == {t \in Seq(Messages) : Sum(t, field) = Taken(ImagesOf(t))[field]}
<1>1. field \in Fields
  BY DEF Fields, ImageFields
<1>2. <<>> \in T
  BY <1>1, EmptySeq, SumEmpty, ImagesOfEmpty, TakenEmpty
<1>3. ASSUME NEW t \in Seq(Messages), NEW m \in Messages, t \in T PROVE Append(t, m) \in T
  <2>1. <<m>> \in Seq(Messages) /\ Append(t, m) \in Seq(Messages) /\ Append(t, m) = t \o <<m>>
    OBVIOUS
  <2>2. PICK o \in Seq(Messages) : o = <<m>>
    BY <2>1
  <2>3. Sum(t \o o, field) = Sum(t, field) + Sum(o, field)
    BY <1>1, SumConcat
  <2>4. Sum(o, field) = Taken(ImagesOf(o))[field]
    BY <1>1, <2>2, SumOne, SizeIsTaken
  <2>5. ImagesOf(t \o o) = ImagesOf(t) \o ImagesOf(o)
    BY ImagesOfConcat
  <2>6. ImagesOf(t) \in Seq(ImageBlocks) /\ ImagesOf(o) \in Seq(ImageBlocks)
    BY ImagesOfIs
  <2>7. Taken(ImagesOf(t \o o))[field] = Taken(ImagesOf(t))[field] + Taken(ImagesOf(o))[field]
    BY <2>5, <2>6, TakenConcat
  <2>8. Sum(t, field) = Taken(ImagesOf(t))[field]
    BY <1>3
  <2>9. Sum(t \o o, field) = Taken(ImagesOf(t \o o))[field]
    BY <2>3, <2>4, <2>7, <2>8
  <2> QED BY <2>1, <2>2, <2>9
<1>4. Seq(Messages) \subseteq T
  <2> HIDE DEF T
  <2> QED BY <1>2, <1>3, SeqInduction
<1> QED BY <1>4

-----------------------------------------------------------------------------
(***************************************************************************)
(* The fragments of a message are its blocks, in their order.              *)
(***************************************************************************)
Mixed(content) ==
    \E i, j \in DOMAIN content : i < j /\ IsImage(content[i]) /\ IsText(content[j])

LEMMA FilteredAppend ==
    ASSUME NEW S, NEW s \in Seq(S), NEW x \in S, NEW G
    PROVE  Filtered(Append(s, x), G) = Filtered(s, G) \o Filtered(<<x>>, G)
<1>1. <<x>> \in Seq(S) /\ Append(s, x) = s \o <<x>>
  OBVIOUS
<1>2. PICK o \in Seq(S) : o = <<x>>
  BY <1>1
<1>3. Filtered(s \o o, G) = Filtered(s, G) \o Filtered(o, G)
  BY FilteredConcat
<1> QED BY <1>1, <1>2, <1>3

\* If no text comes after an image, the texts and then the images are the message.
LEMMA TextsThenImages ==
    ASSUME NEW s \in Seq(AllBlocks), ~Mixed(s)
    PROVE  Filtered(s, TextBlocks) \o Filtered(s, ImageBlocks) = s
<1> DEFINE T == {t \in Seq(AllBlocks) :
                    ~Mixed(t) => Filtered(t, TextBlocks) \o Filtered(t, ImageBlocks) = t}
<1>1. <<>> \in T
  BY EmptySeq, FilteredEmpty, ConcatEmptySeq
<1>2. ASSUME NEW t \in Seq(AllBlocks), NEW x \in AllBlocks, t \in T PROVE Append(t, x) \in T
  <2>1. PICK u \in Seq(AllBlocks) : u = Append(t, x)
    BY AppendProperties
  <2>2. SUFFICES ASSUME ~Mixed(u)
                 PROVE  Filtered(u, TextBlocks) \o Filtered(u, ImageBlocks) = u
    BY <2>1
  <2>3. /\ Len(t) \in Nat /\ DOMAIN t = 1 .. Len(t) /\ DOMAIN u = 1 .. Len(t) + 1
        /\ u[Len(t) + 1] = x /\ \A i \in 1 .. Len(t) : u[i] = t[i]
        /\ Len(t) + 1 \in DOMAIN u
    BY <2>1
  <2>4. ~Mixed(t)
    <3>1. SUFFICES ASSUME NEW i \in DOMAIN t, NEW j \in DOMAIN t, i < j,
                          IsImage(t[i]), IsText(t[j])
                   PROVE  FALSE
      BY DEF Mixed
    <3>2. i \in DOMAIN u /\ j \in DOMAIN u /\ u[i] = t[i] /\ u[j] = t[j]
      BY <2>3
    <3> QED BY <2>2, <3>1, <3>2 DEF Mixed
  <2>5. Filtered(t, TextBlocks) \o Filtered(t, ImageBlocks) = t
    BY <1>2, <2>4
  <2>6. PICK a \in Seq(AllBlocks), b \in Seq(AllBlocks) :
            a = Filtered(t, TextBlocks) /\ b = Filtered(t, ImageBlocks)
    <3>1. Filtered(t, TextBlocks) \in Seq(AllBlocks) /\ Filtered(t, ImageBlocks) \in Seq(AllBlocks)
      BY FilteredInto
    <3> QED BY <3>1
  <2>7. u = t \o <<x>> /\ <<x>> \in Seq(AllBlocks)
    BY <2>1
  <2>8. /\ Filtered(u, TextBlocks) = a \o Filtered(<<x>>, TextBlocks)
        /\ Filtered(u, ImageBlocks) = b \o Filtered(<<x>>, ImageBlocks)
    BY <2>1, <2>6, FilteredAppend
  <2>9. CASE IsImage(x)
    <3>1. x \in ImageBlocks /\ x \notin TextBlocks
      BY <2>9, BlocksAre DEF TextBlocks, IsImage
    <3>2. Filtered(<<x>>, TextBlocks) = <<>> /\ Filtered(<<x>>, ImageBlocks) = <<x>>
      BY <3>1, FilteredOne
    <3>3. Filtered(u, TextBlocks) = a /\ Filtered(u, ImageBlocks) = b \o <<x>>
      BY <2>8, <3>2, ConcatEmptySeq
    <3>4. a \o (b \o <<x>>) = (a \o b) \o <<x>>
      BY <2>7, ConcatAssociative
    <3> QED BY <2>5, <2>6, <2>7, <3>3, <3>4
  <2>10. CASE ~IsImage(x)
    <3>1. x \in TextBlocks /\ x \notin ImageBlocks /\ IsText(x)
      BY <2>10, BlocksAre DEF TextBlocks, IsText
    <3>2. Filtered(<<x>>, TextBlocks) = <<x>> /\ Filtered(<<x>>, ImageBlocks) = <<>>
      BY <3>1, FilteredOne
    <3>3. b = <<>>
      <4>1. ASSUME NEW i \in 1 .. Len(t) PROVE t[i] \notin ImageBlocks
        <5>1. i \in DOMAIN u /\ u[i] = t[i] /\ i < Len(t) + 1
          BY <2>3
        <5>2. ~IsImage(t[i])
          BY <2>2, <2>3, <3>1, <5>1 DEF Mixed
        <5> QED BY <5>2 DEF ImageBlocks, IsImage
      <4> QED BY <2>6, <4>1, FilteredNone
    <3>4. a = t
      BY <2>5, <2>6, <3>3, ConcatEmptySeq
    <3>5. Filtered(u, TextBlocks) = t \o <<x>>
      BY <2>8, <3>2, <3>4
    <3>6. Filtered(u, ImageBlocks) = <<>>
      <4>1. <<>> \o <<>> = <<>>
        BY EmptySeq, ConcatEmptySeq
      <4> QED BY <2>8, <3>2, <3>3, <4>1
    <3>7. u \o <<>> = u
      BY ConcatEmptySeq
    <3> QED BY <2>7, <3>5, <3>6, <3>7
  <2> QED BY <2>9, <2>10
<1>3. Seq(AllBlocks) \subseteq T
  <2> HIDE DEF T
  <2> QED BY <1>1, <1>2, SeqInduction
<1> QED BY <1>3

Fragments == [role : Roles, texts : Seq(TextBlocks), images : Seq(ImageBlocks)]
Parts == [fr \in Fragments |-> fr.texts \o fr.images]

LEMMA TwoParts ==
    ASSUME NEW a \in Seq(TextBlocks), NEW b \in Seq(ImageBlocks)
    PROVE  a \in Seq(AllBlocks) /\ b \in Seq(AllBlocks) /\ a \o b \in Seq(AllBlocks)
<1>1. TextBlocks \subseteq AllBlocks
  BY DEF AllBlocks
<1>2. a \in Seq(AllBlocks)
  BY <1>1, SeqGrows
<1>3. b \in Seq(AllBlocks)
  BY ImagesAreBlocks
<1> QED BY <1>2, <1>3, ConcatProperties

LEMMA PartsTake == Takes(Parts, Fragments, Seq(AllBlocks))
<1>1. ASSUME NEW fr \in Fragments PROVE Parts[fr] \in Seq(AllBlocks)
  <2>1. fr.texts \in Seq(TextBlocks) /\ fr.images \in Seq(ImageBlocks)
    BY DEF Fragments
  <2>2. fr.texts \o fr.images \in Seq(AllBlocks)
    BY <2>1, TwoParts
  <2> QED BY <2>2 DEF Parts
<1> QED BY <1>1 DEF Takes

LEMMA FlattenedIs ==
    ASSUME NEW s \in Seq(Fragments)
    PROVE  /\ Flattened(s) = FlattenSeq(Mapped(Parts, s))
           /\ Mapped(Parts, s) \in Seq(Seq(AllBlocks))
           /\ Flattened(s) \in Seq(AllBlocks)
<1>1. DOMAIN s = 1 .. Len(s) /\ \A i \in 1 .. Len(s) : s[i] \in Fragments
  BY LenProperties, ElementOfSeq
<1>2. [i \in DOMAIN s |-> s[i].texts \o s[i].images] = Mapped(Parts, s)
  BY <1>1 DEF Mapped, Parts
<1>3. Mapped(Parts, s) \in Seq(Seq(AllBlocks))
  BY PartsTake, MappedType
<1>4. FlattenSeq(Mapped(Parts, s)) \in Seq(AllBlocks)
  BY <1>3, FlattenType
<1> QED BY <1>2, <1>3, <1>4 DEF Flattened

LEMMA PartsConcat ==
    ASSUME NEW s \in Seq(Fragments), NEW t \in Seq(Fragments)
    PROVE  Mapped(Parts, s \o t) = Mapped(Parts, s) \o Mapped(Parts, t)
<1>1. ASSUME NEW F, Takes(F, Fragments, Seq(AllBlocks))
      PROVE  Mapped(F, s \o t) = Mapped(F, s) \o Mapped(F, t)
  BY <1>1, MappedConcat
<1> QED BY <1>1, PartsTake

LEMMA FlattenedConcat ==
    ASSUME NEW s \in Seq(Fragments), NEW t \in Seq(Fragments)
    PROVE  Flattened(s \o t) = Flattened(s) \o Flattened(t)
<1>1. PICK a \in Seq(Seq(AllBlocks)), b \in Seq(Seq(AllBlocks)) :
          a = Mapped(Parts, s) /\ b = Mapped(Parts, t)
  BY FlattenedIs
<1>2. PICK u \in Seq(Fragments) : u = s \o t
  BY ConcatProperties
<1>3. FlattenSeq(a \o b) = FlattenSeq(a) \o FlattenSeq(b)
  BY FlattenConcat
<1>4. Mapped(Parts, u) = a \o b
  BY <1>1, <1>2, PartsConcat
<1> QED BY <1>1, <1>2, <1>3, <1>4, FlattenedIs

LEMMA FlattenedOne ==
    ASSUME NEW fr \in Fragments
    PROVE  Flattened(<<fr>>) = fr.texts \o fr.images
<1>1. fr.texts \o fr.images \in Seq(AllBlocks) /\ <<fr>> \in Seq(Fragments)
  BY TwoParts DEF Fragments
<1>2. Mapped(Parts, <<fr>>) = <<fr.texts \o fr.images>>
  <2>1. Mapped(Parts, <<fr>>) = <<Parts[fr]>>
    BY MappedOne
  <2> QED BY <2>1 DEF Parts
<1>3. FlattenSeq(<<fr.texts \o fr.images>>) = fr.texts \o fr.images
  BY <1>1, FlattenOne
<1> QED BY <1>1, <1>2, <1>3, FlattenedIs

LEMMA FlattenedEmpty == Flattened(<<>>) = <<>>
<1>1. <<>> \in Seq(Fragments)
  BY EmptySeq
<1>2. Mapped(Parts, <<>>) = <<>>
  BY MappedEmpty
<1> QED BY <1>1, <1>2, FlattenedIs, FlattenEmpty

LEMMA FlattenedAppend ==
    ASSUME NEW s \in Seq(Fragments), NEW fr \in Fragments
    PROVE  /\ Append(s, fr) \in Seq(Fragments)
           /\ Flattened(Append(s, fr)) = Flattened(s) \o (fr.texts \o fr.images)
<1>1. <<fr>> \in Seq(Fragments)
  OBVIOUS
<1>2. Append(s, fr) = s \o <<fr>>
  OBVIOUS
<1>3. Flattened(s \o <<fr>>) = Flattened(s) \o Flattened(<<fr>>)
  BY <1>1, FlattenedConcat
<1> QED BY <1>2, <1>3, FlattenedOne, AppendProperties

LEMMA LastFragment ==
    ASSUME NEW frs \in Seq(Fragments), frs # <<>>
    PROVE  \E front \in Seq(Fragments), fr \in Fragments : frs = Append(front, fr)
BY SequenceEmptyOrAppend

LEMMA AppendTwice ==
    ASSUME NEW S, NEW s \in Seq(S), NEW a \in Seq(S), NEW b \in S
    PROVE  s \o Append(a, b) = (s \o a) \o <<b>>
OBVIOUS

LEMMA LastReplaced ==
    ASSUME NEW S, NEW s \in Seq(S), NEW x \in S, NEW y \in S, NEW n, n = Len(s) + 1
    PROVE  [Append(s, x) EXCEPT ![n] = y] = Append(s, y)
<1>1. PICK u \in Seq(S), v \in Seq(S) : u = Append(s, x) /\ v = Append(s, y)
  <2>1. Append(s, x) \in Seq(S) /\ Append(s, y) \in Seq(S)
    BY AppendProperties
  <2> QED BY <2>1
<1>2. /\ Len(s) \in Nat /\ DOMAIN u = 1 .. n /\ DOMAIN v = 1 .. n /\ v[n] = y
      /\ \A i \in 1 .. Len(s) : u[i] = v[i]
  BY <1>1, AppendProperties, LenProperties
<1>3. \A i \in 1 .. n : i # n => i \in 1 .. Len(s)
  BY <1>2
<1>4. /\ u = [i \in DOMAIN u |-> u[i]] /\ v = [i \in DOMAIN v |-> v[i]]
  OBVIOUS
<1>5. ASSUME NEW i \in 1 .. n PROVE [u EXCEPT ![n] = y][i] = v[i]
  BY <1>2, <1>3
<1>6. [u EXCEPT ![n] = y] = [i \in 1 .. n |-> v[i]]
  BY <1>2, <1>5
<1> QED BY <1>1, <1>2, <1>4, <1>6

\* A block that joins the last fragment.
LEMMA JoinsLast ==
    ASSUME NEW front \in Seq(Fragments), NEW fr \in Fragments, NEW new \in Fragments,
           NEW b \in AllBlocks, new.texts \o new.images = (fr.texts \o fr.images) \o <<b>>
    PROVE  Flattened(Append(front, new)) = Flattened(Append(front, fr)) \o <<b>>
<1>1. PICK a \in Seq(AllBlocks), c \in Seq(AllBlocks) :
          a = Flattened(front) /\ c = fr.texts \o fr.images
  <2>1. fr.texts \in Seq(TextBlocks) /\ fr.images \in Seq(ImageBlocks)
    BY DEF Fragments
  <2>2. Flattened(front) \in Seq(AllBlocks) /\ fr.texts \o fr.images \in Seq(AllBlocks)
    BY <2>1, FlattenedIs, TwoParts
  <2> QED BY <2>2
<1>2. Flattened(Append(front, new)) = a \o (c \o <<b>>)
  BY <1>1, FlattenedAppend
<1>3. Flattened(Append(front, fr)) = a \o c
  BY <1>1, FlattenedAppend
<1>4. <<b>> \in Seq(AllBlocks)
  OBVIOUS
<1>5. a \o (c \o <<b>>) = (a \o c) \o <<b>>
  BY <1>4, ConcatAssociative
<1> QED BY <1>2, <1>3, <1>5

LEMMA AddImage ==
    ASSUME NEW fr \in Fragments, NEW b \in ImageBlocks
    PROVE  LET new == [fr EXCEPT !.images = Append(@, b)]
           IN  new \in Fragments /\ new.texts \o new.images = (fr.texts \o fr.images) \o <<b>>
<1>1. fr.texts \in Seq(TextBlocks) /\ fr.images \in Seq(ImageBlocks) /\ fr.role \in Roles
      /\ fr = [role |-> fr.role, texts |-> fr.texts, images |-> fr.images]
  BY DEF Fragments
<1>2. PICK t \in Seq(AllBlocks), i \in Seq(AllBlocks) : t = fr.texts /\ i = fr.images
  BY <1>1, TwoParts
<1>3. t \o Append(i, b) = (t \o i) \o <<b>>
  BY AppendTwice DEF AllBlocks
<1>4. Append(fr.images, b) \in Seq(ImageBlocks)
  BY <1>1, AppendProperties
<1>5. [fr EXCEPT !.images = Append(@, b)]
          = [role |-> fr.role, texts |-> fr.texts, images |-> Append(fr.images, b)]
  <2>1. PICK v : v = Append(fr.images, b)
    OBVIOUS
  <2>2. [fr EXCEPT !.images = v] = [role |-> fr.role, texts |-> fr.texts, images |-> v]
    BY <1>1
  <2> QED BY <2>1, <2>2
<1> QED BY <1>1, <1>2, <1>3, <1>4, <1>5 DEF Fragments

LEMMA AddText ==
    ASSUME NEW fr \in Fragments, NEW b \in TextBlocks, fr.images = <<>>
    PROVE  LET new == [fr EXCEPT !.texts = Append(@, b)]
           IN  new \in Fragments /\ new.texts \o new.images = (fr.texts \o fr.images) \o <<b>>
<1>1. fr.texts \in Seq(TextBlocks) /\ fr.images \in Seq(ImageBlocks) /\ fr.role \in Roles
      /\ fr = [role |-> fr.role, texts |-> fr.texts, images |-> fr.images]
  BY DEF Fragments
<1>2. Append(fr.texts, b) \in Seq(TextBlocks) /\ Append(fr.texts, b) = fr.texts \o <<b>>
  BY <1>1
<1>3. [fr EXCEPT !.texts = Append(@, b)]
          = [role |-> fr.role, texts |-> Append(fr.texts, b), images |-> fr.images]
  <2>1. PICK v : v = Append(fr.texts, b)
    OBVIOUS
  <2>2. [fr EXCEPT !.texts = v] = [role |-> fr.role, texts |-> v, images |-> fr.images]
    BY <1>1
  <2> QED BY <2>1, <2>2
<1>4. fr.texts \o <<>> = fr.texts /\ Append(fr.texts, b) \o <<>> = Append(fr.texts, b)
  BY <1>1, <1>2, ConcatEmptySeq
<1> QED BY <1>1, <1>2, <1>3, <1>4 DEF Fragments

NewFragment(role, b) ==
    [role |-> role, texts |-> IF IsText(b) THEN <<b>> ELSE <<>>,
     images |-> IF IsImage(b) THEN <<b>> ELSE <<>>]

LEMMA NewFragmentIs ==
    ASSUME NEW role \in Roles, NEW b \in AllBlocks
    PROVE  NewFragment(role, b) \in Fragments
           /\ NewFragment(role, b).texts \o NewFragment(role, b).images = <<b>>
<1>1. CASE IsText(b)
  <2>1. b \in TextBlocks /\ ~IsImage(b)
    BY <1>1, BlocksAre DEF IsImage, IsText
  <2>2. NewFragment(role, b) = [role |-> role, texts |-> <<b>>, images |-> <<>>]
    BY <1>1, <2>1 DEF NewFragment
  <2>3. <<b>> \in Seq(TextBlocks) /\ <<>> \in Seq(ImageBlocks) /\ <<b>> \o <<>> = <<b>>
    BY <2>1
  <2> QED BY <2>2, <2>3 DEF Fragments
<1>2. CASE ~IsText(b)
  <2>1. b \in ImageBlocks /\ IsImage(b)
    BY <1>2, BlocksAre DEF AllBlocks
  <2>2. NewFragment(role, b) = [role |-> role, texts |-> <<>>, images |-> <<b>>]
    BY <1>2, <2>1 DEF NewFragment
  <2>3. <<b>> \in Seq(ImageBlocks) /\ <<>> \in Seq(TextBlocks) /\ <<>> \o <<b>> = <<b>>
    BY <2>1
  <2> QED BY <2>2, <2>3 DEF Fragments
<1> QED BY <1>1, <1>2

\* Each block goes into the fragments once, after those before it.
LEMMA AddedToFragments ==
    ASSUME NEW role \in Roles, NEW frs \in Seq(Fragments), NEW b \in AllBlocks
    PROVE  /\ AddToFragments(role, frs, b) \in Seq(Fragments)
           /\ Flattened(AddToFragments(role, frs, b)) = Flattened(frs) \o <<b>>
<1> DEFINE joins == frs # <<>> /\ (frs[Len(frs)].images # <<>>) = IsImage(b)
<1>1. CASE ~joins
  <2>1. AddToFragments(role, frs, b) = Append(frs, NewFragment(role, b))
    BY <1>1 DEF AddToFragments, NewFragment
  <2>2. PICK new \in Fragments : new = NewFragment(role, b) /\ new.texts \o new.images = <<b>>
    BY NewFragmentIs
  <2> QED BY <2>1, <2>2, FlattenedAppend
<1>2. CASE joins
  <2>1. PICK front \in Seq(Fragments), fr \in Fragments : frs = Append(front, fr)
    BY <1>2, LastFragment
  <2>2. frs[Len(frs)] = fr /\ Len(frs) = Len(front) + 1 /\ Len(front) \in Nat
    BY <2>1
  <2>3. (fr.images # <<>>) = IsImage(b)
    BY <1>2, <2>2
  <2>4. CASE IsImage(b)
    <3>1. b \in ImageBlocks
      BY <2>4, BlocksAre
    <3>2. PICK new \in Fragments : /\ new = [fr EXCEPT !.images = Append(@, b)]
                                   /\ new.texts \o new.images = (fr.texts \o fr.images) \o <<b>>
      BY <3>1, AddImage
    <3>3. [frs EXCEPT ![Len(frs)].images = Append(@, b)] = Append(front, new)
      <4>1. [frs EXCEPT ![Len(frs)].images = Append(@, b)]
                = [frs EXCEPT ![Len(frs)] = [frs[Len(frs)] EXCEPT !.images = Append(@, b)]]
        OBVIOUS
      <4>2. [Append(front, fr) EXCEPT ![Len(frs)] = new] = Append(front, new)
        BY <2>2, LastReplaced
      <4> QED BY <2>1, <2>2, <3>2, <4>1, <4>2
    <3>4. AddToFragments(role, frs, b) = Append(front, new)
      BY <1>2, <2>4, <3>3 DEF AddToFragments
    <3>5. Append(front, new) \in Seq(Fragments)
      BY AppendProperties
    <3>6. Flattened(Append(front, new)) = Flattened(Append(front, fr)) \o <<b>>
      BY <3>2, JoinsLast
    <3> QED BY <2>1, <3>4, <3>5, <3>6
  <2>5. CASE ~IsImage(b)
    <3>1. b \in TextBlocks /\ fr.images = <<>>
      BY <2>3, <2>5, BlocksAre
    <3>2. PICK new \in Fragments : /\ new = [fr EXCEPT !.texts = Append(@, b)]
                                   /\ new.texts \o new.images = (fr.texts \o fr.images) \o <<b>>
      BY <3>1, AddText
    <3>3. [frs EXCEPT ![Len(frs)].texts = Append(@, b)] = Append(front, new)
      <4>1. [frs EXCEPT ![Len(frs)].texts = Append(@, b)]
                = [frs EXCEPT ![Len(frs)] = [frs[Len(frs)] EXCEPT !.texts = Append(@, b)]]
        OBVIOUS
      <4>2. [Append(front, fr) EXCEPT ![Len(frs)] = new] = Append(front, new)
        BY <2>2, LastReplaced
      <4> QED BY <2>1, <2>2, <3>2, <4>1, <4>2
    <3>4. AddToFragments(role, frs, b) = Append(front, new)
      BY <1>2, <2>5, <3>3 DEF AddToFragments
    <3>5. Append(front, new) \in Seq(Fragments)
      BY AppendProperties
    <3>6. Flattened(Append(front, new)) = Flattened(Append(front, fr)) \o <<b>>
      BY <3>2, JoinsLast
    <3> QED BY <2>1, <3>4, <3>5, <3>6
  <2> QED BY <2>4, <2>5
<1> QED BY <1>1, <1>2

\* Collects says of the function of the fold that SeparateFragments is, that it adds
\* the block at the last of some positions to the fragments of the others.
Collects(role, s, n, f) ==
    f = [T \in SUBSET (1 .. n) |->
            IF T = {} THEN <<>> ELSE AddToFragments(role, f[T \ {Max(T)}], s[Max(T)])]

LEMMA CollectsAt ==
    ASSUME NEW role, NEW s, NEW n, NEW f, Collects(role, s, n, f), NEW T \in SUBSET (1 .. n),
           T # {}, NEW m, m = Max(T)
    PROVE  f[T] = AddToFragments(role, f[T \ {m}], s[m])
BY DEF Collects

LEMMA CollectsNone ==
    ASSUME NEW role, NEW s, NEW n, NEW f, Collects(role, s, n, f)
    PROVE  f[{}] = <<>>
BY DEF Collects

LEMMA CollectsLonger ==
    ASSUME NEW role, NEW s, NEW t, NEW n \in Nat, \A i \in 1 .. n : s[i] = t[i],
           NEW f, Collects(role, s, n, f)
    PROVE  \E g : Collects(role, t, n + 1, g)
<1> DEFINE z == n + 1
           g == [T \in SUBSET (1 .. z) |->
                    IF z \in T THEN AddToFragments(role, f[T \ {z}], t[z]) ELSE f[T]]
<1>1. ASSUME NEW T \in SUBSET (1 .. z)
      PROVE  g[T] = IF T = {} THEN <<>> ELSE AddToFragments(role, g[T \ {Max(T)}], t[Max(T)])
  <2>1. CASE z \in T
    <3>1. Max(T) = z
      BY <2>1, MaxIs
    <3>2. g[T] = AddToFragments(role, f[T \ {z}], t[z])
      BY <2>1
    <3>3. g[T \ {z}] = f[T \ {z}]
      OBVIOUS
    <3> HIDE DEF g, z
    <3> QED BY <2>1, <3>1, <3>2, <3>3
  <2>2. CASE z \notin T
    <3>1. T \in SUBSET (1 .. n)
      BY <2>2
    <3>2. g[T] = f[T]
      BY <2>2
    <3>3. CASE T = {}
      BY <3>2, <3>3, CollectsNone
    <3>4. CASE T # {}
      <4>1. PICK m : m = Max(T)
        OBVIOUS
      <4>2. f[T] = AddToFragments(role, f[T \ {m}], s[m])
        <5> HIDE DEF g, z
        <5> QED BY <3>1, <3>4, <4>1, CollectsAt
      <4>3. g[T \ {m}] = f[T \ {m}]
        BY <2>2
      <4>4. s[m] = t[m]
        <5>1. ASSUME m \in T PROVE s[m] = t[m]
          BY <3>1, <5>1
        <5>2. m \in T
          <6>1. n \in Nat /\ T \subseteq 1 .. n
            BY <3>1
          <6> QED BY <3>4, <4>1, <6>1, MaxExists
        <5> QED BY <5>1, <5>2
      <4> HIDE DEF g
      <4> QED BY <3>2, <3>4, <4>1, <4>2, <4>3, <4>4
    <3> QED BY <3>3, <3>4
  <2> QED BY <2>1, <2>2
<1>2. g = [T \in SUBSET (1 .. z) |-> g[T]]
  OBVIOUS
<1>3. Collects(role, t, z, g)
  <2> HIDE DEF g, z
  <2> QED BY <1>1, <1>2 DEF Collects
<1> QED BY <1>3

LEMMA CollectsExist ==
    ASSUME NEW role, NEW S, NEW s \in Seq(S)
    PROVE  \E f : Collects(role, s, Len(s), f)
<1> DEFINE T == {t \in Seq(S) : \E f : Collects(role, t, Len(t), f)}
<1>1. <<>> \in T
  <2> DEFINE f == [U \in SUBSET {} |-> <<>>]
  <2>1. 1 .. 0 = {} /\ SUBSET {} = {{}} /\ Len(<<>>) = 0
    BY EmptySeq
  <2>2. Collects(role, <<>>, 0, f)
    BY <2>1 DEF Collects
  <2> HIDE DEF f
  <2> QED BY <2>1, <2>2, EmptySeq
<1>2. ASSUME NEW t \in Seq(S), NEW x \in S, t \in T PROVE Append(t, x) \in T
  <2>1. PICK f : Collects(role, t, Len(t), f)
    BY <1>2
  <2>2. PICK n \in Nat : n = Len(t)
    BY LenProperties
  <2>3. PICK u \in Seq(S) : u = Append(t, x)
    BY AppendProperties
  <2>4. Len(u) = n + 1 /\ \A i \in 1 .. n : t[i] = u[i]
    BY <2>2, <2>3, AppendProperties
  <2>5. \E g : Collects(role, u, n + 1, g)
    BY <2>1, <2>2, <2>4, CollectsLonger
  <2> QED BY <2>3, <2>4, <2>5
<1>3. Seq(S) \subseteq T
  <2> HIDE DEF T
  <2> QED BY <1>1, <1>2, SeqInduction
<1> QED BY <1>3

LEMMA CollectsStep ==
    ASSUME NEW role, NEW s, NEW n \in Nat, NEW f, Collects(role, s, n, f),
           NEW k \in Nat, NEW j \in 1 .. n, j = k + 1
    PROVE  f[1 .. j] = AddToFragments(role, f[1 .. k], s[j])
<1>1. PICK T \in SUBSET (1 .. n) : T = 1 .. j
  OBVIOUS
<1>2. T # {} /\ T \ {j} = 1 .. k
  <2>1. ASSUME NEW i PROVE i \in T \ {j} <=> i \in 1 .. k
    BY <1>1
  <2>2. j \in T
    BY <1>1
  <2> QED BY <2>1, <2>2
<1>3. j = Max(T)
  <2>1. T \subseteq Int /\ j \in T /\ \A y \in T : y <= j
    BY <1>1
  <2> QED BY <2>1, MaxIs
<1>4. f[T] = AddToFragments(role, f[T \ {j}], s[j])
  BY <1>2, <1>3, CollectsAt
<1> QED BY <1>1, <1>2, <1>4

\* Fragments that have all blocks of some content, in their order.
Tells(frs, content) == frs \in Seq(Fragments) /\ Flattened(frs) = content

LEMMA CollectsAll ==
    ASSUME NEW role \in Roles, NEW s \in Seq(AllBlocks), NEW n \in Nat, n = Len(s),
           NEW f, Collects(role, s, n, f)
    PROVE  Tells(f[1 .. n], s)
<1> DEFINE N == {k \in Nat : k <= n => Tells(f[1 .. k], SubSeq(s, 1, k))}
<1>1. 0 \in N
  <2>1. 1 .. 0 = {} /\ SubSeq(s, 1, 0) = <<>>
    OBVIOUS
  <2>2. f[{}] = <<>> /\ <<>> \in Seq(Fragments)
    BY CollectsNone, EmptySeq
  <2>3. Tells(f[1 .. 0], SubSeq(s, 1, 0))
    BY <2>1, <2>2, FlattenedEmpty DEF Tells
  <2> QED BY <2>3
<1>2. ASSUME NEW k \in Nat, k \in N PROVE k + 1 \in N
  <2>1. SUFFICES ASSUME k + 1 <= n PROVE Tells(f[1 .. k + 1], SubSeq(s, 1, k + 1))
    OBVIOUS
  <2>2. PICK j \in 1 .. n : j = k + 1
    BY <2>1
  <2>3. PICK frs \in Seq(Fragments) : frs = f[1 .. k] /\ Flattened(frs) = SubSeq(s, 1, k)
    BY <1>2, <2>1 DEF Tells
  <2>4. PICK b \in AllBlocks : b = s[j]
    BY <2>2, ElementOfSeq
  <2>5. f[1 .. j] = AddToFragments(role, frs, b)
    BY <2>2, <2>3, <2>4, CollectsStep
  <2>6. SubSeq(s, 1, j) = SubSeq(s, 1, k) \o <<b>>
    <3>1. 1 \in 1 .. Len(s) /\ k \in 0 .. Len(s) /\ j \in 1 .. Len(s)
      BY <2>2
    <3> HIDE DEF N
    <3> QED BY <2>2, <2>4, <3>1
  <2>7. AddToFragments(role, frs, b) \in Seq(Fragments)
        /\ Flattened(AddToFragments(role, frs, b)) = Flattened(frs) \o <<b>>
    BY AddedToFragments
  <2>8. Tells(f[1 .. j], SubSeq(s, 1, j))
    BY <2>3, <2>5, <2>6, <2>7 DEF Tells
  <2> QED BY <2>2, <2>8
<1>3. Nat \subseteq N
  <2> HIDE DEF N
  <2> QED BY <1>1, <1>2, SetInduction
<1>4. Tells(f[1 .. n], SubSeq(s, 1, n))
  BY <1>3
<1>5. SubSeq(s, 1, n) = s
  OBVIOUS
<1> QED BY <1>4, <1>5

LEMMA FragmentsTell ==
    ASSUME NEW m \in Messages
    PROVE  Tells(SeparateFragments(m), m.content)
<1> DEFINE s == m.content
           role == m.role
<1>1. s \in Seq(AllBlocks) /\ role \in Roles
  BY DEF Messages
<1>2. CASE Mixed(s)
  <2> DEFINE g == CHOOSE g : Collects(role, s, Len(s), g)
  <2>1. Len(s) \in Nat /\ DOMAIN s = 1 .. Len(s)
    BY <1>1, LenProperties
  <2>2. SeparateFragments(m) = g[1 .. Len(s)]
    BY <1>2, <2>1 DEF SeparateFragments, Mixed, FoldLeft, MapThenFoldSet, Collects
  <2>3. Collects(role, s, Len(s), g)
    BY <1>1, CollectsExist
  <2>4. Tells(g[1 .. Len(s)], s)
    <3> HIDE DEF g, s, role
    <3> QED BY <1>1, <2>1, <2>3, CollectsAll
  <2> QED BY <2>2, <2>4
<1>3. CASE ~Mixed(s)
  <2> DEFINE fr == [role |-> role, texts |-> Filtered(s, TextBlocks),
                    images |-> Filtered(s, ImageBlocks)]
  <2>1. SeparateFragments(m) = <<[role |-> role, texts |-> Selected(s, IsText),
                                  images |-> Selected(s, IsImage)]>>
    BY <1>1, <1>3 DEF SeparateFragments, Mixed
  <2>2. SeparateFragments(m) = <<fr>>
    BY <1>1, <2>1, SelectedBlocks
  <2>3. Filtered(s, TextBlocks) \in Seq(TextBlocks) /\ Filtered(s, ImageBlocks) \in Seq(ImageBlocks)
    BY <1>1, FilteredInto
  <2>4. fr \in Fragments
    BY <1>1, <2>3 DEF Fragments
  <2>5. fr.texts \o fr.images = s
    BY <1>1, <1>3, TextsThenImages
  <2>6. Tells(<<fr>>, s)
    <3> HIDE DEF fr, s, role
    <3>1. <<fr>> \in Seq(Fragments)
      BY <2>4
    <3> QED BY <2>4, <2>5, <3>1, FlattenedOne DEF Tells
  <2> QED BY <2>2, <2>6
<1> QED BY <1>2, <1>3

\* All the messages that Ollama gets.
FragmentsOf == [m \in Messages |-> SeparateFragments(m)]
AllFragments(s) == FlattenSeq(Mapped(FragmentsOf, s))

LEMMA FragmentsTake == Takes(FragmentsOf, Messages, Seq(Fragments))
BY FragmentsTell DEF Takes, FragmentsOf, Tells

LEMMA OllamaMessagesAre ==
    ASSUME NEW payload, payload.input \in Seq(Messages)
    PROVE  OllamaMessages(payload) = AllFragments(payload.input)
<1> DEFINE s == payload.input
<1>1. DOMAIN s = 1 .. Len(s) /\ \A i \in 1 .. Len(s) : s[i] \in Messages
  BY LenProperties, ElementOfSeq
<1>2. [i \in DOMAIN s |-> SeparateFragments(s[i])] = Mapped(FragmentsOf, s)
  BY <1>1 DEF Mapped, FragmentsOf
<1> QED BY <1>2 DEF OllamaMessages, AllFragments

LEMMA FragmentsAppend ==
    ASSUME NEW s \in Seq(Messages), NEW m \in Messages
    PROVE  /\ AllFragments(s) \in Seq(Fragments)
           /\ AllFragments(Append(s, m)) = AllFragments(s) \o SeparateFragments(m)
<1>1. PICK u \in Seq(Messages), o \in Seq(Messages) : u = Append(s, m) /\ o = <<m>> /\ u = s \o o
  <2>1. Append(s, m) \in Seq(Messages) /\ <<m>> \in Seq(Messages) /\ Append(s, m) = s \o <<m>>
    OBVIOUS
  <2> QED BY <2>1
<1>2. ASSUME NEW F, Takes(F, Messages, Seq(Fragments))
      PROVE  /\ Mapped(F, s \o o) = Mapped(F, s) \o Mapped(F, o)
             /\ Mapped(F, s) \in Seq(Seq(Fragments)) /\ Mapped(F, o) \in Seq(Seq(Fragments))
  BY <1>2, MappedConcat, MappedType
<1>3. PICK a \in Seq(Seq(Fragments)), b \in Seq(Seq(Fragments)) :
          a = Mapped(FragmentsOf, s) /\ b = Mapped(FragmentsOf, o)
          /\ Mapped(FragmentsOf, s \o o) = a \o b
  BY <1>2, FragmentsTake
<1>4. FlattenSeq(a \o b) = FlattenSeq(a) \o FlattenSeq(b) /\ FlattenSeq(a) \in Seq(Fragments)
  BY FlattenConcat, FlattenType
<1>5. FlattenSeq(b) = SeparateFragments(m)
  <2>1. Mapped(FragmentsOf, <<m>>) = <<FragmentsOf[m]>>
    BY MappedOne
  <2>2. FragmentsOf[m] = SeparateFragments(m) /\ SeparateFragments(m) \in Seq(Fragments)
    BY FragmentsTell DEF FragmentsOf, Tells
  <2>3. b = <<SeparateFragments(m)>>
    BY <1>1, <1>3, <2>1, <2>2
  <2> QED BY <2>2, <2>3, FlattenOne
<1> QED BY <1>1, <1>3, <1>4, <1>5 DEF AllFragments

LEMMA FragmentsEmpty == AllFragments(<<>>) = <<>>
BY MappedEmpty, FlattenEmpty DEF AllFragments

\* "Preserve the submitted order": Ollama gets the blocks of the messages in their
\* order, none lost and none twice.
LEMMA AllFragmentsTell ==
    ASSUME NEW s \in Seq(Messages)
    PROVE  Tells(AllFragments(s), Blocks(s))
<1> DEFINE T == {t \in Seq(Messages) : Tells(AllFragments(t), Blocks(t))}
<1>1. <<>> \in T
  <2>1. <<>> \in Seq(Fragments) /\ <<>> \in Seq(Messages)
    BY EmptySeq
  <2>2. Tells(AllFragments(<<>>), Blocks(<<>>))
    BY <2>1, FragmentsEmpty, FlattenedEmpty, BlocksEmpty DEF Tells
  <2> QED BY <2>1, <2>2
<1>2. ASSUME NEW t \in Seq(Messages), NEW m \in Messages, t \in T PROVE Append(t, m) \in T
  <2>1. PICK a \in Seq(Fragments) : a = AllFragments(t) /\ Flattened(a) = Blocks(t)
    BY <1>2 DEF Tells
  <2>2. PICK b \in Seq(Fragments) : b = SeparateFragments(m) /\ Flattened(b) = m.content
    BY FragmentsTell DEF Tells
  <2>3. AllFragments(Append(t, m)) = a \o b /\ Blocks(Append(t, m)) = Blocks(t) \o m.content
    BY <2>1, <2>2, FragmentsAppend, BlocksAppend
  <2>4. Flattened(a \o b) = Flattened(a) \o Flattened(b) /\ a \o b \in Seq(Fragments)
    BY FlattenedConcat, ConcatProperties
  <2>5. Tells(AllFragments(Append(t, m)), Blocks(Append(t, m)))
    BY <2>1, <2>2, <2>3, <2>4 DEF Tells
  <2> QED BY <2>5, AppendProperties
<1>3. Seq(Messages) \subseteq T
  <2> HIDE DEF T
  <2> QED BY <1>1, <1>2, SeqInduction
<1> QED BY <1>3

\* If no fragment has an image, there is none in what they tell.
LEMMA NoImageTold ==
    ASSUME NEW frs \in Seq(Fragments), \A i \in 1 .. Len(frs) : frs[i].images = <<>>
    PROVE  Filtered(Flattened(frs), ImageBlocks) = <<>>
<1>1. /\ Len(frs) \in Nat /\ DOMAIN frs = 1 .. Len(frs)
      /\ \A i \in 1 .. Len(frs) : frs[i] \in Fragments /\ frs[i].texts \in Seq(TextBlocks)
  <2>1. \A i \in 1 .. Len(frs) : frs[i] \in Fragments
    BY ElementOfSeq
  <2>2. \A fr \in Fragments : fr.texts \in Seq(TextBlocks)
    BY DEF Fragments
  <2> QED BY <2>1, <2>2, LenProperties
<1>2. ASSUME NEW i \in 1 .. Len(frs) PROVE Mapped(Parts, frs)[i] \in Seq(TextBlocks)
  <2>1. frs[i].texts \o frs[i].images = frs[i].texts
    BY <1>1, ConcatEmptySeq
  <2> QED BY <1>1, <2>1 DEF Mapped, Parts
<1>3. Mapped(Parts, frs) \in Seq(Seq(TextBlocks))
  <2>1. Mapped(Parts, frs) = [i \in 1 .. Len(frs) |-> Mapped(Parts, frs)[i]]
    BY <1>1 DEF Mapped
  <2> QED BY <1>1, <1>2, <2>1
<1>4. Flattened(frs) \in Seq(TextBlocks)
  BY <1>3, FlattenedIs, FlattenType
<1>5. \A i \in 1 .. Len(Flattened(frs)) : Flattened(frs)[i] \notin ImageBlocks
  BY <1>4, ElementOfSeq DEF TextBlocks, ImageBlocks
<1> QED BY <1>4, <1>5, FilteredNone

\* Ollama gets images if there are any.
LEMMA ImagesReachOllama ==
    ASSUME NEW payload, payload.input \in Seq(Messages), ImagesOf(payload.input) # <<>>
    PROVE  \E message \in ToSet(OllamaMessages(payload)) : message.images # <<>>
<1>1. PICK frs \in Seq(Fragments) : frs = OllamaMessages(payload) /\ Flattened(frs) = Blocks(payload.input)
  BY OllamaMessagesAre, AllFragmentsTell DEF Tells
<1>2. PICK i \in 1 .. Len(frs) : frs[i].images # <<>>
  BY <1>1, NoImageTold, ImagesOfIs
<1>3. frs[i] \in ToSet(frs)
  BY LenProperties DEF ToSet
<1> QED BY <1>1, <1>2, <1>3

-----------------------------------------------------------------------------
(***************************************************************************)
(* The messages that Granite serves under the limits lim, in any number    *)
(* that fits: they are spoken, or they are a user's and have sound images. *)
(***************************************************************************)
ServedRoles == {"user", "assistant", "system"}
SoundImages(lim) == {b \in ImageBlocks : SoundBlock(b, lim)}
ServedBlocks(lim) == WrittenBlocks \cup SoundImages(lim)
Spoken ==
    {m \in Messages : m.role \in ServedRoles /\ m.content # <<>> /\ m.content \in Seq(WrittenBlocks)}
Pictured(lim) ==
    {m \in Messages : m.role = "user" /\ m.content # <<>> /\ m.content \in Seq(ServedBlocks(lim))}
Servable(lim) == Spoken \cup Pictured(lim)

LEMMA ServableIs ==
    ASSUME NEW lim, NEW m \in Servable(lim)
    PROVE  /\ m \in Messages /\ m.role \in ServedRoles /\ m.content # <<>>
           /\ m.content \in Seq(ServedBlocks(lim))
           /\ m \notin Spoken => m.role = "user"
<1>1. CASE m \in Spoken
  <2>1. m \in Messages /\ m.role \in ServedRoles /\ m.content # <<>> /\ m.content \in Seq(WrittenBlocks)
    BY <1>1 DEF Spoken
  <2>2. WrittenBlocks \subseteq ServedBlocks(lim)
    BY DEF ServedBlocks
  <2>3. m.content \in Seq(ServedBlocks(lim))
    BY <2>1, <2>2, SeqGrows
  <2> QED BY <1>1, <2>1, <2>3
<1>2. CASE m \in Pictured(lim)
  BY <1>2 DEF Pictured, ServedRoles
<1> QED BY <1>1, <1>2 DEF Servable

LEMMA ServableSeq ==
    ASSUME NEW lim, NEW s \in Seq(Servable(lim))
    PROVE  s \in Seq(Messages) /\ Blocks(s) \in Seq(ServedBlocks(lim))
           /\ \A i \in 1 .. Len(s) : s[i] \in Servable(lim)
<1>1. Servable(lim) \in SUBSET Messages /\ \A m \in Servable(lim) : m.content \in Seq(ServedBlocks(lim))
  BY ServableIs
<1> QED BY <1>1, BlocksOf, ElementOfSeq

LEMMA SpokenSeq ==
    ASSUME NEW s \in Seq(Spoken), NEW lim
    PROVE  s \in Seq(Messages) /\ s \in Seq(Servable(lim)) /\ ImagesOf(s) = <<>>
<1>1. Spoken \in SUBSET Messages /\ \A m \in Spoken : m.content \in Seq(WrittenBlocks)
  BY DEF Spoken
<1>2. s \in Seq(Messages) /\ Blocks(s) \in Seq(WrittenBlocks)
  BY <1>1, BlocksOf
<1>3. Spoken \subseteq Servable(lim)
  BY DEF Servable
<1>4. s \in Seq(Servable(lim))
  BY <1>3, SeqGrows
<1>5. \A i \in 1 .. Len(Blocks(s)) : Blocks(s)[i] \notin ImageBlocks
  BY <1>2, ElementOfSeq DEF WrittenBlocks, TextBlocks, ImageBlocks
<1>6. Filtered(Blocks(s), ImageBlocks) = <<>>
  BY <1>2, <1>5, FilteredNone
<1> QED BY <1>2, <1>4, <1>6, ImagesOfIs

\* What is left of the limits by the history is not more than the limits have.
Within(s, lim) ==
    /\ Sum(s, "images") <= lim.images /\ Sum(s, "bytes") <= lim.totalBytes
    /\ Sum(s, "pixels") <= lim.totalPixels

LEMMA SetOfSeq ==
    ASSUME NEW S, NEW s \in Seq(S)
    PROVE  ToSet(s) \subseteq S
BY LenProperties, ElementOfSeq DEF ToSet

\* extract_messages raises nothing for servable messages that fit together, if
\* images are on or none of them has any.
LEMMA ServableIsServed ==
    ASSUME NEW lim, NEW s \in Seq(Servable(lim)), s # <<>>, lim.enabled \/ s \in Seq(Spoken),
           Within(s, lim)
    PROVE  ServesInput(s, lim)
<1>1. s \in Seq(Messages) /\ Blocks(s) \in Seq(ServedBlocks(lim))
  BY ServableSeq
<1>2. ASSUME NEW m \in ToSet(s)
      PROVE  /\ m.role \in {"user", "assistant", "system"} /\ m.content # <<>>
             /\ ImagesOf(<<m>>) # <<>> => lim.enabled /\ m.role = "user"
  <2>1. m \in Servable(lim)
    BY SetOfSeq
  <2>2. m.role \in ServedRoles /\ m.content # <<>> /\ (m \notin Spoken => m.role = "user")
    BY <2>1, ServableIs
  <2>3. ASSUME m \in Spoken PROVE ImagesOf(<<m>>) = <<>>
    <3>1. <<m>> \in Seq(Spoken)
      BY <2>3
    <3> QED BY <3>1, SpokenSeq
  <2>4. lim.enabled \/ m \in Spoken
    BY SetOfSeq
  <2> QED BY <2>2, <2>3, <2>4 DEF ServedRoles
<1>3. ASSUME NEW text \in ToSet(TextsOf(s)) PROVE text.chars > 0
  <2>1. ServedBlocks(lim) \cap TextBlocks \subseteq WrittenBlocks
    BY DEF ServedBlocks, SoundImages, TextBlocks, ImageBlocks
  <2>2. TextsOf(s) \in Seq(WrittenBlocks)
    BY <1>1, <2>1, FilteredInto, ImagesOfIs
  <2>3. text \in WrittenBlocks
    BY <2>2, SetOfSeq
  <2> QED BY <2>3 DEF WrittenBlocks
<1>4. ASSUME NEW image \in ToSet(ImagesOf(s)) PROVE SoundBlock(image, lim)
  <2>1. ServedBlocks(lim) \cap ImageBlocks \subseteq SoundImages(lim)
    BY DEF ServedBlocks, WrittenBlocks, TextBlocks, ImageBlocks
  <2>2. ImagesOf(s) \in Seq(SoundImages(lim))
    BY <1>1, <2>1, FilteredInto, ImagesOfIs
  <2>3. image \in SoundImages(lim)
    BY <2>2, SetOfSeq
  <2> QED BY <2>3 DEF SoundImages
<1>5. /\ Len(ImagesOf(s)) <= lim.images /\ TotalOf(BytesOf, ImagesOf(s)) <= lim.totalBytes
      /\ TotalOf(PixelsOf, ImagesOf(s)) <= lim.totalPixels
  <2>1. /\ Sum(s, "images") = Taken(ImagesOf(s))["images"]
        /\ Sum(s, "bytes") = Taken(ImagesOf(s))["bytes"]
        /\ Sum(s, "pixels") = Taken(ImagesOf(s))["pixels"]
    BY <1>1, SumIsTaken DEF ImageFields
  <2> QED BY <2>1 DEF Within, Taken
<1> QED BY <1>2, <1>3, <1>4, <1>5 DEF ServesInput

-----------------------------------------------------------------------------
(***************************************************************************)
(* The new messages are servable: they are the input, with other roles.    *)
(***************************************************************************)
Input(ask) == ask.input \in Seq(Messages)

LEMMA MessageOf ==
    ASSUME NEW ask, Input(ask), NEW i \in 1 .. Len(ask.input)
    PROVE  /\ ask.input \in Seq(Messages) /\ ask.input[i] \in Messages
           /\ ask.input[i].content \in Seq(AllBlocks)
<1>1. ask.input \in Seq(Messages)
  BY DEF Input
<1>2. ask.input[i] \in Messages
  BY <1>1, ElementOfSeq
<1> QED BY <1>1, <1>2 DEF Messages

LEMMA InputBlocks ==
    ASSUME NEW ask, Input(ask), NEW i \in 1 .. Len(ask.input), NEW j \in 1 .. Len(ask.input[i].content),
           NEW x, x = ask.input[i].content[j]
    PROVE  /\ x \in AllBlocks
           /\ x \in TextBlocks => x \in ToSet(TextsOf(ask.input))
           /\ x \in ImageBlocks => x \in ToSet(ImagesOf(ask.input)) /\ ImagesOf(<<ask.input[i]>>) # <<>>
<1> DEFINE s == ask.input
<1>1. s \in Seq(Messages) /\ s[i] \in Messages /\ s[i].content \in Seq(AllBlocks)
  BY MessageOf
<1>2. x \in AllBlocks
  BY <1>1, ElementOfSeq
<1>3. PICK k \in 1 .. Len(Blocks(s)) : Blocks(s)[k] = x
  BY <1>1, BlocksHaveAll DEF HasAll, Has
<1>4. Blocks(s) \in Seq(AllBlocks)
  BY <1>1, BlocksIs
<1>5. ASSUME NEW G, x \in G PROVE x \in ToSet(Filtered(Blocks(s), G))
  <2>1. PICK l \in 1 .. Len(Filtered(Blocks(s), G)) : Filtered(Blocks(s), G)[l] = Blocks(s)[k]
    <3>1. PICK b \in Seq(AllBlocks) : b = Blocks(s)
      BY <1>4
    <3>2. k \in 1 .. Len(b) /\ b[k] \in G
      BY <1>3, <1>5, <3>1
    <3>3. \E l \in 1 .. Len(Filtered(b, G)) : Filtered(b, G)[l] = b[k]
      BY <3>2, FilteredSome
    <3> QED BY <3>1, <3>3
  <2>2. Filtered(Blocks(s), G) \in Seq(AllBlocks)
    BY <1>4, FilteredInto
  <2>3. DOMAIN Filtered(Blocks(s), G) = 1 .. Len(Filtered(Blocks(s), G))
    BY <2>2, LenProperties
  <2> QED BY <1>3, <2>1, <2>3 DEF ToSet
<1>6. ASSUME x \in ImageBlocks PROVE ImagesOf(<<s[i]>>) # <<>>
  <2>1. PICK content \in Seq(AllBlocks) : content = s[i].content
    BY <1>1
  <2>2. PICK l \in 1 .. Len(Filtered(content, ImageBlocks)) : Filtered(content, ImageBlocks)[l] = content[j]
    BY <1>6, <2>1, FilteredSome
  <2>3. Filtered(content, ImageBlocks) # <<>>
    BY <2>2
  <2> QED BY <1>1, <2>1, <2>3, ImagesOfOne
<1> QED BY <1>1, <1>2, <1>5, <1>6, ImagesOfIs

LEMMA InputUsable ==
    ASSUME NEW ask, Input(ask), NEW lim, ValidInput(ask, lim), NEW i \in 1 .. Len(ask.input)
    PROVE  ask.input[i].content \in Seq(UsableBlocks)
<1>1. ask.input[i].content \in Seq(AllBlocks)
  BY MessageOf
<1>2. ASSUME NEW j \in 1 .. Len(ask.input[i].content) PROVE ask.input[i].content[j] \in UsableBlocks
  <2>1. PICK x : x = ask.input[i].content[j]
    OBVIOUS
  <2>2. x \in AllBlocks /\ (x \in TextBlocks => x \in ToSet(TextsOf(ask.input)))
    BY <2>1, InputBlocks
  <2>3. x \in TextBlocks => x.chars > 0
    BY <2>2 DEF ValidInput
  <2> QED BY <2>1, <2>2, <2>3 DEF UsableBlocks, WrittenBlocks, AllBlocks
<1> QED BY <1>1, <1>2

RoleFor(role) == IF role = "developer" THEN "system" ELSE role

LEMMA CurrentIs ==
    ASSUME NEW ask, Input(ask), NEW lim, ValidInput(ask, lim), NEW c, c = CurrentMessages(ask.input)
    PROVE  /\ c \in Seq(Messages) /\ Len(c) = Len(ask.input) /\ c # <<>>
           /\ \A i \in 1 .. Len(c) : /\ c[i].content = ask.input[i].content
                                     /\ c[i].role = RoleFor(ask.input[i].role)
           /\ ImagesOf(c) = ImagesOf(ask.input)
<1>1. PICK s \in Seq(Messages) : s = ask.input
  BY DEF Input
<1>2. PICK n \in Seq(Messages) : /\ n = Mapped(Normal, s) /\ Len(n) = Len(s)
                                 /\ \A i \in 1 .. Len(s) : n[i] = Normal[s[i]]
  BY NormalTakes, MappedType, CurrentMessagesIs
<1>3. ASSUME NEW i \in 1 .. Len(s)
      PROVE  n[i].content = s[i].content /\ n[i].role = RoleFor(s[i].role)
  <2>1. s[i] \in Messages /\ s[i].content \in Seq(UsableBlocks)
    BY <1>1, ElementOfSeq, InputUsable
  <2>2. Filtered(s[i].content, UsableBlocks) = s[i].content
    BY <2>1, ElementOfSeq, FilteredAll
  <2> QED BY <1>2, <2>1, <2>2 DEF Normal, RoleFor
<1>4. s # <<>> /\ \A i \in 1 .. Len(s) : s[i].content # <<>>
  <2>1. \A i \in 1 .. Len(s) : s[i] \in ToSet(s)
    BY LenProperties DEF ToSet
  <2> QED BY <1>1, <2>1 DEF ValidInput
<1>5. \A i \in 1 .. Len(n) : n[i] \in Contentful
  BY <1>2, <1>3, <1>4, ElementOfSeq DEF Contentful
<1>6. Filtered(n, Contentful) = n
  BY <1>5, FilteredAll
<1>7. c = n
  BY <1>1, <1>2, <1>6, CurrentMessagesIs
<1>8. Mapped(ContentOf, n) = Mapped(ContentOf, s)
  <2>1. /\ DOMAIN n = 1 .. Len(s) /\ DOMAIN s = 1 .. Len(s)
        /\ \A i \in 1 .. Len(s) : n[i] \in Messages /\ s[i] \in Messages
    BY <1>2, LenProperties, ElementOfSeq
  <2>2. \A i \in 1 .. Len(s) : ContentOf[n[i]] = ContentOf[s[i]]
    BY <1>3, <2>1 DEF ContentOf
  <2> QED BY <2>1, <2>2 DEF Mapped
<1>9. ImagesOf(n) = ImagesOf(s)
  BY <1>8, BlocksIs, ImagesOfIs
<1>10. n # <<>>
  BY <1>2, <1>4, EmptySeq, LenProperties
<1> QED BY <1>1, <1>2, <1>3, <1>7, <1>9, <1>10

LEMMA CurrentIsServable ==
    ASSUME NEW ask, Input(ask), NEW lim \in LimitSets, ValidInput(ask, lim),
           NEW c, c = CurrentMessages(ask.input)
    PROVE  c \in Seq(Servable(lim)) /\ (lim.enabled \/ c \in Seq(Spoken))
<1>1. /\ c \in Seq(Messages) /\ Len(c) = Len(ask.input)
      /\ \A i \in 1 .. Len(c) : /\ c[i].content = ask.input[i].content
                                /\ c[i].role = RoleFor(ask.input[i].role)
  BY CurrentIs
<1>2. ASSUME NEW i \in 1 .. Len(c)
      PROVE  c[i] \in Servable(lim) /\ (lim.enabled \/ c[i] \in Spoken)
  <2>1. PICK m \in Messages : m = ask.input[i] /\ i \in 1 .. Len(ask.input)
    BY <1>1, ElementOfSeq DEF Input
  <2>2. m \in ToSet(ask.input)
    BY <2>1, LenProperties DEF ToSet, Input
  <2>3. c[i] \in Messages /\ c[i].content = m.content /\ c[i].role = RoleFor(m.role)
    BY <1>1, <2>1, ElementOfSeq
  <2>4. m.content # <<>> /\ m.content \in Seq(UsableBlocks)
    BY <2>1, <2>2, InputUsable DEF ValidInput
  <2>5. c[i].role \in ServedRoles /\ (m.role = "user" => c[i].role = "user")
    BY <2>2, <2>3 DEF ValidInput, RoleFor, ServedRoles
  <2>6. ASSUME NEW j \in 1 .. Len(m.content), m.content[j] \notin WrittenBlocks
        PROVE  lim.enabled /\ m.role = "user" /\ m.content[j] \in SoundImages(lim)
    <3>1. PICK x : x = m.content[j] /\ x \in ImageBlocks
      BY <2>4, <2>6, ElementOfSeq DEF UsableBlocks
    <3>2. x \in ToSet(ImagesOf(ask.input)) /\ ImagesOf(<<ask.input[i]>>) # <<>>
      BY <2>1, <3>1, InputBlocks
    <3>3. lim.enabled /\ ValidImages(ask.input, lim)
      <4>1. ImagesOf(ask.input) # <<>>
        BY <3>2 DEF ToSet
      <4>2. lim.enabled \in BOOLEAN
        BY DEF LimitSets
      <4> QED BY <4>1, <4>2 DEF ValidInput
    <3>4. AcceptableImage(x, lim) /\ ask.input[i].role = "user"
      <4>1. i \in DOMAIN ask.input
        BY <2>1, LenProperties DEF Input
      <4> QED BY <3>2, <3>3, <4>1 DEF ValidImages
    <3>5. x \in SoundImages(lim)
      BY <3>1, <3>4 DEF SoundImages, SoundBlock, AcceptableImage
    <3> QED BY <2>1, <3>1, <3>3, <3>4, <3>5
  <2>7. CASE \A j \in 1 .. Len(m.content) : m.content[j] \in WrittenBlocks
    <3>1. m.content \in Seq(WrittenBlocks)
      BY <2>4, <2>7
    <3> QED BY <2>3, <2>4, <2>5, <3>1 DEF Servable, Spoken
  <2>8. CASE \E j \in 1 .. Len(m.content) : m.content[j] \notin WrittenBlocks
    <3>1. m.role = "user" /\ lim.enabled
      BY <2>6, <2>8
    <3>2. \A j \in 1 .. Len(m.content) : m.content[j] \in ServedBlocks(lim)
      BY <2>6 DEF ServedBlocks
    <3>3. m.content \in Seq(ServedBlocks(lim))
      BY <2>4, <3>2
    <3> QED BY <2>3, <2>4, <2>5, <3>1, <3>3 DEF Servable, Pictured
  <2> QED BY <2>7, <2>8
<1>3. c \in Seq(Servable(lim))
  BY <1>1, <1>2
<1>4. lim.enabled \/ c \in Seq(Spoken)
  BY <1>1, <1>2
<1> QED BY <1>3, <1>4

\* The new messages alone are within the limits.
LEMMA CurrentFits ==
    ASSUME NEW ask, Input(ask), NEW lim \in LimitSets, ValidInput(ask, lim),
           NEW c, c = CurrentMessages(ask.input)
    PROVE  c \in Seq(Messages) /\ Within(c, lim)
<1>1. c \in Seq(Messages) /\ ImagesOf(c) = ImagesOf(ask.input)
  BY CurrentIs
<1>2. /\ Sum(c, "images") = Taken(ImagesOf(ask.input))["images"]
      /\ Sum(c, "bytes") = Taken(ImagesOf(ask.input))["bytes"]
      /\ Sum(c, "pixels") = Taken(ImagesOf(ask.input))["pixels"]
  BY <1>1, SumIsTaken DEF ImageFields
<1>3. CASE lim.enabled
  <2>1. ValidImages(ask.input, lim)
    BY <1>3 DEF ValidInput
  <2> QED BY <1>1, <1>2, <2>1 DEF ValidImages, Within, Taken
<1>4. CASE ~lim.enabled
  <2>1. ImagesOf(ask.input) = <<>>
    BY <1>4 DEF ValidInput
  <2>2. Sum(c, "images") = 0 /\ Sum(c, "bytes") = 0 /\ Sum(c, "pixels") = 0
    BY <1>2, <2>1, TakenEmpty DEF ImageFields
  <2>3. lim.images \in Nat /\ lim.totalBytes \in Nat /\ lim.totalPixels \in Nat
    BY DEF LimitSets
  <2> QED BY <1>1, <2>2, <2>3 DEF Within
<1> QED BY <1>3, <1>4

-----------------------------------------------------------------------------
(***************************************************************************)
(* The history is servable, if what was read is, and so is the payload.    *)
(***************************************************************************)
LEMMA StrippedIsSpoken ==
    ASSUME NEW lim, NEW s \in Seq(Servable(lim))
    PROVE  WithoutImages(s) \in Seq(Spoken)
<1> DEFINE Stripable ==
               {m \in Messages : m.role \in ServedRoles /\ m.content \in Seq(WrittenBlocks)}
<1>1. ASSUME NEW m \in Servable(lim) PROVE Stripped[m] \in Stripable
  <2>1. m \in Messages /\ m.role \in ServedRoles /\ m.content \in Seq(ServedBlocks(lim))
    BY ServableIs
  <2>2. ServedBlocks(lim) \cap TextBlocks \subseteq WrittenBlocks
    BY DEF ServedBlocks, SoundImages, TextBlocks, ImageBlocks
  <2>3. Filtered(m.content, TextBlocks) \in Seq(WrittenBlocks)
    BY <2>1, <2>2, FilteredInto
  <2>4. Stripped[m] \in Messages
    BY <2>1, StrippedTakes DEF Takes
  <2> QED BY <2>1, <2>3, <2>4 DEF Stripped
<1>2. Takes(Stripped, Servable(lim), Stripable)
  BY <1>1 DEF Takes
<1>3. Mapped(Stripped, s) \in Seq(Stripable)
  <2>1. ASSUME NEW F, Takes(F, Servable(lim), Stripable) PROVE Mapped(F, s) \in Seq(Stripable)
    <3> HIDE DEF Stripable
    <3> QED BY <2>1, MappedType
  <2> HIDE DEF Stripable
  <2> QED BY <1>2, <2>1
<1>4. Stripable \cap Contentful \subseteq Spoken
  BY DEF Contentful, Spoken
<1>5. Filtered(Mapped(Stripped, s), Contentful) \in Seq(Spoken)
  <2> HIDE DEF Stripable
  <2> QED BY <1>3, <1>4, FilteredInto
<1> QED BY <1>5, ServableSeq, WithoutImagesIs

LEMMA EndIsFrom ==
    ASSUME NEW S, NEW h \in Seq(S), NEW left, NEW kept, Longest(h, left, kept)
    PROVE  kept \in Seq(S) /\ FitsTogether(kept, left)
<1>1. PICK k \in 0 .. Len(h) : kept = End(h, k) /\ FitsTogether(End(h, k), left)
  BY DEF Longest
<1> QED BY <1>1, EndType

Kept(kept, lim) == kept \in Seq(Servable(lim)) /\ (lim.enabled \/ kept \in Seq(Spoken))

LEMMA KeptIsServable ==
    ASSUME NEW lim \in LimitSets, NEW past \in Seq(Servable(lim)), NEW c \in Seq(Messages),
           NEW n \in Nat, NEW kept, kept = BoundedHistory(past, c, n, lim)
    PROVE  Kept(kept, lim)
<1>1. past \in Seq(Messages)
  BY ServableSeq
<1>2. Longest(History(past, lim), LeftBy(c, n, lim), kept)
  BY <1>1, BoundedHistoryIs
<1>3. CASE lim.enabled
  <2>1. Longest(past, LeftBy(c, n, lim), kept)
    BY <1>2, <1>3 DEF History
  <2> QED BY <1>3, <2>1, EndIsFrom DEF Kept
<1>4. CASE ~lim.enabled
  <2>1. PICK h \in Seq(Spoken) : h = WithoutImages(past)
    BY StrippedIsSpoken
  <2>2. Longest(h, LeftBy(c, n, lim), kept)
    BY <1>2, <1>4, <2>1 DEF History
  <2>3. kept \in Seq(Spoken)
    BY <2>2, EndIsFrom
  <2> QED BY <2>3, SpokenSeq DEF Kept
<1> QED BY <1>3, <1>4

\* What is left by the new messages is not exceeded by what is kept.
LEMMA KeptFits ==
    ASSUME NEW lim \in LimitSets, NEW c \in Seq(Messages), Within(c, lim), NEW n \in Nat,
           NEW kept \in Seq(Messages), FitsTogether(kept, LeftBy(c, n, lim))
    PROVE  /\ Sum(kept, "images") + Sum(c, "images") <= lim.images
           /\ Sum(kept, "bytes") + Sum(c, "bytes") <= lim.totalBytes
           /\ Sum(kept, "pixels") + Sum(c, "pixels") <= lim.totalPixels
<1> DEFINE left == LeftBy(c, n, lim)
<1>1. /\ Sum(kept, "images") <= left["images"] /\ Sum(kept, "bytes") <= left["bytes"]
      /\ Sum(kept, "pixels") <= left["pixels"]
  BY FitsTogetherIs DEF Fields
<1>2. /\ left.images = AtLeastZero(lim.images - Sum(c, "images"))
      /\ left.bytes = AtLeastZero(lim.totalBytes - Sum(c, "bytes"))
      /\ left.pixels = AtLeastZero(lim.totalPixels - Sum(c, "pixels"))
  BY LeftByType
<1> HIDE DEF left
<1>3. ASSUME NEW a \in Nat, NEW b \in Nat, NEW l \in Nat, b <= l, a <= AtLeastZero(l - b)
      PROVE  a + b <= l
  BY <1>3 DEF AtLeastZero
<1>4. /\ Sum(kept, "images") \in Nat /\ Sum(kept, "bytes") \in Nat /\ Sum(kept, "pixels") \in Nat
      /\ Sum(c, "images") \in Nat /\ Sum(c, "bytes") \in Nat /\ Sum(c, "pixels") \in Nat
  BY SumType DEF Fields
<1>5. lim.images \in Nat /\ lim.totalBytes \in Nat /\ lim.totalPixels \in Nat
  BY DEF LimitSets
<1>6. Sum(kept, "images") + Sum(c, "images") <= lim.images
  BY <1>1, <1>2, <1>3, <1>4, <1>5 DEF Within
<1>7. Sum(kept, "bytes") + Sum(c, "bytes") <= lim.totalBytes
  BY <1>1, <1>2, <1>3, <1>4, <1>5 DEF Within
<1>8. Sum(kept, "pixels") + Sum(c, "pixels") <= lim.totalPixels
  BY <1>1, <1>2, <1>3, <1>4, <1>5 DEF Within
<1> QED BY <1>6, <1>7, <1>8

LEMMA InstructedIsSpoken ==
    ASSUME NEW ask \in AskTypes
    PROVE  Instructed(ask) \in Seq(Spoken)
<1>1. CASE ask.instructions = 0
  BY <1>1, EmptySeq DEF Instructed
<1>2. CASE ask.instructions # 0
  <2>1. ask.instructions \in Nat /\ ask.instructions > 0
    BY <1>2 DEF AskTypes
  <2>2. PICK t : t = Text(ask.instructions) /\ t \in WrittenBlocks /\ t \in AllBlocks
    BY <2>1, TextIs
  <2>3. <<t>> \in Seq(WrittenBlocks) /\ <<t>> \in Seq(AllBlocks) /\ <<t>> # <<>>
    BY <2>2
  <2>4. [role |-> "system", content |-> <<t>>] \in Spoken
    BY <2>3 DEF Spoken, Messages, Roles, ServedRoles
  <2>5. Instructed(ask) = <<[role |-> "system", content |-> <<t>>]>>
    BY <1>2, <2>2 DEF Instructed
  <2> QED BY <2>4, <2>5
<1> QED BY <1>1, <1>2

LEMMA SpokenTakesNothing ==
    ASSUME NEW s \in Seq(Spoken), NEW field \in ImageFields
    PROVE  Sum(s, field) = 0
BY SpokenSeq, SumIsTaken, TakenEmpty

Whole(ask, kept) == (Instructed(ask) \o kept) \o CurrentMessages(ask.input)

LEMMA WholeParts ==
    ASSUME NEW ask \in AskTypes, NEW lim \in LimitSets, ValidInput(ask, lim),
           NEW kept, Kept(kept, lim)
    PROVE  \E a \in Seq(Servable(lim)), b \in Seq(Servable(lim)), c \in Seq(Servable(lim)) :
              /\ a = Instructed(ask) /\ b = kept /\ c = CurrentMessages(ask.input) /\ c # <<>>
              /\ a \in Seq(Spoken)
              /\ lim.enabled \/ (b \in Seq(Spoken) /\ c \in Seq(Spoken))
<1>1. Input(ask)
  BY DEF Input, AskTypes
<1>2. Instructed(ask) \in Seq(Servable(lim)) /\ Instructed(ask) \in Seq(Spoken)
  BY InstructedIsSpoken, SpokenSeq
<1>3. /\ CurrentMessages(ask.input) \in Seq(Servable(lim)) /\ CurrentMessages(ask.input) # <<>>
      /\ lim.enabled \/ CurrentMessages(ask.input) \in Seq(Spoken)
  BY <1>1, CurrentIs, CurrentIsServable
<1> QED BY <1>2, <1>3 DEF Kept

LEMMA WholeIsServable ==
    ASSUME NEW ask \in AskTypes, NEW lim \in LimitSets, ValidInput(ask, lim),
           NEW kept, Kept(kept, lim)
    PROVE  /\ Whole(ask, kept) \in Seq(Servable(lim)) /\ Whole(ask, kept) # <<>>
           /\ lim.enabled \/ Whole(ask, kept) \in Seq(Spoken)
<1>1. PICK a \in Seq(Servable(lim)), b \in Seq(Servable(lim)), c \in Seq(Servable(lim)) :
              /\ a = Instructed(ask) /\ b = kept /\ c = CurrentMessages(ask.input) /\ c # <<>>
              /\ a \in Seq(Spoken)
              /\ lim.enabled \/ (b \in Seq(Spoken) /\ c \in Seq(Spoken))
  BY WholeParts
<1>2. Whole(ask, kept) = (a \o b) \o c
  BY <1>1 DEF Whole
<1>3. a \o b \in Seq(Servable(lim)) /\ (a \o b) \o c \in Seq(Servable(lim))
  BY ConcatProperties
<1>4. (a \o b) \o c # <<>>
  BY <1>1, <1>3
<1>5. ASSUME ~lim.enabled PROVE (a \o b) \o c \in Seq(Spoken)
  BY <1>1, <1>5, ConcatProperties
<1> QED BY <1>2, <1>3, <1>4, <1>5

LEMMA WholeFits ==
    ASSUME NEW ask \in AskTypes, NEW lim \in LimitSets, ValidInput(ask, lim),
           NEW kept, Kept(kept, lim), NEW n \in Nat,
           FitsTogether(kept, LeftBy(CurrentMessages(ask.input), n, lim))
    PROVE  Within(Whole(ask, kept), lim)
<1>1. PICK a \in Seq(Servable(lim)), b \in Seq(Servable(lim)), c \in Seq(Servable(lim)) :
              /\ a = Instructed(ask) /\ b = kept /\ c = CurrentMessages(ask.input) /\ c # <<>>
              /\ a \in Seq(Spoken)
              /\ lim.enabled \/ (b \in Seq(Spoken) /\ c \in Seq(Spoken))
  BY WholeParts
<1>2. a \in Seq(Messages) /\ b \in Seq(Messages) /\ c \in Seq(Messages) /\ a \o b \in Seq(Messages)
  BY ServableSeq, ConcatProperties
<1>3. ASSUME NEW field \in ImageFields
      PROVE  Sum((a \o b) \o c, field) = Sum(b, field) + Sum(c, field)
  <2>1. field \in Fields
    BY DEF Fields, ImageFields
  <2>2. Sum((a \o b) \o c, field) = Sum(a \o b, field) + Sum(c, field)
    BY <1>2, <2>1, SumConcat
  <2>3. Sum(a \o b, field) = Sum(a, field) + Sum(b, field)
    BY <1>2, <2>1, SumConcat
  <2>4. Sum(a, field) = 0 /\ Sum(b, field) \in Nat
    BY <1>1, <1>2, <2>1, SpokenTakesNothing, SumType
  <2> QED BY <2>2, <2>3, <2>4
<1>4. Within(c, lim)
  <2>1. Input(ask)
    BY DEF Input, AskTypes
  <2> QED BY <1>1, <2>1, CurrentFits
<1>5. /\ Sum(b, "images") + Sum(c, "images") <= lim.images
      /\ Sum(b, "bytes") + Sum(c, "bytes") <= lim.totalBytes
      /\ Sum(b, "pixels") + Sum(c, "pixels") <= lim.totalPixels
  BY <1>1, <1>2, <1>4, KeptFits
<1>6. Within((a \o b) \o c, lim)
  BY <1>3, <1>5 DEF Within, ImageFields
<1> QED BY <1>1, <1>6 DEF Whole

\* extract_generation_options raises nothing: the limit of the tokens is that of an
\* input with images or without, for both services.
LEMMA TokensAreServed ==
    ASSUME NEW ask \in AskTypes, NEW lim \in LimitSets, 1 <= lim.tokens, lim.tokens <= lim.imageTokens,
           ValidInput(ask, lim), ValidParameters(ask, lim), NEW kept, Kept(kept, lim),
           NEW payload, payload.input = Whole(ask, kept), payload.tokens \in Nat,
           payload.tokens = IF ask.tokens > 0 THEN ask.tokens
                            ELSE IF ImagesOf(payload.input) = <<>> THEN lim.tokens
                            ELSE lim.imageTokens
    PROVE  ServesOptions(payload, lim)
<1>1. PICK a \in Seq(Messages), c \in Seq(Messages) :
          /\ payload.input = a \o c /\ payload.input \in Seq(Messages)
          /\ ImagesOf(c) = ImagesOf(ask.input)
  <2>1. PICK a \in Seq(Servable(lim)), b \in Seq(Servable(lim)), c \in Seq(Servable(lim)) :
              /\ a = Instructed(ask) /\ b = kept /\ c = CurrentMessages(ask.input) /\ c # <<>>
              /\ a \in Seq(Spoken)
              /\ lim.enabled \/ (b \in Seq(Spoken) /\ c \in Seq(Spoken))
    BY WholeParts
  <2>2. a \in Seq(Messages) /\ b \in Seq(Messages) /\ c \in Seq(Messages)
    BY ServableSeq
  <2>3. a \o b \in Seq(Messages) /\ (a \o b) \o c \in Seq(Messages)
    BY <2>2, ConcatProperties
  <2>4. Input(ask)
    BY DEF Input, AskTypes
  <2>5. ImagesOf(c) = ImagesOf(ask.input)
    BY <2>1, <2>4, CurrentIs
  <2>6. payload.input = (a \o b) \o c
    BY <2>1 DEF Whole
  <2> QED BY <2>2, <2>3, <2>5, <2>6
<1>2. ImagesOf(payload.input) = ImagesOf(a) \o ImagesOf(c)
  BY <1>1, ImagesOfConcat
<1>3. ImagesOf(a) \in Seq(ImageBlocks) /\ ImagesOf(c) \in Seq(ImageBlocks)
  BY ImagesOfIs
<1>4. ImagesOf(payload.input) = <<>> => ImagesOf(ask.input) = <<>>
  <2>1. ASSUME NEW s \in Seq(ImageBlocks), NEW t \in Seq(ImageBlocks), s \o t = <<>> PROVE t = <<>>
    BY <2>1
  <2> QED BY <1>1, <1>2, <1>3, <2>1
<1>5. TokenLimit(payload, lim) \in {lim.tokens, lim.imageTokens}
      /\ (ImagesOf(payload.input) # <<>> => TokenLimit(payload, lim) = lim.imageTokens)
  BY <1>1, ImagesReachOllama DEF TokenLimit
<1>6. lim.tokens \in Nat /\ lim.imageTokens \in Nat /\ ask.tokens \in Nat
  BY DEF LimitSets, AskTypes
<1>7. ask.tokens <= IF ImagesOf(ask.input) = <<>> THEN lim.tokens ELSE lim.imageTokens
  BY DEF ValidParameters
<1>8. payload.tokens >= 1 /\ payload.tokens <= TokenLimit(payload, lim)
  <2>1. CASE ImagesOf(payload.input) = <<>>
    BY <1>4, <1>5, <1>6, <1>7, <2>1
  <2>2. CASE ImagesOf(payload.input) # <<>>
    BY <1>5, <1>6, <1>7, <2>2
  <2> QED BY <2>1, <2>2
<1> QED BY <1>5, <1>6, <1>8 DEF ServesOptions

LEMMA PayloadInput ==
    ASSUME NEW ask, NEW lim, NEW past,
           NEW kept, kept = BoundedHistory(past, CurrentMessages(ask.input), ask.instructions, lim)
    PROVE  Payload(ask, past, lim).input = Whole(ask, kept)
BY DEF Payload, Whole, Instructed

LEMMA PayloadIsServed ==
    ASSUME NEW ask \in AskTypes, NEW lim \in LimitSets, 1 <= lim.tokens, lim.tokens <= lim.imageTokens,
           ValidInput(ask, lim), ValidParameters(ask, lim), NEW past \in Seq(Messages),
           NEW kept, Kept(kept, lim),
           kept = BoundedHistory(past, CurrentMessages(ask.input), ask.instructions, lim),
           NEW payload, payload = Payload(ask, past, lim)
    PROVE  /\ Serves(payload, lim)
           /\ Flattened(OllamaMessages(payload)) = Blocks(payload.input)
<1>1. PICK c \in Seq(Messages) : c = CurrentMessages(ask.input)
  <2>1. ask.input \in Seq(Messages)
    BY DEF AskTypes
  <2> QED BY <2>1, CurrentMessagesIs
<1>2. kept = BoundedHistory(past, c, ask.instructions, lim) /\ ask.instructions \in Nat
  BY <1>1 DEF AskTypes
<1>3. /\ payload \in Payloads
      /\ payload.tokens = IF ask.tokens > 0 THEN ask.tokens
                          ELSE IF ImagesOf(payload.input) = <<>> THEN lim.tokens
                          ELSE lim.imageTokens
  <2>1. Payload(ask, past, lim) \in Payloads
    BY <1>1, <1>2, PayloadIs
  <2>2. Payload(ask, past, lim).tokens =
            IF ask.tokens > 0 THEN ask.tokens
            ELSE IF ImagesOf(Payload(ask, past, lim).input) = <<>> THEN lim.tokens
            ELSE lim.imageTokens
    BY <1>1, <1>2, PayloadIs
  <2> QED BY <2>1, <2>2
<1>4. payload.input = Whole(ask, kept) /\ payload.tokens \in Nat /\ payload.input \in Seq(Messages)
  BY <1>3, PayloadInput DEF Payloads
<1>5. FitsTogether(kept, LeftBy(c, ask.instructions, lim))
  <2>1. Longest(History(past, lim), LeftBy(c, ask.instructions, lim), kept)
    BY <1>2, BoundedHistoryIs
  <2>2. History(past, lim) \in Seq(Messages)
    BY HistoryType
  <2> QED BY <2>1, <2>2, EndIsFrom
<1>6. Within(payload.input, lim)
  BY <1>1, <1>2, <1>4, <1>5, WholeFits
<1>7. ServesInput(payload.input, lim)
  BY <1>4, <1>6, WholeIsServable, ServableIsServed
<1>8. ServesOptions(payload, lim)
  BY <1>3, <1>4, TokensAreServed
<1>9. Flattened(OllamaMessages(payload)) = Blocks(payload.input)
  BY <1>4, OllamaMessagesAre, AllFragmentsTell DEF Tells
<1> QED BY <1>7, <1>8, <1>9 DEF Serves
-----------------------------------------------------------------------------
(***************************************************************************)
(* What is stored is servable under the limits in force.  A restart may    *)
(* bring smaller limits for one image: then a stored image goes to Granite *)
(* again, and is refused.                                                  *)
(***************************************************************************)
ImageLimitsGrow ==
    \A i \in DOMAIN Configs : i + 1 \in DOMAIN Configs =>
        /\ Configs[i].imageBytes <= Configs[i + 1].imageBytes
        /\ Configs[i].imagePixels <= Configs[i + 1].imagePixels

ServableDocs(lim) ==
    {d \in Documents : d.images \in Seq(SoundImages(lim)) /\ (d.role = "assistant" => d.images = <<>>)}

TurnServable(t, lim) ==
    /\ t.place = "read" => t.past \in Seq(Servable(lim))
    /\ t.place \in {"save", "call", "context"} => Kept(t.kept, lim)

ChatServable(s, lim) == s # None => s \in Seq(ServableDocs(lim))
ContextServable(c, lim) == c # None => c \in Seq(Servable(lim))

AllServable ==
    \A r \in Requests :
        /\ TurnServable(turn[r], Limits)
        /\ ChatServable(chats[r], Limits)
        /\ ContextServable(contexts[r], Limits)

\* What Granite is told of a servable document is servable.
LEMMA ToldIsServable ==
    ASSUME NEW lim, NEW d \in ServableDocs(lim), d \in Usable
    PROVE  Told[d] \in Servable(lim)
<1>1. /\ d \in Documents /\ d.text \in Nat /\ d.images \in Seq(SoundImages(lim))
      /\ d.role \in {"user", "assistant"} /\ (d.role = "assistant" => d.images = <<>>)
      /\ d.images \in Seq(ImageBlocks)
  BY DEF ServableDocs, Documents
<1>2. d.text > 0 \/ d.images # <<>>
  BY DEF Usable
<1>3. PICK m \in Messages : m = Told[d]
  BY <1>1, ToldTakes DEF Takes
<1>4. m.role = d.role /\ m.content = SaidBy(d)
  BY <1>1, <1>3 DEF Told
<1>5. PICK a : a = IF d.text > 0 THEN <<Text(d.text)>> ELSE <<>>
  OBVIOUS
<1>6. a \in Seq(WrittenBlocks) /\ (d.text > 0 => a # <<>>)
  <2>1. CASE d.text > 0
    <3>1. PICK x \in WrittenBlocks : x = Text(d.text)
      BY <1>1, <2>1, TextIs
    <3> QED BY <1>5, <2>1, <3>1
  <2>2. CASE ~ (d.text > 0)
    <3>1. a = <<>>
      BY <1>5, <2>2
    <3> QED BY <2>2, <3>1, EmptySeq
  <2> QED BY <2>1, <2>2
<1>7. m.content = a \o d.images
  BY <1>4, <1>5 DEF SaidBy
<1>8. CASE d.images = <<>>
  <2>1. m.content = a
    BY <1>6, <1>7, <1>8, ConcatEmptySeq
  <2>2. m.role \in ServedRoles /\ m.content # <<>>
    BY <1>1, <1>2, <1>4, <1>6, <1>8, <2>1 DEF ServedRoles
  <2> QED BY <1>3, <1>6, <2>1, <2>2 DEF Spoken, Servable
<1>9. CASE d.images # <<>>
  <2>1. PICK b \in Seq(ServedBlocks(lim)) : b = a
    <3>1. WrittenBlocks \subseteq ServedBlocks(lim)
      BY DEF ServedBlocks
    <3> QED BY <1>6, <3>1, SeqGrows
  <2>2. PICK i \in Seq(ServedBlocks(lim)) : i = d.images
    <3>1. SoundImages(lim) \subseteq ServedBlocks(lim)
      BY DEF ServedBlocks
    <3> QED BY <1>1, <3>1, SeqGrows
  <2>3. m.content = b \o i /\ i # <<>>
    BY <1>7, <1>9, <2>1, <2>2
  <2>4. b \o i \in Seq(ServedBlocks(lim))
    BY ConcatProperties
  <2>5. b \o i # <<>>
    <3>1. Len(b \o i) = Len(b) + Len(i) /\ Len(b) \in Nat /\ Len(i) \in Nat /\ Len(i) # 0
      BY <2>3, ConcatProperties, LenProperties, EmptySeq
    <3>2. Len(b \o i) # 0
      BY <3>1
    <3> QED BY <3>2, EmptySeq
  <2>6. m.role = "user"
    BY <1>1, <1>4, <1>9
  <2> QED BY <1>3, <2>3, <2>4, <2>5, <2>6 DEF Pictured, Servable
<1> QED BY <1>8, <1>9

LEMMA ChatReadsServable ==
    ASSUME NEW lim, NEW s \in Seq(ServableDocs(lim)), NEW n \in Nat
    PROVE  GraniteInput(RecentMessages(s, n)) \in Seq(Servable(lim))
<1>1. s \in Seq(Documents) /\ \A j \in 1 .. Len(s) : s[j] \in ServableDocs(lim)
  <2>1. ServableDocs(lim) \subseteq Documents
    BY DEF ServableDocs
  <2> QED BY <2>1, SeqGrows, ElementOfSeq
<1>2. PICK m \in Seq(Documents) :
         m = RecentMessages(s, n) /\ \A i \in 1 .. Len(m) : \E j \in 1 .. Len(s) : m[i] = s[j]
  BY <1>1, RecentMessagesType
<1>3. m \in Seq(ServableDocs(lim))
  <2>1. /\ Len(m) \in Nat /\ m \in [1 .. Len(m) -> Documents]
        /\ \A i \in 1 .. Len(m) : m[i] \in ServableDocs(lim)
    BY <1>1, <1>2, LenProperties
  <2>2. m \in [1 .. Len(m) -> ServableDocs(lim)]
    BY <2>1
  <2> QED BY <2>1, <2>2
<1>4. PICK f \in Seq(ServableDocs(lim) \cap Usable) : f = Filtered(m, Usable)
  BY <1>3, FilteredType
<1>5. Takes(Told, ServableDocs(lim) \cap Usable, Servable(lim))
  BY ToldIsServable DEF Takes
<1>6. Mapped(Told, f) \in Seq(Servable(lim))
  BY <1>4, <1>5, MappedType
<1>7. GraniteInput(m) = Mapped(Told, f)
  BY <1>2, <1>4, GraniteInputIs
<1> QED BY <1>2, <1>6, <1>7

\* With limits for one image that grow, what was servable stays so.
LEMMA ServableGrows ==
    ASSUME NEW lim \in LimitSets, NEW new \in LimitSets,
           lim.imageBytes <= new.imageBytes, lim.imagePixels <= new.imagePixels
    PROVE  /\ Servable(lim) \subseteq Servable(new)
           /\ ServableDocs(lim) \subseteq ServableDocs(new)
<1>1. lim.imageBytes \in Nat /\ new.imageBytes \in Nat /\ lim.imagePixels \in Nat /\ new.imagePixels \in Nat
  BY DEF LimitSets
<1>2. SoundImages(lim) \subseteq SoundImages(new)
  <2>1. ASSUME NEW b \in ImageBlocks, SoundBlock(b, lim) PROVE SoundBlock(b, new)
    <3>1. b.bytes \in Nat /\ b.pixels \in Nat
      BY DEF ImageBlocks
    <3> QED BY <1>1, <2>1, <3>1 DEF SoundBlock
  <2> QED BY <2>1 DEF SoundImages
<1>3. ServedBlocks(lim) \subseteq ServedBlocks(new)
  BY <1>2 DEF ServedBlocks
<1>4. Pictured(lim) \subseteq Pictured(new)
  <2>1. ASSUME NEW m \in Pictured(lim) PROVE m \in Pictured(new)
    <3>1. m \in Messages /\ m.role = "user" /\ m.content # <<>> /\ m.content \in Seq(ServedBlocks(lim))
      BY DEF Pictured
    <3>2. m.content \in Seq(ServedBlocks(new))
      BY <1>3, <3>1, SeqGrows
    <3> QED BY <3>1, <3>2 DEF Pictured
  <2> QED BY <2>1
<1>5. ASSUME NEW d \in ServableDocs(lim) PROVE d \in ServableDocs(new)
  <2>1. d \in Documents /\ d.images \in Seq(SoundImages(lim)) /\ (d.role = "assistant" => d.images = <<>>)
    BY DEF ServableDocs
  <2>2. d.images \in Seq(SoundImages(new))
    BY <1>2, <2>1, SeqGrows
  <2> QED BY <2>1, <2>2 DEF ServableDocs
<1> QED BY <1>4, <1>5 DEF Servable

-----------------------------------------------------------------------------
\* A step of one turn.
LEMMA ServableStep ==
    ASSUME Inv, AllServable, NEW r \in Requests, NEW u \in Turns, turn' = [turn EXCEPT ![r] = u],
           UNCHANGED config, TurnServable(u, Limits),
           \A q \in Requests : ChatServable(chats'[q], Limits),
           \A q \in Requests : ContextServable(contexts'[q], Limits)
    PROVE  AllServable'
<1>1. \A p \in Requests : turn'[p] = IF p = r THEN u ELSE turn[p]
  BY DEF Inv
<1>2. Limits' = Limits
  BY DEF Limits
<1>3. \A p \in Requests : TurnServable(turn'[p], Limits)
  BY <1>1 DEF AllServable
<1> QED BY <1>2, <1>3 DEF AllServable

LEMMA ChatsStayServable ==
    ASSUME AllServable, UNCHANGED chats
    PROVE  \A q \in Requests : ChatServable(chats'[q], Limits)
BY DEF AllServable

LEMMA ContextsStayServable ==
    ASSUME AllServable, UNCHANGED contexts
    PROVE  \A q \in Requests : ContextServable(contexts'[q], Limits)
BY DEF AllServable

LEMMA OneChatServable ==
    ASSUME Inv, AllServable, NEW c \in Requests, NEW s \in Seq(ServableDocs(Limits)),
           chats' = [chats EXCEPT ![c] = s]
    PROVE  \A q \in Requests : ChatServable(chats'[q], Limits)
<1>1. \A q \in Requests : chats'[q] = IF q = c THEN s ELSE chats[q]
  BY DEF Inv, Chatted
<1> QED BY <1>1 DEF AllServable, ChatServable

LEMMA OneContextServable ==
    ASSUME Inv, AllServable, NEW r \in Requests, NEW k, ContextServable(k, Limits),
           contexts' = [contexts EXCEPT ![r] = k]
    PROVE  \A q \in Requests : ContextServable(contexts'[q], Limits)
<1>1. \A q \in Requests : contexts'[q] = IF q = r THEN k ELSE contexts[q]
  BY DEF Inv
<1> QED BY <1>1 DEF AllServable

LEMMA SavedServable ==
    ASSUME Inv, AllServable, NEW r \in Requests, NEW c \in Requests, c = Conversation(r),
           chats[c] # None, NEW d \in ServableDocs(Limits), chats' = Saved(r, d)
    PROVE  \A q \in Requests : ChatServable(chats'[q], Limits)
<1>1. PICK s \in Seq(ServableDocs(Limits)) : s = chats[c]
  BY DEF AllServable, ChatServable
<1>2. Append(s, d) \in Seq(ServableDocs(Limits))
  BY AppendProperties
<1>3. chats' = [chats EXCEPT ![c] = Append(s, d)]
  BY <1>1 DEF Saved
<1> QED BY <1>2, <1>3, OneChatServable

EachServable(s, lim) == \A i \in 1 .. Len(s) : s[i] \in ServableDocs(lim)

LEMMA MarkedDocs ==
    ASSUME NEW lim, NEW s \in Seq(Documents), NEW r, NEW role,
           EachServable(s, lim), NEW status \in {"pending", "sent", "failed"}
    PROVE  MarkedIn(s, r, role, status) \in Seq(ServableDocs(lim))
<1>1. PICK m \in Seq(Documents) : m = MarkedIn(s, r, role, status)
  BY MarkedInType
<1>2. Len(m) = Len(s) /\ \A i \in 1 .. Len(s) : m[i] = s[i] \/ m[i] = [s[i] EXCEPT !.status = status]
  BY <1>1, MarkedInType
<1>3. ASSUME NEW i \in 1 .. Len(s) PROVE m[i] \in ServableDocs(lim)
  <2>1. s[i] \in ServableDocs(lim)
    BY DEF EachServable
  <2>2. CASE m[i] = [s[i] EXCEPT !.status = status]
    <3>1. /\ s[i] \in Documents /\ s[i].images \in Seq(SoundImages(lim))
          /\ (s[i].role = "assistant" => s[i].images = <<>>)
      BY <2>1 DEF ServableDocs
    <3>2. m[i] \in Documents /\ m[i].role = s[i].role /\ m[i].images = s[i].images
      BY <2>2, <3>1 DEF Documents
    <3> QED BY <3>1, <3>2 DEF ServableDocs
  <2> QED BY <1>2, <2>1, <2>2
<1>4. Len(m) \in Nat /\ m \in [1 .. Len(m) -> Documents]
  BY LenProperties
<1>5. m \in [1 .. Len(m) -> ServableDocs(lim)]
  BY <1>2, <1>3, <1>4
<1> QED BY <1>1, <1>4, <1>5

LEMMA MarkedServable ==
    ASSUME Inv, AllServable, NEW r \in Requests, NEW c \in Requests, c = Conversation(r),
           chats[c] # None, NEW role, NEW status \in {"pending", "sent", "failed"},
           chats' = Marked(r, role, status)
    PROVE  \A q \in Requests : ChatServable(chats'[q], Limits)
<1>1. PICK s \in Seq(Documents) : s = chats[c] /\ s \in Seq(ServableDocs(Limits))
  BY DEF AllServable, ChatServable, Inv, Chatted
<1>2. PICK m \in Seq(ServableDocs(Limits)) : m = MarkedIn(s, r, role, status)
  <2>1. EachServable(s, Limits)
    BY <1>1, ElementOfSeq DEF EachServable
  <2> QED BY <2>1, MarkedDocs
<1>3. chats' = [chats EXCEPT ![c] = m]
  <2>1. Chatted(chats)
    BY DEF Inv
  <2>2. Marked(r, role, status) = [chats EXCEPT ![c] = MarkedIn(chats[c], r, role, status)]
    BY <2>1, MarkedIs
  <2> QED BY <1>1, <1>2, <2>2
<1> QED BY <1>2, <1>3, OneChatServable

-----------------------------------------------------------------------------
LEMMA ReceiveKeepsServable ==
    ASSUME Inv, AllServable, NEW r \in Requests, NEW ask \in Asks,
           NEW from \in Requests \cup {None}, Receive(r, ask, from)
    PROVE  AllServable'
<1> DEFINE ok == ValidInput(ask, Limits) /\ ValidParameters(ask, Limits) /\ Found(ask, from)
           continues == ~ask.chat /\ from # None /\ Found(ask, from)
<1>1. PICK past : past = IF continues THEN contexts[from] ELSE <<>>
  OBVIOUS
<1>2. PICK place : place = IF ok THEN "read" ELSE "over"
  OBVIOUS
<1>3. PICK u : u = [turn[r] EXCEPT !.ask = ask, !.from = from, !.past = past, !.place = place]
  OBVIOUS
<1>4. turn' = [turn EXCEPT ![r] = u]
  <2>1. turn' = [turn EXCEPT ![r].ask = ask, ![r].from = from, ![r].past = past, ![r].place = place]
    BY <1>1, <1>2 DEF Receive
  <2> QED BY <1>3, <2>1 DEF Inv
<1>5. u \in Turns
  <2>1. turn' \in [Requests -> Turns]
    BY ReceiveKeepsInv DEF Inv
  <2>2. turn'[r] = u
    BY <1>4 DEF Inv
  <2> QED BY <2>1, <2>2
<1>6. u.past = past /\ u.place = place
  <2>1. turn[r] \in Turns
    BY DEF Inv
  <2> QED BY <1>3, <2>1 DEF Turns
<1>7. past \in Seq(Servable(Limits))
  <2>1. CASE continues
    <3>1. from \in Requests /\ contexts[from] # None
      BY <2>1 DEF Found
    <3>2. contexts[from] \in Seq(Servable(Limits))
      BY <3>1 DEF AllServable, ContextServable
    <3> QED BY <1>1, <2>1, <3>2
  <2>2. CASE ~continues
    <3>1. past = <<>>
      BY <1>1, <2>2
    <3> QED BY <3>1, EmptySeq
  <2> QED BY <2>1, <2>2
<1>8. TurnServable(u, Limits)
  <2>1. place \in {"read", "over"}
    BY <1>2
  <2> HIDE DEF ok, continues
  <2> QED BY <1>6, <1>7, <2>1 DEF TurnServable
<1>9. UNCHANGED <<config, chats, contexts>>
  BY DEF Receive
<1> HIDE DEF ok, continues
<1> QED BY <1>4, <1>5, <1>8, <1>9, ChatsStayServable, ContextsStayServable, ServableStep

LEMMA PastReadServable ==
    ASSUME Inv, AllServable, NEW r \in Requests, At(r, "read")
    PROVE  /\ PastRead(r) \in Seq(Servable(Limits))
           /\ \A q \in Requests : ChatServable(Opened(r)[q], Limits)
<1>1. \A q \in Requests : ChatServable(Opened(r)[q], Limits)
  <2>1. CASE Chats(r) /\ turn[r].from = None
    <3>1. \A q \in Requests : Opened(r)[q] = IF q = r THEN <<>> ELSE chats[q]
      BY <2>1 DEF Opened, Inv, Chatted
    <3> QED BY <3>1, EmptySeq DEF AllServable, ChatServable
  <2>2. CASE ~ (Chats(r) /\ turn[r].from = None)
    <3>1. Opened(r) = chats
      BY <2>2 DEF Opened
    <3> QED BY <3>1 DEF AllServable
  <2> QED BY <2>1, <2>2
<1>2. CASE Chats(r)
  <2>1. PICK t : t = turn[r]
    OBVIOUS
  <2>2. PICK c \in Requests : c = Conversation(r)
    BY <2>1, TurnFacts
  <2>3. PICK s \in Seq(ServableDocs(Limits)) : s = Opened(r)[c]
    <3>1. Opened(r)[c] # None
      BY <1>2, <2>2, OpenedIs
    <3> QED BY <1>1, <3>1 DEF ChatServable
  <2>4. GraniteInput(RecentMessages(s, RecentLimit)) \in Seq(Servable(Limits))
    BY ChatReadsServable, RepliesAssumption
  <2> QED BY <1>1, <1>2, <2>2, <2>3, <2>4 DEF PastRead
<1>3. CASE ~Chats(r)
  <2>1. turn[r].past \in Seq(Servable(Limits))
    BY DEF AllServable, TurnServable, At
  <2> QED BY <1>1, <1>3, <2>1 DEF PastRead
<1> QED BY <1>2, <1>3

LEMMA ReadKeepsServable ==
    ASSUME Inv, AllServable, NEW r \in Requests, Read(r)
    PROVE  AllServable'
<1>1. PICK t : t = turn[r]
  OBVIOUS
<1>2. /\ t \in Turns /\ t.place = "read" /\ Limits \in LimitSets
      /\ t.ask \in Asks /\ t.ask \in AskTypes
  <2>1. t.place = "read" /\ t.place \notin Idle
    BY <1>1 DEF Read, At, Idle
  <2> QED BY <1>1, <2>1, TurnFacts
<1>3. At(r, "read") /\ UNCHANGED <<config, contexts>> /\ chats' = Opened(r)
  BY DEF Read
<1>4. PICK past \in Seq(Servable(Limits)) : past = PastRead(r)
  BY <1>3, PastReadServable
<1>5. PICK c \in Seq(Messages) : c = CurrentMessages(t.ask.input)
  BY <1>2, CurrentMessagesIs DEF AskTypes
<1>6. PICK kept : kept = BoundedHistory(past, c, t.ask.instructions, Limits)
  OBVIOUS
<1>7. PICK payload, place :
         /\ payload = Payload(t.ask, past, Limits)
         /\ place = IF ~HasUserPrompt(payload) THEN "over" ELSE IF t.ask.chat THEN "save" ELSE "call"
  OBVIOUS
<1>8. PICK u : u = [t EXCEPT !.past = past, !.payload = payload, !.kept = kept, !.place = place]
  OBVIOUS
<1>9. turn' = [turn EXCEPT ![r] = u]
  <2>1. turn' = [turn EXCEPT ![r].past = past, ![r].payload = payload, ![r].kept = kept,
                             ![r].place = place]
    BY <1>1, <1>4, <1>5, <1>6, <1>7 DEF Read, PastRead, Chats
  <2> QED BY <1>1, <1>8, <2>1 DEF Inv
<1>10. u \in Turns
  <2>1. turn' \in [Requests -> Turns]
    BY ReadKeepsInv DEF Inv
  <2>2. turn'[r] = u
    BY <1>9 DEF Inv
  <2> QED BY <2>1, <2>2
<1>11. u.place = place /\ u.kept = kept /\ place # "read"
  BY <1>2, <1>7, <1>8 DEF Turns
<1>12. Kept(kept, Limits)
  <2>1. t.ask.instructions \in Nat
    BY <1>2 DEF AskTypes
  <2> QED BY <1>2, <1>6, <2>1, KeptIsServable
<1>13. TurnServable(u, Limits)
  BY <1>11, <1>12 DEF TurnServable
<1>14. \A q \in Requests : ChatServable(chats'[q], Limits)
  BY <1>3, PastReadServable
<1> QED BY <1>3, <1>9, <1>10, <1>13, <1>14, ContextsStayServable, ServableStep

\* A turn that goes on has what it has kept.
LEMMA GoOnServable ==
    ASSUME Inv, AllServable, NEW r \in Requests, NEW place \in Places \ {"new", "read"},
           place \in {"save", "call", "context"} => turn[r].place \in {"save", "call", "context"},
           Goto(r, place), UNCHANGED config,
           \A q \in Requests : ChatServable(chats'[q], Limits),
           \A q \in Requests : ContextServable(contexts'[q], Limits)
    PROVE  AllServable'
<1>1. PICK t : t = turn[r]
  OBVIOUS
<1>2. PICK u \in Turns : /\ turn' = [turn EXCEPT ![r] = u]
                         /\ u.place = place /\ u.ask = t.ask /\ u.from = t.from /\ u.kept = t.kept
                         /\ Forward(turn, turn')
  BY <1>1, GotoTurn
<1>3. TurnServable(t, Limits)
  BY <1>1 DEF AllServable
<1>4. TurnServable(u, Limits)
  BY <1>1, <1>2, <1>3 DEF TurnServable
<1> QED BY <1>2, <1>4, ServableStep

LEMMA ModelAnswersKeepsServable ==
    ASSUME Inv, AllServable, NEW r \in Requests, NEW reply \in Replies, NEW incomplete \in BOOLEAN,
           ModelAnswers(r, reply, incomplete)
    PROVE  AllServable'
<1>1. PICK t : t = turn[r]
  OBVIOUS
<1>2. PICK place : place = IF Chats(r) THEN "userSent" ELSE IF t.ask.store THEN "context" ELSE "over"
  OBVIOUS
<1>3. PICK u : u = [t EXCEPT !.reply = reply, !.incomplete = incomplete, !.place = place]
  OBVIOUS
<1>4. t \in Turns /\ t.place = "call" /\ UNCHANGED <<config, chats, contexts>>
  BY <1>1 DEF ModelAnswers, At, Inv
<1>5. turn' = [turn EXCEPT ![r] = u]
  <2>1. turn' = [turn EXCEPT ![r].reply = reply, ![r].incomplete = incomplete, ![r].place = place]
    BY <1>1, <1>2 DEF ModelAnswers
  <2> QED BY <1>1, <1>3, <2>1 DEF Inv
<1>6. u \in Turns
  <2>1. turn' \in [Requests -> Turns]
    BY ModelAnswersKeepsInv DEF Inv
  <2>2. turn'[r] = u
    BY <1>5 DEF Inv
  <2> QED BY <2>1, <2>2
<1>7. u.kept = t.kept /\ u.place = place /\ place # "read"
  BY <1>2, <1>3, <1>4 DEF Turns
<1>8. TurnServable(u, Limits)
  <2>1. TurnServable(t, Limits)
    BY <1>1 DEF AllServable
  <2> QED BY <1>4, <1>7, <2>1 DEF TurnServable
<1> QED BY <1>4, <1>5, <1>6, <1>8, ChatsStayServable, ContextsStayServable, ServableStep

\* The images that are stored are those that were accepted.
LEMMA AcceptedImages ==
    ASSUME NEW ask \in Asks, ask.chat, NEW lim, ValidInput(ask, lim)
    PROVE  UserImages(ask.input) \in Seq(SoundImages(lim)) /\ UserText(ask.input) \in Nat
<1>1. ask.input \in Seq(Messages) /\ WebInput(ask.input) /\ ask.input[1].content # <<>>
  BY AdmittedWeb
<1>2. UserText(ask.input) \in Nat /\ UserImages(ask.input) \in Seq(ImageBlocks)
      /\ UserImages(ask.input) = ImagesOf(ask.input)
  BY <1>1, WebMessage
<1>3. PICK images \in Seq(ImageBlocks) : images = UserImages(ask.input) /\ images = ImagesOf(ask.input)
  BY <1>2
<1>4. Len(images) \in Nat /\ DOMAIN images = 1 .. Len(images) /\ images \in [1 .. Len(images) -> ImageBlocks]
  BY LenProperties
<1>5. ASSUME NEW i \in 1 .. Len(images) PROVE images[i] \in SoundImages(lim)
  <2>1. CASE lim.enabled
    <3>1. ValidImages(ask.input, lim)
      BY <2>1 DEF ValidInput
    <3>2. images[i] \in ToSet(images)
      BY <1>4 DEF ToSet
    <3>3. AcceptableImage(images[i], lim)
      BY <1>3, <3>1, <3>2 DEF ValidImages
    <3>4. images[i] \in ImageBlocks
      BY ElementOfSeq
    <3> QED BY <3>3, <3>4 DEF AcceptableImage, SoundBlock, SoundImages
  <2>2. CASE ~lim.enabled
    <3>1. images = <<>>
      BY <1>3, <2>2 DEF ValidInput
    <3> QED BY <3>1, EmptySeq
  <2> QED BY <2>1, <2>2
<1>6. images \in [1 .. Len(images) -> SoundImages(lim)]
  BY <1>4, <1>5
<1> QED BY <1>2, <1>3, <1>4, <1>6

LEMMA SaveUserKeepsServable ==
    ASSUME Inv, AllServable, NEW r \in Requests, SaveUser(r)
    PROVE  AllServable'
<1>1. PICK t : t = turn[r]
  OBVIOUS
<1>2. t.place = "save" /\ t.place \notin Idle \cup {"read"} /\ t \in Turns /\ UNCHANGED <<config, contexts>>
  BY <1>1 DEF SaveUser, At, Idle, Inv
<1>3. Good(r, t, Limits, chats) /\ t.ask \in Asks /\ Chats(r) /\ t.ask.chat
  <2>1. Good(r, t, Limits, chats) /\ t.ask \in Asks
    BY <1>1, <1>2, TurnFacts
  <2>2. Chats(r)
    BY <1>1, <1>2, SidedAt
  <2> QED BY <1>1, <2>1, <2>2 DEF Chats
<1>4. PICK c \in Requests : c = Conversation(r) /\ chats[c] # None
  BY <1>1, <1>2, <1>3, TurnFacts
<1>5. ValidInput(t.ask, Limits)
  BY <1>2, <1>3 DEF Good, Admitted
<1>6. PICK d : d = [turn |-> r, role |-> "user", status |-> "pending",
                    text |-> UserText(t.ask.input), images |-> UserImages(t.ask.input)]
  OBVIOUS
<1>7. UserImages(t.ask.input) \in Seq(SoundImages(Limits)) /\ UserText(t.ask.input) \in Nat
  BY <1>3, <1>5, AcceptedImages
<1>8. d \in ServableDocs(Limits)
  <2>1. SoundImages(Limits) \subseteq ImageBlocks
    BY DEF SoundImages
  <2>2. UserImages(t.ask.input) \in Seq(ImageBlocks)
    BY <1>7, <2>1, SeqGrows
  <2>3. d \in Documents
    BY <1>6, <1>7, <2>2 DEF Documents
  <2> QED BY <1>6, <1>7, <2>3 DEF ServableDocs
<1>9. chats' = Saved(r, d)
  BY <1>1, <1>6 DEF SaveUser
<1>10. \A q \in Requests : ChatServable(chats'[q], Limits)
  BY <1>4, <1>8, <1>9, SavedServable
<1>11. Goto(r, "call") /\ "call" \in Places \ {"new", "read"}
  BY DEF SaveUser, Places
<1> QED BY <1>1, <1>2, <1>10, <1>11, ContextsStayServable, GoOnServable

LEMMA SaveReplyKeepsServable ==
    ASSUME Inv, AllServable, NEW r \in Requests, SaveReply(r)
    PROVE  AllServable'
<1>1. turn[r].place = "reply" /\ turn[r].place \notin Idle \cup {"read"} /\ UNCHANGED <<config, contexts>>
  BY DEF SaveReply, At, Idle
<1>2. Chats(r)
  BY <1>1, SidedAt
<1>3. PICK c \in Requests : c = Conversation(r) /\ chats[c] # None
  BY <1>1, <1>2, TurnFacts
<1>4. PICK d : d = [turn |-> r, role |-> "assistant", status |-> Verdict(r),
                    text |-> turn[r].reply, images |-> <<>>]
  OBVIOUS
<1>5. d \in ServableDocs(Limits)
  <2>1. turn[r].reply \in Nat /\ Verdict(r) \in {"pending", "sent", "failed"}
    BY DEF Inv, Turns, Verdict
  <2>2. <<>> \in Seq(ImageBlocks) /\ <<>> \in Seq(SoundImages(Limits))
    BY EmptySeq
  <2>3. d \in Documents
    BY <1>4, <2>1, <2>2 DEF Documents
  <2> QED BY <1>4, <2>2, <2>3 DEF ServableDocs
<1>6. chats' = Saved(r, d)
  BY <1>4 DEF SaveReply
<1>7. \A q \in Requests : ChatServable(chats'[q], Limits)
  BY <1>3, <1>5, <1>6, SavedServable
<1>8. Goto(r, "finish") /\ "finish" \in Places \ {"new", "read"}
  BY DEF SaveReply, Places
<1> QED BY <1>1, <1>7, <1>8, ContextsStayServable, GoOnServable

\* What a turn adds to its context is servable: the answer is a text.
LEMMA AddedServable ==
    ASSUME Inv, NEW r \in Requests, turn[r].place \notin Idle
    PROVE  Added(r) \in Seq(Servable(Limits))
<1>1. PICK t : t = turn[r]
  OBVIOUS
<1>2. t \in Turns /\ Good(r, t, Limits, chats) /\ Limits \in LimitSets /\ t.ask \in AskTypes
  BY <1>1, TurnFacts
<1>3. ValidInput(t.ask, Limits) /\ Input(t.ask) /\ t.reply \in Nat
  BY <1>1, <1>2 DEF Good, Admitted, AskTypes, Input, Turns
<1>4. PICK c \in Seq(Servable(Limits)) : c = CurrentMessages(t.ask.input)
  BY <1>2, <1>3, CurrentIsServable
<1>5. PICK a : a = IF t.reply = 0 THEN <<>>
                   ELSE <<[role |-> "assistant", content |-> <<Text(t.reply)>>]>>
  OBVIOUS
<1>6. a \in Seq(Servable(Limits))
  <2>1. CASE t.reply = 0
    <3>1. a = <<>>
      BY <1>5, <2>1
    <3> QED BY <3>1, EmptySeq
  <2>2. CASE t.reply # 0
    <3>1. t.reply > 0
      BY <1>3, <2>2
    <3>2. PICK x : x = Text(t.reply) /\ x \in WrittenBlocks /\ x \in AllBlocks
      BY <1>3, <3>1, TextIs
    <3>3. <<x>> \in Seq(WrittenBlocks) /\ <<x>> \in Seq(AllBlocks) /\ <<x>> # <<>>
      BY <3>2
    <3>4. PICK m : m = [role |-> "assistant", content |-> <<x>>]
      OBVIOUS
    <3>5. m \in Messages /\ m.role \in ServedRoles
      BY <3>3, <3>4 DEF Messages, Roles, ServedRoles
    <3>6. m \in Servable(Limits)
      BY <3>3, <3>4, <3>5 DEF Spoken, Servable
    <3>7. a = <<m>>
      BY <1>5, <2>2, <3>2, <3>4
    <3> QED BY <3>6, <3>7
  <2> QED BY <2>1, <2>2
<1>7. Added(r) = c \o a
  BY <1>1, <1>4, <1>5 DEF Added
<1> QED BY <1>6, <1>7, ConcatProperties

LEMMA SaveContextKeepsServable ==
    ASSUME Inv, AllServable, NEW r \in Requests, SaveContext(r)
    PROVE  AllServable'
<1>1. turn[r].place = "context" /\ turn[r].place \notin Idle /\ UNCHANGED <<config, chats>>
  BY DEF SaveContext, At, Idle
<1>2. PICK a \in Seq(Servable(Limits)) : a = Added(r)
  BY <1>1, AddedServable
<1>3. PICK k \in Seq(Servable(Limits)) : k = turn[r].kept
  BY <1>1 DEF AllServable, TurnServable, Kept
<1>4. k \o a \in Seq(Servable(Limits))
  BY ConcatProperties
<1>5. ContextServable(k \o a, Limits)
  BY <1>4 DEF ContextServable
<1>6. contexts' = [contexts EXCEPT ![r] = k \o a]
  BY <1>2, <1>3 DEF SaveContext
<1>7. \A q \in Requests : ContextServable(contexts'[q], Limits)
  BY <1>5, <1>6, OneContextServable
<1>8. Goto(r, "finish") /\ "finish" \in Places \ {"new", "read"}
  BY DEF SaveContext, Places
<1> QED BY <1>1, <1>7, <1>8, ChatsStayServable, GoOnServable

LEMMA UndoContextKeepsServable ==
    ASSUME Inv, AllServable, NEW r \in Requests, UndoContext(r)
    PROVE  AllServable'
<1>1. /\ Goto(r, "over") /\ "over" \in Places \ {"new", "read"} /\ UNCHANGED <<config, chats>>
      /\ contexts' = [contexts EXCEPT ![r] = None]
  BY DEF UndoContext, Places
<1>2. ContextServable(None, Limits)
  BY DEF ContextServable
<1>3. \A q \in Requests : ContextServable(contexts'[q], Limits)
  BY <1>1, <1>2, OneContextServable
<1> QED BY <1>1, <1>3, ChatsStayServable, GoOnServable

\* A step that marks what is stored, or only moves on.
LEMMA MarkKeepsServable ==
    ASSUME Inv, AllServable, NEW r \in Requests, turn[r].place \notin Idle \cup {"read"}, Chats(r),
           NEW place \in Places \ {"new", "read", "save", "call", "context"},
           Goto(r, place), UNCHANGED <<config, contexts>>,
           NEW role, NEW status \in {"pending", "sent", "failed"}, chats' = Marked(r, role, status)
    PROVE  AllServable'
<1>1. PICK c \in Requests : c = Conversation(r) /\ chats[c] # None
  BY TurnFacts
<1>2. \A q \in Requests : ChatServable(chats'[q], Limits)
  BY <1>1, MarkedServable
<1> QED BY <1>2, ContextsStayServable, GoOnServable

LEMMA GotosKeepServable ==
    ASSUME Inv, AllServable, NEW r \in Requests,
           \/ ModelFails(r) \/ MarkUser(r) \/ UndoUser(r) \/ UndoReply(r)
           \/ \E recorded \in BOOLEAN : Finish(r, recorded)
    PROVE  AllServable'
<1> DEFINE After == Places \ {"new", "read", "save", "call", "context"}
<1>1. CASE ModelFails(r)
  <2>1. turn[r].place \notin Idle \cup {"read"} /\ Goto(r, "over") /\ UNCHANGED <<config, contexts>>
    BY <1>1 DEF ModelFails, At, Idle
  <2>2. "over" \in After
    BY DEF Places
  <2>3. CASE Chats(r)
    <3>1. chats' = Marked(r, "user", "failed")
      BY <1>1, <2>3 DEF ModelFails
    <3> QED BY <2>1, <2>2, <2>3, <3>1, MarkKeepsServable
  <2>4. CASE ~Chats(r)
    <3>1. chats' = chats
      BY <1>1, <2>4 DEF ModelFails
    <3> QED BY <2>1, <2>2, <3>1, ChatsStayServable, ContextsStayServable, GoOnServable
  <2> QED BY <2>3, <2>4
<1>2. CASE MarkUser(r)
  <2>1. turn[r].place \notin Idle \cup {"read"} /\ turn[r].place = "userSent"
        /\ UNCHANGED <<config, contexts>>
    BY <1>2 DEF MarkUser, At, Idle
  <2>2. Chats(r)
    BY <2>1, SidedAt
  <2>3. PICK place \in {"reply", "finish"} : Goto(r, place)
    BY <1>2 DEF MarkUser
  <2>4. place \in After
    BY <2>3 DEF Places
  <2>5. chats' = Marked(r, "user", Verdict(r)) /\ Verdict(r) \in {"pending", "sent", "failed"}
    BY <1>2 DEF MarkUser, Verdict
  <2> QED BY <2>1, <2>2, <2>3, <2>4, <2>5, MarkKeepsServable
<1>3. CASE UndoUser(r) \/ UndoReply(r)
  <2>1. turn[r].place \notin Idle \cup {"read"} /\ turn[r].place \in {"undoUser", "undoReply"}
        /\ UNCHANGED <<config, contexts>>
    BY <1>3 DEF UndoUser, UndoReply, At, Idle
  <2>2. Chats(r)
    BY <2>1, SidedAt
  <2>3. PICK place \in {"undoReply", "over"} : Goto(r, place)
    BY <1>3 DEF UndoUser, UndoReply
  <2>4. place \in After
    BY <2>3 DEF Places
  <2>5. PICK role : chats' = Marked(r, role, "failed")
    BY <1>3 DEF UndoUser, UndoReply
  <2> QED BY <2>1, <2>2, <2>3, <2>4, <2>5, MarkKeepsServable
<1>4. CASE \E recorded \in BOOLEAN : Finish(r, recorded)
  <2>1. UNCHANGED <<config, chats, contexts>>
    BY <1>4 DEF Finish
  <2>2. PICK place \in {"over", "undoUser", "undoContext"} : Goto(r, place)
    BY <1>4 DEF Finish
  <2>3. place \in After
    BY <2>2 DEF Places
  <2> QED BY <2>1, <2>2, <2>3, ChatsStayServable, ContextsStayServable, GoOnServable
<1> QED BY <1>1, <1>2, <1>3, <1>4

LEMMA RestartKeepsServable ==
    ASSUME ImageLimitsGrow, Inv, AllServable, Restart
    PROVE  AllServable'
<1>1. PICK lim \in LimitSets, new \in LimitSets :
         /\ lim = Limits /\ new = Limits'
         /\ lim.imageBytes <= new.imageBytes /\ lim.imagePixels <= new.imagePixels
  <2>1. DOMAIN Configs = 1 .. Len(Configs) /\ Len(Configs) \in Nat
    BY ConfigsAssumption, LenProperties
  <2>2. config \in DOMAIN Configs /\ config + 1 \in DOMAIN Configs /\ config' = config + 1
    BY <2>1 DEF Inv, Restart
  <2>3. Configs[config] \in LimitSets /\ Configs[config + 1] \in LimitSets
    BY <2>1, <2>2, ConfigsAssumption, ElementOfSeq
  <2>4. Limits' = Configs[config + 1] /\ Limits = Configs[config]
    BY <2>2 DEF Limits
  <2> QED BY <2>2, <2>3, <2>4 DEF ImageLimitsGrow
<1>2. Servable(lim) \subseteq Servable(new) /\ ServableDocs(lim) \subseteq ServableDocs(new)
  BY <1>1, ServableGrows
<1>3. ASSUME NEW p \in Requests PROVE TurnServable(turn'[p], new)
  <2>1. turn[p] \in Turns
    BY DEF Inv
  <2>2. CASE turn[p].place \in Idle
    <3>1. turn'[p] = turn[p]
      BY <2>2 DEF Restart, UnderWay, Idle
    <3> QED BY <2>2, <3>1 DEF Idle, TurnServable
  <2>3. CASE turn[p].place \notin Idle
    <3>1. turn'[p] = [turn[p] EXCEPT !.place = "over"]
      BY <2>3 DEF Restart, UnderWay, Idle
    <3>2. turn'[p].place = "over"
      BY <2>1, <3>1 DEF Turns
    <3> QED BY <3>2 DEF TurnServable
  <2> QED BY <2>2, <2>3
<1>4. ASSUME NEW p \in Requests
      PROVE  ChatServable(chats'[p], new) /\ ContextServable(contexts'[p], new)
  <2>1. ChatServable(chats[p], lim) /\ ContextServable(contexts[p], lim)
    BY <1>1 DEF AllServable
  <2>2. ChatServable(chats[p], new)
    BY <1>2, <2>1, SeqGrows DEF ChatServable
  <2>3. ContextServable(contexts[p], new)
    BY <1>2, <2>1, SeqGrows DEF ContextServable
  <2>4. chats'[p] = chats[p] /\ contexts'[p] = contexts[p]
    BY DEF Restart
  <2> QED BY <2>2, <2>3, <2>4
<1> QED BY <1>1, <1>3, <1>4 DEF AllServable

LEMMA NextKeepsServable ==
    ASSUME ImageLimitsGrow, Inv, AllServable, [Next]_vars
    PROVE  AllServable'
<1>1. CASE UNCHANGED vars
  BY <1>1 DEF vars, AllServable, Limits
<1>2. ASSUME NEW r \in Requests, NEW ask \in Asks, NEW from \in Requests \cup {None},
             Receive(r, ask, from)
      PROVE  AllServable'
  BY <1>2, ReceiveKeepsServable
<1>3. ASSUME NEW r \in Requests, Read(r) PROVE AllServable'
  BY <1>3, ReadKeepsServable
<1>4. ASSUME NEW r \in Requests, NEW reply \in Replies, NEW incomplete \in BOOLEAN,
             ModelAnswers(r, reply, incomplete)
      PROVE  AllServable'
  BY <1>4, ModelAnswersKeepsServable
<1>5. ASSUME NEW r \in Requests, SaveUser(r) \/ SaveReply(r) PROVE AllServable'
  BY <1>5, SaveUserKeepsServable, SaveReplyKeepsServable
<1>6. ASSUME NEW r \in Requests, SaveContext(r) \/ UndoContext(r) PROVE AllServable'
  BY <1>6, SaveContextKeepsServable, UndoContextKeepsServable
<1>7. ASSUME NEW r \in Requests,
             \/ ModelFails(r) \/ MarkUser(r) \/ UndoUser(r) \/ UndoReply(r)
             \/ \E recorded \in BOOLEAN : Finish(r, recorded)
      PROVE  AllServable'
  BY <1>7, GotosKeepServable
<1>8. CASE Restart
  BY <1>8, RestartKeepsServable
<1> QED BY <1>1, <1>2, <1>3, <1>4, <1>5, <1>6, <1>7, <1>8 DEF Next

LEMMA InitServable ==
    ASSUME Init
    PROVE  AllServable
<1>1. ASSUME NEW r \in Requests
      PROVE  turn[r].place = "new" /\ chats[r] = None /\ contexts[r] = None
  BY DEF Init, NewTurn
<1> QED BY <1>1 DEF AllServable, TurnServable, ChatServable, ContextServable

LEMMA CallIsServed ==
    ASSUME Inv, AllServable
    PROVE  GraniteUnderstands
<1> SUFFICES ASSUME NEW r \in Requests, At(r, "call")
             PROVE  /\ Serves(turn[r].payload, Limits)
                    /\ Flattened(OllamaMessages(turn[r].payload)) = Blocks(turn[r].payload.input)
  BY DEF GraniteUnderstands
<1>1. PICK t : t = turn[r]
  OBVIOUS
<1>2. t.place = "call" /\ t.place \notin Idle
  BY <1>1 DEF At, Idle
<1>3. PICK lim \in LimitSets : lim = Limits
  BY <1>1, TurnFacts
<1>4. t \in Turns /\ Good(r, t, lim, chats) /\ t.ask \in AskTypes
  BY <1>1, <1>2, <1>3, TurnFacts
<1>5. 1 <= lim.tokens /\ lim.tokens <= lim.imageTokens
  BY <1>3, ConfigsAssumption DEF Inv, Limits
<1>6. ValidInput(t.ask, lim) /\ ValidParameters(t.ask, lim)
  BY <1>2, <1>4 DEF Good, Admitted
<1>7. /\ t.kept = BoundedHistory(t.past, CurrentMessages(t.ask.input), t.ask.instructions, lim)
      /\ t.payload = Payload(t.ask, t.past, lim)
  BY <1>2, <1>4 DEF Good, Built
<1>8. t.past \in Seq(Messages)
  BY <1>4 DEF Turns
<1>9. Kept(t.kept, lim)
  BY <1>1, <1>2, <1>3 DEF AllServable, TurnServable
<1>10. Serves(t.payload, lim) /\ Flattened(OllamaMessages(t.payload)) = Blocks(t.payload.input)
  BY <1>4, <1>5, <1>6, <1>7, <1>8, <1>9, PayloadIsServed
<1> QED BY <1>1, <1>3, <1>10

\* As long as no restart brings smaller limits for one image, Granite refuses nothing
\* that the API has let pass, though it checks all of it again with code of its own:
\* whatever was stored, continued and cut down, the payload of every turn satisfies
\* extract_messages and extract_generation_options, and Ollama gets its blocks in the
\* order of the payload, none lost and none twice.
THEOREM GraniteAlwaysUnderstands ==
    ASSUME ImageLimitsGrow
    PROVE  Spec => []GraniteUnderstands
<1>1. Init => AllServable
  BY InitServable
<1>2. Inv /\ AllServable /\ [Next]_vars => AllServable'
  BY NextKeepsServable
<1>3. Inv /\ AllServable => GraniteUnderstands
  BY CallIsServed
<1> QED BY <1>1, <1>2, <1>3, ConversationsCorrect, PTL DEF Spec
=============================================================================
