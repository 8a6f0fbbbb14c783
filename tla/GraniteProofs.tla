-------------------------------- MODULE GraniteProofs --------------------------------
(***************************************************************************)
(* Proofs about granite-llm-server, for every value of its constants: the  *)
(* admission queue (InferenceQueue) first, and then, on top of it, the      *)
(* endpoint that calls Ollama (GraniteGenerate).                           *)
(***************************************************************************)
EXTENDS GraniteGenerate, FiniteSetTheorems, SequenceTheorems, TLAPS

(***************************************************************************)
(* The conjuncts of QueueInvariant that speak of one queue record.         *)
(***************************************************************************)
Shape(q) ==
    /\ DOMAIN q = DOMAIN EmptyQueue
    /\ q.waiting \in Seq(Tickets)
    /\ q.active \in Nat
    /\ q.status \in [Tickets -> Status]
    /\ q.deadline \in [Tickets -> Nat]
    /\ q.decidedAt \in [Tickets -> Nat]
    /\ q.released \in [Tickets -> BOOLEAN]

Consistent(q) ==
    /\ Shape(q)
    /\ SlotsAccounted(q)
    /\ LineIsWaiting(q)
    /\ DeadlinesInOrder(q)
    /\ DeadlinesHonoured(q)
    /\ ReleasedWereAdmitted(q)
    /\ BytesFit(q)

-----------------------------------------------------------------------------
(***************************************************************************)
(* Sums of sizes.  The fold that BytesOf is counts the bytes one by one.   *)
(***************************************************************************)
\* One for each byte of the bodies of some tickets.
Units(S) == UNION {{t} \X (1..Bytes[t]) : t \in S}

LEMMA DisjointCount ==
    ASSUME NEW A, NEW B, IsFiniteSet(A), IsFiniteSet(B), A \cap B = {}
    PROVE  Cardinality(A \cup B) = Cardinality(A) + Cardinality(B)
<1> DEFINE common == Cardinality(A \cap B)
<1>1. common = 0
  BY FS_EmptySet
<1>2. Cardinality(A \cup B) = Cardinality(A) + Cardinality(B) - common
  BY FS_Union
<1>3. Cardinality(A) \in Nat /\ Cardinality(B) \in Nat
  BY FS_CardinalityType
<1> HIDE DEF common
<1> QED BY <1>1, <1>2, <1>3

LEMMA UnitsCount ==
    ASSUME NEW S, S \subseteq Tickets
    PROVE  /\ IsFiniteSet(S) /\ IsFiniteSet(Units(S)) /\ Cardinality(Units(S)) \in Nat
           /\ \A t \in S : Cardinality(Units(S)) = Bytes[t] + Cardinality(Units(S \ {t}))
<1>1. IsFiniteSet(S)
  BY TicketsAssumption, FS_Subset
<1>2. ASSUME NEW t \in Tickets
      PROVE  IsFiniteSet({t} \X (1..Bytes[t])) /\ Cardinality({t} \X (1..Bytes[t])) = Bytes[t]
  <2>1. Bytes[t] \in Nat
    BY TicketsAssumption
  <2>2. IsFiniteSet({t}) /\ Cardinality({t}) = 1
    BY FS_Singleton
  <2>3. IsFiniteSet(1..Bytes[t]) /\ Cardinality(1..Bytes[t]) = Bytes[t]
    <3>1. PICK n \in Nat : n = Bytes[t]
      BY <2>1
    <3>2. IsFiniteSet(1..n) /\ Cardinality(1..n) = n
      BY FS_Interval
    <3> QED BY <3>1, <3>2
  <2>4. Cardinality({t} \X (1..Bytes[t])) = Cardinality({t}) * Cardinality(1..Bytes[t])
    BY <2>2, <2>3, FS_Product
  <2>5. Cardinality({t} \X (1..Bytes[t])) = 1 * Bytes[t]
    BY <2>2, <2>3, <2>4
  <2>6. IsFiniteSet({t} \X (1..Bytes[t]))
    BY <2>2, <2>3, FS_Product
  <2> QED BY <2>1, <2>5, <2>6
<1>3. ASSUME NEW T, T \subseteq S PROVE IsFiniteSet(Units(T))
  <2> DEFINE each == [t \in T |-> {t} \X (1..Bytes[t])]
             all == {{t} \X (1..Bytes[t]) : t \in T}
  <2>1. IsFiniteSet(T)
    BY <1>1, <1>3, FS_Subset
  <2>2. each \in Surjection(T, all)
    BY DEF Surjection
  <2>3. IsFiniteSet(all)
    BY <2>1, <2>2, FS_Surjection
  <2>4. \A U \in all : IsFiniteSet(U)
    BY <1>2, <1>3
  <2> QED BY <2>3, <2>4, FS_UNION DEF Units
<1>4. ASSUME NEW t \in S
      PROVE  Cardinality(Units(S)) = Bytes[t] + Cardinality(Units(S \ {t}))
  <2> DEFINE one == {t} \X (1..Bytes[t])
             rest == Units(S \ {t})
  <2>1. Units(S) = rest \cup one /\ rest \cap one = {}
    BY DEF Units
  <2>2. IsFiniteSet(one) /\ Cardinality(one) = Bytes[t] /\ IsFiniteSet(rest)
    BY <1>2, <1>3
  <2>3. Cardinality(rest) \in Nat /\ Bytes[t] \in Nat
    BY <2>2, FS_CardinalityType, TicketsAssumption
  <2> HIDE DEF one, rest
  <2>4. Cardinality(rest \cup one) = Cardinality(rest) + Cardinality(one)
    BY <2>1, <2>2, DisjointCount
  <2>5. Cardinality(Units(S)) = Cardinality(rest) + Bytes[t]
    BY <2>1, <2>2, <2>4
  <2>6. Cardinality(Units(S)) = Bytes[t] + Cardinality(rest)
    BY <2>3, <2>5
  <2> QED BY <2>6 DEF rest
<1> QED BY <1>1, <1>3, <1>4, FS_CardinalityType

\* What the fold says of the function that it is defined by.
Folds(sum, S) ==
    sum = [s \in SUBSET S |-> IF s = {} THEN 0
                              ELSE Bytes[CHOOSE t \in s : TRUE] + sum[s \ {CHOOSE t \in s : TRUE}]]

LEMMA FoldIs ==
    ASSUME NEW S, S \subseteq Tickets, NEW sum, Folds(sum, S)
    PROVE  sum[S] = Cardinality(Units(S))
<1> DEFINE Wrong == {s \in SUBSET S : sum[s] # Cardinality(Units(s))}
<1>1. IsFiniteSet(S)
  BY UnitsCount
<1>2. IsWellFoundedOn(StrictSubsetOrdering(S), SUBSET S)
  BY <1>1, FS_StrictSubsetOrderingWellFounded, FS_FiniteSubsetsOfFinite
<1>3. ASSUME Wrong # {} PROVE FALSE
  <2>1. PICK s \in Wrong : \A r \in Wrong : ~(<<r, s>> \in StrictSubsetOrdering(S))
    BY <1>2, <1>3, WFMin
  <2>2. \A r \in SUBSET s : r # s => sum[r] = Cardinality(Units(r))
    BY <2>1 DEF StrictSubsetOrdering
  <2>3. s \in SUBSET S /\ sum[s] # Cardinality(Units(s))
    BY <2>1
  <2>4. CASE s = {}
    <3>1. Units({}) = {} /\ sum[s] = 0
      BY <2>3, <2>4 DEF Units, Folds
    <3> QED BY <2>3, <2>4, <3>1, FS_EmptySet
  <2>5. CASE s # {}
    <3>1. PICK t \in s : t = CHOOSE x \in s : TRUE
      BY <2>5
    <3>2. sum[s] = Bytes[t] + sum[s \ {t}]
      BY <2>3, <2>5, <3>1 DEF Folds
    <3>3. sum[s \ {t}] = Cardinality(Units(s \ {t}))
      BY <2>2, <3>1
    <3>4. Cardinality(Units(s)) = Bytes[t] + Cardinality(Units(s \ {t}))
      BY <2>3, <3>1, UnitsCount
    <3> QED BY <2>3, <3>2, <3>3, <3>4
  <2> QED BY <2>4, <2>5
<1> QED BY <1>3

LEMMA FoldExists ==
    ASSUME NEW S, S \subseteq Tickets
    PROVE  Folds([s \in SUBSET S |-> Cardinality(Units(s))], S)
<1> DEFINE sum == [s \in SUBSET S |-> Cardinality(Units(s))]
           next == [s \in SUBSET S |-> IF s = {} THEN 0
                       ELSE Bytes[CHOOSE t \in s : TRUE] + sum[s \ {CHOOSE t \in s : TRUE}]]
<1>1. ASSUME NEW s \in SUBSET S PROVE sum[s] = next[s]
  <2>1. CASE s = {}
    BY <2>1, FS_EmptySet DEF Units
  <2>2. CASE s # {}
    <3>1. PICK t \in s : t = CHOOSE x \in s : TRUE
      BY <2>2
    <3>2. next[s] = Bytes[t] + Cardinality(Units(s \ {t}))
      BY <2>2, <3>1
    <3> QED BY <3>1, <3>2, UnitsCount
  <2> QED BY <2>1, <2>2
<1> QED BY <1>1 DEF Folds

LEMMA BytesOfIs ==
    ASSUME NEW S, S \subseteq Tickets
    PROVE  BytesOf(S) = Cardinality(Units(S))
<1>1. BytesOf(S) = (CHOOSE sum : Folds(sum, S))[S]
  BY DEF BytesOf, MapThenSumSet, MapThenFoldSet, Folds
<1>2. Folds(CHOOSE sum : Folds(sum, S), S)
  BY FoldExists
<1> QED BY <1>1, <1>2, FoldIs

\* The sum of the sizes, one ticket after another.
LEMMA BytesOfParts ==
    ASSUME NEW S, S \subseteq Tickets
    PROVE  /\ BytesOf(S) \in Nat /\ BytesOf({}) = 0
           /\ \A t \in S : BytesOf(S) = Bytes[t] + BytesOf(S \ {t})
           /\ \A T \in SUBSET S : BytesOf(S) = BytesOf(T) + BytesOf(S \ T)
<1>1. BytesOf(S) \in Nat /\ BytesOf({}) = 0
  <2>1. Units({}) = {}
    BY DEF Units
  <2> QED BY <2>1, BytesOfIs, UnitsCount, FS_EmptySet
<1>2. \A t \in S : BytesOf(S) = Bytes[t] + BytesOf(S \ {t})
  BY BytesOfIs, UnitsCount
<1>3. ASSUME NEW T \in SUBSET S PROVE BytesOf(S) = BytesOf(T) + BytesOf(S \ T)
  <2> DEFINE a == Units(T)
             b == Units(S \ T)
  <2>1. Units(S) = a \cup b /\ a \cap b = {}
    BY DEF Units
  <2>2. IsFiniteSet(a) /\ IsFiniteSet(b)
    BY UnitsCount
  <2>3. /\ BytesOf(S) = Cardinality(Units(S))
        /\ BytesOf(T) = Cardinality(a) /\ BytesOf(S \ T) = Cardinality(b)
    BY BytesOfIs
  <2> HIDE DEF a, b
  <2>4. Cardinality(a \cup b) = Cardinality(a) + Cardinality(b)
    BY <2>1, <2>2, DisjointCount
  <2> QED BY <2>1, <2>3, <2>4
<1> QED BY <1>1, <1>2, <1>3

\* What is left of the sum when some tickets, or one, go.
LEMMA BytesLeft ==
    ASSUME NEW S, S \subseteq Tickets, NEW T, T \subseteq S, NEW R, R = S \ T
    PROVE  /\ BytesOf(T) \in Nat /\ BytesOf(R) \in Nat
           /\ BytesOf(S) = BytesOf(T) + BytesOf(R)
<1>1. BytesOf(S) = BytesOf(T) + BytesOf(S \ T)
  BY BytesOfParts
<1>2. BytesOf(T) \in Nat /\ BytesOf(S \ T) \in Nat
  <2>1. T \subseteq Tickets /\ S \ T \subseteq Tickets
    OBVIOUS
  <2> QED BY <2>1, BytesOfParts
<1> QED BY <1>1, <1>2

LEMMA BytesLeftOne ==
    ASSUME NEW S, S \subseteq Tickets, NEW t \in S, NEW R, R = S \ {t}
    PROVE  BytesOf(R) \in Nat /\ BytesOf(S) = Bytes[t] + BytesOf(R)
<1>1. BytesOf(S) = Bytes[t] + BytesOf(S \ {t})
  BY BytesOfParts
<1>2. BytesOf(S \ {t}) \in Nat
  <2>1. S \ {t} \subseteq Tickets
    OBVIOUS
  <2> QED BY <2>1, BytesOfParts
<1> QED BY <1>1, <1>2

-----------------------------------------------------------------------------
(* A set of positions that is closed towards the head is an interval.      *)
LEMMA HeadSegment ==
    ASSUME NEW n \in Nat, NEW D \in SUBSET (1..n),
           \A i \in D : \A j \in 1..i : j \in D
    PROVE  /\ Cardinality(D) \in 0..n
           /\ D = 1..Cardinality(D)
<1> DEFINE m == Cardinality(D)
<1>0. IsFiniteSet(1..n) /\ Cardinality(1..n) = n
  BY FS_Interval
<1>1. IsFiniteSet(D) /\ m \in Nat /\ m <= n
  <2>1. IsFiniteSet(D) /\ m <= n
    <3>1. PICK J : J = 1..n /\ IsFiniteSet(J) /\ Cardinality(J) = n /\ D \in SUBSET J
      BY <1>0
    <3>2. IsFiniteSet(D) /\ Cardinality(D) <= Cardinality(J)
      BY <3>1, FS_Subset
    <3> QED BY <3>1, <3>2
  <2> QED BY <2>1, FS_CardinalityType
<1>2. ASSUME NEW i \in D PROVE i <= m
  <2>1. 1..i \in SUBSET D
    BY <1>2
  <2>2. Cardinality(1..i) <= m
    BY <2>1, <1>1, FS_Subset
  <2>3. Cardinality(1..i) = i
    BY <1>2, FS_Interval
  <2> QED BY <2>2, <2>3
<1>3. D \in SUBSET (1..m)
  BY <1>1, <1>2
<1>4. IsFiniteSet(1..m) /\ Cardinality(1..m) = m
  BY <1>1, FS_Interval
<1>5. D = 1..m
  BY <1>3, <1>4, FS_Subset
<1> QED BY <1>1, <1>5

(* ExpiredHeads is what the first loop of _advance_locked removes.         *)
LEMMA ExpiredHeadsCharacterised ==
    ASSUME NEW q, Shape(q), NEW now \in Nat
    PROVE  /\ ExpiredHeads(q, now) \in 0..Len(q.waiting)
           /\ \A i \in 1..ExpiredHeads(q, now) : Expired(q, q.waiting[i], now)
           /\ ExpiredHeads(q, now) < Len(q.waiting) =>
                ~Expired(q, q.waiting[ExpiredHeads(q, now) + 1], now)
<1> DEFINE n == Len(q.waiting)
           D == {i \in 1..n : \A j \in 1..i : Expired(q, q.waiting[j], now)}
           k == Cardinality(D)
<1>1. n \in Nat
  BY LenProperties DEF Shape
<1>2. k \in 0..n /\ D = 1..k
  <2>1. \A i \in D : \A j \in 1..i : j \in D
    BY <1>1
  <2> QED BY <1>1, <2>1, HeadSegment
<1>3. \A i \in 1..k : Expired(q, q.waiting[i], now)
  BY <1>1, <1>2
<1>4. k < n => ~Expired(q, q.waiting[k + 1], now)
  <2> SUFFICES ASSUME k < n, Expired(q, q.waiting[k + 1], now) PROVE FALSE
    OBVIOUS
  <2>1. k + 1 \in 1..n
    BY <1>1, <1>2
  <2>2. ASSUME NEW j \in 1..(k + 1) PROVE Expired(q, q.waiting[j], now)
    <3> HIDE DEF k
    <3>1. j \in 1..k \/ j = k + 1
      BY <1>2
    <3> QED BY <3>1, <1>3
  <2>3. k + 1 \in D
    BY <2>1, <2>2
  <2>4. k + 1 \in 1..k
    BY <2>3, <1>2
  <2> HIDE DEF k
  <2> QED BY <2>4, <1>2
<1>5. \E h \in 0..n : /\ \A i \in 1..h : Expired(q, q.waiting[i], now)
                      /\ h < n => ~Expired(q, q.waiting[h + 1], now)
  BY <1>2, <1>3, <1>4
<1> HIDE DEF n
<1> QED BY <1>5 DEF ExpiredHeads, n

(* How many heads are admitted, and the fields that Advance produces.      *)
LEMMA AdmittedHeadsBounds ==
    ASSUME NEW q, Consistent(q), NEW now \in Nat
    PROVE  /\ AdmittedHeads(q, now) \in 0..(Len(q.waiting) - ExpiredHeads(q, now))
           /\ AdmittedHeads(q, now) <= MaxActive - q.active
           /\ \/ AdmittedHeads(q, now) = Len(q.waiting) - ExpiredHeads(q, now)
              \/ AdmittedHeads(q, now) = MaxActive - q.active
<1>1. Shape(q) /\ q.active \in Nat /\ q.active <= MaxActive
  BY DEF Consistent, Shape, SlotsAccounted
<1>2. ExpiredHeads(q, now) \in 0..Len(q.waiting)
  BY <1>1, ExpiredHeadsCharacterised
<1>3. Len(q.waiting) \in Nat
  BY <1>1, LenProperties DEF Shape
<1> QED BY <1>1, <1>2, <1>3, LimitsAssumption DEF AdmittedHeads

LEMMA AdvanceFields ==
    ASSUME NEW q, Shape(q), NEW now
    PROVE  LET r   == Advance(q, now)
               out == TimedOutBy(q, now)
               in  == AdmittedBy(q, now)
           IN  /\ DOMAIN r = DOMAIN EmptyQueue
               /\ r.waiting = SubSeq(q.waiting,
                                ExpiredHeads(q, now) + AdmittedHeads(q, now) + 1,
                                Len(q.waiting))
               /\ r.active = q.active + AdmittedHeads(q, now)
               /\ r.status = [t \in Tickets |-> CASE t \in out -> "timed_out"
                                                  [] t \in in  -> "admitted"
                                                  [] OTHER     -> q.status[t]]
               /\ r.deadline = q.deadline
               /\ r.decidedAt = [t \in Tickets |->
                                   IF t \in out \cup in THEN now ELSE q.decidedAt[t]]
               /\ r.released = q.released
BY DEF Shape, Advance, EmptyQueue

(* The heads that leave the line are distinct waiting tickets, and the     *)
(* rest of the line keeps its order.                                       *)
LEMMA AdvanceMoves ==
    ASSUME NEW q, Consistent(q), NEW now \in Nat
    PROVE  LET r == Advance(q, now)
               k == ExpiredHeads(q, now)
               n == AdmittedHeads(q, now)
           IN  /\ r.waiting \in Seq(Tickets)
               /\ Len(r.waiting) = Len(q.waiting) - k - n
               /\ \A i \in 1..Len(r.waiting) :
                    /\ k + n + i \in 1..Len(q.waiting)
                    /\ r.waiting[i] = q.waiting[k + n + i]
               /\ TimedOutBy(q, now) \subseteq InLine(q)
               /\ AdmittedBy(q, now) \subseteq InLine(q)
               /\ TimedOutBy(q, now) \cap AdmittedBy(q, now) = {}
               /\ InLine(r) = InLine(q) \ (TimedOutBy(q, now) \cup AdmittedBy(q, now))
<1> DEFINE r == Advance(q, now)
           w == q.waiting
           k == ExpiredHeads(q, now)
           n == AdmittedHeads(q, now)
<1>1. w \in Seq(Tickets) /\ Len(w) \in Nat /\ \A i \in 1..Len(w) : w[i] \in Tickets
  BY LenProperties, ElementOfSeq DEF Consistent, Shape
<1>2. k \in 0..Len(w) /\ n \in 0..(Len(w) - k)
  BY ExpiredHeadsCharacterised, AdmittedHeadsBounds DEF Consistent
<1>3. r.waiting = SubSeq(w, k + n + 1, Len(w))
  BY AdvanceFields DEF Consistent
<1>4. \A i, j \in 1..Len(w) : w[i] = w[j] => i = j
  BY DEF Consistent, LineIsWaiting
<1>5. /\ TimedOutBy(q, now) = {w[i] : i \in 1..k}
      /\ AdmittedBy(q, now) = {w[i] : i \in (k + 1)..(k + n)}
  BY DEF TimedOutBy, AdmittedBy
<1>10. InLine(r) = {r.waiting[i] : i \in 1..Len(r.waiting)}
  BY DEF InLine
<1>11. InLine(q) = {w[i] : i \in 1..Len(w)}
  BY DEF InLine
<1> HIDE DEF r, w, k, n
<1>6. \A i \in (k + n + 1)..Len(w) : w[i] \in Tickets
  BY <1>1, <1>2
<1>7. /\ r.waiting \in Seq(Tickets)
      /\ Len(r.waiting) = Len(w) - k - n
      /\ \A i \in 1..Len(r.waiting) : /\ k + n + i \in 1..Len(w)
                                      /\ r.waiting[i] = w[k + n + i]
  <2>1. k + n + 1 \in Int /\ Len(w) \in Int
    BY <1>1, <1>2
  <2>2. /\ r.waiting \in Seq(Tickets)
        /\ Len(r.waiting) = IF k + n + 1 <= Len(w) THEN Len(w) - (k + n + 1) + 1 ELSE 0
        /\ \A i \in 1..(Len(w) - (k + n + 1) + 1) : r.waiting[i] = w[(k + n + 1) + i - 1]
    BY <1>3, <1>6, <2>1, SubSeqProperties
  <2>3. Len(r.waiting) = Len(w) - k - n
    BY <2>2, <1>1, <1>2
  <2>4. ASSUME NEW i \in 1..Len(r.waiting)
        PROVE  k + n + i \in 1..Len(w) /\ r.waiting[i] = w[k + n + i]
    <3>1. i \in 1..(Len(w) - (k + n + 1) + 1) /\ k + n + i \in 1..Len(w)
      BY <2>3, <2>4, <1>1, <1>2
    <3>2. (k + n + 1) + i - 1 = k + n + i
      BY <1>1, <1>2
    <3> QED BY <2>2, <3>1, <3>2
  <2> QED BY <2>2, <2>3, <2>4
<1>8. /\ TimedOutBy(q, now) \subseteq InLine(q)
      /\ AdmittedBy(q, now) \subseteq InLine(q)
      /\ TimedOutBy(q, now) \cap AdmittedBy(q, now) = {}
  BY <1>1, <1>2, <1>4, <1>5, <1>11
<1>9. InLine(r) = InLine(q) \ (TimedOutBy(q, now) \cup AdmittedBy(q, now))
  <2>1. ASSUME NEW t \in InLine(r)
        PROVE  t \in InLine(q) \ (TimedOutBy(q, now) \cup AdmittedBy(q, now))
    <3>1. PICK i \in 1..Len(r.waiting) : t = r.waiting[i]
      BY <1>10
    <3>2. k + n + i \in 1..Len(w) /\ t = w[k + n + i]
      BY <3>1, <1>7
    <3>3. \A j \in 1..(k + n) : w[j] # t
      BY <3>1, <3>2, <1>1, <1>2, <1>4, <1>7
    <3> QED BY <3>2, <3>3, <1>1, <1>2, <1>5, <1>11
  <2>2. ASSUME NEW t \in InLine(q), t \notin TimedOutBy(q, now), t \notin AdmittedBy(q, now)
        PROVE  t \in InLine(r)
    <3>1. PICK i \in 1..Len(w) : t = w[i]
      BY <1>11
    <3>2. i \notin 1..k /\ i \notin (k + 1)..(k + n)
      BY <3>1, <2>2, <1>5
    <3>3. i - k - n \in 1..Len(r.waiting) /\ k + n + (i - k - n) = i
      BY <3>2, <1>1, <1>2, <1>7
    <3> QED BY <3>1, <3>3, <1>7, <1>10
  <2> QED BY <2>1, <2>2
<1> QED BY <1>7, <1>8, <1>9 DEF r, w, k, n

(* A run of distinct positions of the line holds as many tickets.          *)
LEMMA SegmentCardinality ==
    ASSUME NEW w \in Seq(Tickets), NEW a \in Nat, NEW b \in Nat, a + b <= Len(w),
           \A i, j \in 1..Len(w) : w[i] = w[j] => i = j
    PROVE  LET S == {w[i] : i \in (a + 1)..(a + b)}
           IN  IsFiniteSet(S) /\ Cardinality(S) = b
<1> DEFINE I == (a + 1)..(a + b)
           S == {w[i] : i \in I}
           f == [i \in I |-> w[i]]
<1>1. IsFiniteSet(I) /\ Cardinality(I) = b
  <2>1. Cardinality(I) = IF a + 1 > a + b THEN 0 ELSE (a + b) - (a + 1) + 1
    BY FS_Interval
  <2>2. IsFiniteSet(I)
    BY FS_Interval
  <2> QED BY <2>1, <2>2
<1>2. I \subseteq 1..Len(w)
  BY LenProperties
<1>3. f \in Bijection(I, S)
  <2>1. f \in [I -> S]
    OBVIOUS
  <2>2. IsInjective(f)
    BY <1>2 DEF IsInjective
  <2>3. \A t \in S : \E i \in I : f[i] = t
    OBVIOUS
  <2> QED BY <2>1, <2>2, <2>3 DEF Bijection, Injection, Surjection
<1>4. ExistsBijection(I, S)
  BY <1>3 DEF ExistsBijection
<1> QED BY <1>1, <1>4, FS_Bijection

(* The bytes of those who leave the line are taken off the account.        *)
LEMMA AdvanceBytes ==
    ASSUME NEW q, Consistent(q), NEW now \in Nat
    PROVE  BytesFit(Advance(q, now))
<1> DEFINE r == Advance(q, now)
           gone == TimedOutBy(q, now) \cup AdmittedBy(q, now)
           k == ExpiredHeads(q, now)
           n == AdmittedHeads(q, now)
<1>1. r.bytes = q.bytes - BytesOf(gone)
  BY DEF Consistent, Shape, Advance, EmptyQueue
<1>2. gone \subseteq InLine(q) /\ InLine(r) = InLine(q) \ gone /\ Len(r.waiting) = Len(q.waiting) - k - n
  BY AdvanceMoves
<1>3. InLine(q) \subseteq Tickets /\ Len(q.waiting) \in Nat
  BY LenProperties, ElementOfSeq DEF Consistent, Shape, InLine
<1>4. k \in 0..Len(q.waiting) /\ n \in 0..(Len(q.waiting) - k)
  BY ExpiredHeadsCharacterised, AdmittedHeadsBounds DEF Consistent
<1>5. q.bytes = BytesOf(InLine(q)) /\ q.bytes \in 0..MaxQueuedBytes /\ Len(q.waiting) <= MaxWaiting
  BY DEF Consistent, BytesFit
<1> HIDE DEF r, gone, k, n
<1>6. /\ BytesOf(InLine(q)) = BytesOf(gone) + BytesOf(InLine(r))
      /\ BytesOf(gone) \in Nat /\ BytesOf(InLine(r)) \in Nat
  <2> DEFINE line == InLine(q)
             left == InLine(r)
  <2>1. line \subseteq Tickets /\ gone \subseteq line /\ left = line \ gone
    BY <1>2, <1>3
  <2> HIDE DEF line, left
  <2>2. BytesOf(line) = BytesOf(gone) + BytesOf(left) /\ BytesOf(gone) \in Nat /\ BytesOf(left) \in Nat
    BY <2>1, BytesLeft
  <2> QED BY <2>2 DEF line, left
<1> QED BY <1>1, <1>2, <1>3, <1>4, <1>5, <1>6, LimitsAssumption DEF BytesFit, r

(* Advancing the line keeps the record consistent, leaves no slot idle     *)
(* while somebody waits, and touches no ticket outside the line.           *)
LEMMA AdvanceConsistent ==
    ASSUME NEW q, Consistent(q), NEW now \in Nat
    PROVE  /\ Consistent(Advance(q, now))
           /\ WorkConserving(Advance(q, now))
           /\ \A t \in Tickets : Advance(q, now).status[t] = "waiting" => q.status[t] = "waiting"
           /\ \A t \in Tickets : t \notin InLine(q) => Advance(q, now).status[t] = q.status[t]
<1> DEFINE r   == Advance(q, now)
           w   == q.waiting
           k   == ExpiredHeads(q, now)
           n   == AdmittedHeads(q, now)
           out == TimedOutBy(q, now)
           in  == AdmittedBy(q, now)
<1>1. Shape(q) /\ SlotsAccounted(q) /\ LineIsWaiting(q) /\ DeadlinesInOrder(q)
      /\ DeadlinesHonoured(q) /\ ReleasedWereAdmitted(q)
  BY DEF Consistent
<1>2. /\ DOMAIN r = DOMAIN EmptyQueue
      /\ r.active = q.active + n
      /\ r.status = [t \in Tickets |-> CASE t \in out -> "timed_out"
                                         [] t \in in  -> "admitted"
                                         [] OTHER     -> q.status[t]]
      /\ r.deadline = q.deadline
      /\ r.decidedAt = [t \in Tickets |->
                          IF t \in out \cup in THEN now ELSE q.decidedAt[t]]
      /\ r.released = q.released
  BY <1>1, AdvanceFields
<1>3. /\ r.waiting \in Seq(Tickets)
      /\ Len(r.waiting) = Len(w) - k - n
      /\ \A i \in 1..Len(r.waiting) : /\ k + n + i \in 1..Len(w)
                                      /\ r.waiting[i] = w[k + n + i]
      /\ out \subseteq InLine(q)
      /\ in \subseteq InLine(q)
      /\ out \cap in = {}
      /\ InLine(r) = InLine(q) \ (out \cup in)
  BY AdvanceMoves
<1>4. /\ w \in Seq(Tickets) /\ Len(w) \in Nat
      /\ \A i \in 1..Len(w) : w[i] \in Tickets
      /\ InLine(q) \subseteq Tickets
  BY <1>1, LenProperties, ElementOfSeq DEF Shape, InLine
<1>5. k \in 0..Len(w) /\ n \in 0..(Len(w) - k) /\ n <= MaxActive - q.active
      /\ (n = Len(w) - k \/ n = MaxActive - q.active)
  BY <1>1, ExpiredHeadsCharacterised, AdmittedHeadsBounds
<1>6. /\ out = {w[i] : i \in 1..k}
      /\ in = {w[i] : i \in (k + 1)..(k + n)}
      /\ InLine(q) = {w[i] : i \in 1..Len(w)}
      /\ \A i, j \in 1..Len(w) : w[i] = w[j] => i = j
  BY <1>1 DEF TimedOutBy, AdmittedBy, InLine, LineIsWaiting
<1>7. /\ \A i \in 1..k : q.deadline[w[i]] <= now
      /\ k < Len(w) => ~(q.deadline[w[k + 1]] <= now)
  BY <1>1, ExpiredHeadsCharacterised DEF Expired
<1>8. q.active \in Nat /\ q.active <= MaxActive /\ MaxActive \in Nat
  BY <1>1, LimitsAssumption DEF Shape, SlotsAccounted
<1>9. \A t \in Tickets : /\ t \in out => r.status[t] = "timed_out"
                         /\ t \in in => r.status[t] = "admitted"
                         /\ t \notin out \cup in => r.status[t] = q.status[t]
  BY <1>2, <1>3
<1>10. \A t \in InLine(q) : q.status[t] = "waiting"
  BY <1>1, <1>4 DEF LineIsWaiting
<1> HIDE DEF r, w, k, n, out, in
<1>11. Shape(r)
  <2>1. r.active \in Nat
    BY <1>2, <1>5, <1>8
  <2>2. r.status \in [Tickets -> Status]
    <3>1. DOMAIN r.status = Tickets /\ r.status = [t \in Tickets |-> r.status[t]]
      BY <1>2
    <3>2. \A t \in Tickets : r.status[t] \in Status
      BY <1>1, <1>9 DEF Shape, Status
    <3> QED BY <3>1, <3>2
  <2>3. r.decidedAt \in [Tickets -> Nat]
    BY <1>1, <1>2 DEF Shape
  <2> QED BY <1>1, <1>2, <1>3, <2>1, <2>2, <2>3 DEF Shape
<1>12. SlotsAccounted(r)
  <2>1. Holders(r) = Holders(q) \cup in
    <3>1. \A t \in in : t \in Tickets /\ q.status[t] = "waiting" /\ ~q.released[t]
      BY <1>1, <1>3, <1>4, <1>10 DEF ReleasedWereAdmitted
    <3>2. \A t \in out : t \in Tickets /\ q.status[t] = "waiting"
      BY <1>3, <1>4, <1>10
    <3> QED BY <3>1, <3>2, <1>2, <1>3, <1>9 DEF Holders
  <2>2. Holders(q) \cap in = {}
    BY <1>3, <1>4, <1>10 DEF Holders
  <2>3. IsFiniteSet(Holders(q)) /\ Cardinality(Holders(q)) = q.active
    <3>1. Holders(q) \in SUBSET Tickets
      BY DEF Holders
    <3> QED BY <3>1, <1>1, TicketsAssumption, FS_Subset DEF SlotsAccounted
  <2>4. IsFiniteSet(in) /\ Cardinality(in) = n
    <3>1. k \in Nat /\ n \in Nat /\ k + n <= Len(w)
      BY <1>4, <1>5
    <3>2. \A i, j \in 1..Len(w) : w[i] = w[j] => i = j
      BY <1>6
    <3>3. LET S == {w[i] : i \in (k + 1)..(k + n)}
          IN  IsFiniteSet(S) /\ Cardinality(S) = n
      BY <1>4, <3>1, <3>2, SegmentCardinality
    <3> QED BY <3>3, <1>6
  <2>5. Cardinality(Holders(q) \cup in) = q.active + n - 0
    BY <2>2, <2>3, <2>4, FS_Union, FS_EmptySet
  <2> QED BY <2>1, <2>5, <1>2, <1>5, <1>8 DEF SlotsAccounted
<1>13. LineIsWaiting(r)
  <2>1. ASSUME NEW i \in 1..Len(r.waiting), NEW j \in 1..Len(r.waiting),
               r.waiting[i] = r.waiting[j]
        PROVE  i = j
    <3>1. k + n + i = k + n + j
      BY <2>1, <1>3, <1>6
    <3> QED BY <3>1, <1>3, <1>4, <1>5
  <2>2. ASSUME NEW t \in Tickets
        PROVE  r.status[t] = "waiting" <=> t \in InLine(r)
    BY <1>1, <1>3, <1>9 DEF LineIsWaiting
  <2> QED BY <2>1, <2>2 DEF LineIsWaiting
<1>14. DeadlinesInOrder(r)
  <2>1. ASSUME NEW i \in 1..Len(r.waiting), NEW j \in 1..Len(r.waiting), i < j
        PROVE  r.deadline[r.waiting[i]] <= r.deadline[r.waiting[j]]
    <3>1. /\ k + n + i \in 1..Len(w) /\ k + n + j \in 1..Len(w)
          /\ k + n + i < k + n + j
      BY <2>1, <1>3, <1>4, <1>5
    <3>2. q.deadline[w[k + n + i]] <= q.deadline[w[k + n + j]]
      BY <3>1, <1>1 DEF DeadlinesInOrder, w
    <3> QED BY <3>2, <1>2, <1>3
  <2> QED BY <2>1 DEF DeadlinesInOrder
<1>15. DeadlinesHonoured(r)
  <2>1. ASSUME NEW t \in in PROVE now < q.deadline[t]
    <3>1. PICK i \in (k + 1)..(k + n) : t = w[i]
      BY <1>6
    <3>2. k + 1 \in 1..Len(w) /\ i \in 1..Len(w) /\ k < Len(w)
      BY <3>1, <1>4, <1>5
    <3>3. /\ q.deadline[w[k + 1]] \in Nat /\ q.deadline[w[i]] \in Nat
      BY <3>2, <1>1, <1>4 DEF Shape
    <3>4. q.deadline[w[k + 1]] <= q.deadline[w[i]]
      BY <3>1, <3>2, <3>3, <1>1, <1>5 DEF DeadlinesInOrder, w
    <3> QED BY <3>1, <3>2, <3>3, <3>4, <1>7
  <2>2. ASSUME NEW t \in out PROVE q.deadline[t] <= now
    BY <1>6, <1>7
  <2>3. ASSUME NEW t \in Tickets
        PROVE  /\ r.status[t] = "admitted" /\ WaitTimeout > 0 => r.decidedAt[t] < r.deadline[t]
               /\ r.status[t] = "timed_out" => r.deadline[t] <= r.decidedAt[t]
    <3>1. CASE t \in in
      BY <3>1, <2>1, <1>2, <1>9
    <3>2. CASE t \in out
      BY <3>2, <2>2, <1>2, <1>9
    <3>3. CASE t \notin out \cup in
      BY <3>3, <1>1, <1>2, <1>9 DEF DeadlinesHonoured
    <3> QED BY <3>1, <3>2, <3>3
  <2> QED BY <2>3 DEF DeadlinesHonoured
<1>16. ReleasedWereAdmitted(r)
  BY <1>1, <1>2, <1>3, <1>9, <1>10 DEF ReleasedWereAdmitted
<1>17. WorkConserving(r)
  <2> SUFFICES ASSUME r.waiting # <<>> PROVE r.active = MaxActive
    BY DEF WorkConserving
  <2>1. Len(r.waiting) # 0
    BY <1>3, EmptySeq
  <2> QED BY <2>1, <1>2, <1>3, <1>4, <1>5, <1>8
<1>18. \A t \in Tickets : r.status[t] = "waiting" => q.status[t] = "waiting"
  BY <1>9
<1>19. \A t \in Tickets : t \notin InLine(q) => r.status[t] = q.status[t]
  BY <1>3, <1>9
<1>20. BytesFit(r)
  BY AdvanceBytes DEF r
<1> QED BY <1>11, <1>12, <1>13, <1>14, <1>15, <1>16, <1>17, <1>18, <1>19, <1>20 DEF r, Consistent

(* What request_slot does after advancing: the newcomer is decided, or     *)
(* goes to the end of the line with the latest deadline of all.            *)
LEMMA EnterConsistent ==
    ASSUME NEW q, Consistent(q), WorkConserving(q), NEW now \in Nat,
           ArrivalsPast(q, now),
           NEW t \in Tickets, q.status[t] = "unborn"
    PROVE  /\ Consistent(Enter(q, t, now))
           /\ WorkConserving(Enter(q, t, now))
           /\ ArrivalsPast(Enter(q, t, now), now)
<1> DEFINE r == Enter(q, t, now)
           v == Verdict(q, t)
<1>1. Shape(q) /\ SlotsAccounted(q) /\ LineIsWaiting(q) /\ DeadlinesInOrder(q)
      /\ DeadlinesHonoured(q) /\ ReleasedWereAdmitted(q)
  BY DEF Consistent
<1>2. /\ DOMAIN r = DOMAIN EmptyQueue
      /\ r.waiting = IF v = "waiting" THEN Append(q.waiting, t) ELSE q.waiting
      /\ r.active = IF v = "admitted" THEN q.active + 1 ELSE q.active
      /\ r.status = [q.status EXCEPT ![t] = v]
      /\ r.deadline = [q.deadline EXCEPT ![t] = now + WaitTimeout]
      /\ r.decidedAt = [q.decidedAt EXCEPT ![t] = IF v = "waiting" THEN q.decidedAt[t] ELSE now]
      /\ r.released = q.released
  BY <1>1 DEF Shape, Enter, EmptyQueue
<1>3. /\ v \in Status \ {"unborn"}
      /\ v = "admitted" => q.waiting = <<>> /\ q.active < MaxActive
      /\ v = "waiting" => WaitTimeout # 0 /\ ~(q.waiting = <<>> /\ q.active < MaxActive)
      /\ v = "timed_out" => WaitTimeout = 0
  BY DEF Verdict, Status, Refused
<1>4. WaitTimeout \in Nat /\ MaxActive \in Nat
  BY TimeAssumption, LimitsAssumption
<1>5. /\ q.waiting \in Seq(Tickets) /\ Len(q.waiting) \in Nat
      /\ \A i \in 1..Len(q.waiting) : q.waiting[i] \in Tickets /\ q.waiting[i] # t
  <2>1. \A i \in 1..Len(q.waiting) : q.waiting[i] \in Tickets
    BY <1>1, ElementOfSeq DEF Shape
  <2>2. t \notin InLine(q)
    BY <1>1 DEF LineIsWaiting
  <2> QED BY <1>1, <2>1, <2>2, LenProperties DEF Shape, InLine
<1>6. v = "waiting" => /\ r.waiting \in Seq(Tickets)
                       /\ Len(r.waiting) = Len(q.waiting) + 1
                       /\ \A i \in 1..Len(q.waiting) : r.waiting[i] = q.waiting[i]
                       /\ r.waiting[Len(q.waiting) + 1] = t
  BY <1>2, <1>5, AppendProperties
<1>7. v # "waiting" => r.waiting = q.waiting
  BY <1>2
<1>8. q.active \in Nat /\ q.active <= MaxActive
  BY <1>1 DEF Shape, SlotsAccounted
<1> HIDE DEF r, v
<1>9. Shape(r)
  <2>1. r.waiting \in Seq(Tickets)
    BY <1>5, <1>6, <1>7
  <2>2. r.active \in Nat
    BY <1>2, <1>8
  <2>3. r.status \in [Tickets -> Status]
    BY <1>1, <1>2, <1>3 DEF Shape
  <2>4. r.deadline \in [Tickets -> Nat] /\ r.decidedAt \in [Tickets -> Nat]
    BY <1>1, <1>2, <1>4 DEF Shape
  <2> QED BY <1>1, <1>2, <2>1, <2>2, <2>3, <2>4 DEF Shape
<1>10. \A u \in Tickets : r.status[u] = IF u = t THEN v ELSE q.status[u]
  BY <1>1, <1>2 DEF Shape
<1>11. \A u \in Tickets : r.deadline[u] = IF u = t THEN now + WaitTimeout ELSE q.deadline[u]
  BY <1>1, <1>2 DEF Shape
<1>12. SlotsAccounted(r)
  <2>1. ~q.released[t]
    BY <1>1 DEF ReleasedWereAdmitted
  <2>2. t \notin Holders(q)
    BY DEF Holders
  <2>3. IsFiniteSet(Holders(q)) /\ Cardinality(Holders(q)) = q.active
    <3>1. Holders(q) \in SUBSET Tickets
      BY DEF Holders
    <3> QED BY <3>1, <1>1, TicketsAssumption, FS_Subset DEF SlotsAccounted
  <2>4. CASE v = "admitted"
    <3>1. Holders(r) = Holders(q) \cup {t}
      BY <2>1, <2>4, <1>2, <1>10 DEF Holders
    <3>2. Cardinality(Holders(r)) = q.active + 1
      BY <2>2, <2>3, <3>1, FS_AddElement
    <3> QED BY <3>2, <2>4, <1>2, <1>3, <1>4, <1>8 DEF SlotsAccounted
  <2>5. CASE v # "admitted"
    <3>1. Holders(r) = Holders(q)
      BY <2>5, <1>2, <1>10 DEF Holders
    <3> QED BY <3>1, <2>3, <2>5, <1>2, <1>8 DEF SlotsAccounted
  <2> QED BY <2>4, <2>5
<1>13. LineIsWaiting(r) /\ DeadlinesInOrder(r)
  <2>1. CASE v = "waiting"
    <3>1. ASSUME NEW i \in 1..Len(r.waiting), NEW j \in 1..Len(r.waiting),
                 r.waiting[i] = r.waiting[j]
          PROVE  i = j
      <4>1. CASE i = Len(q.waiting) + 1
        BY <4>1, <3>1, <2>1, <1>5, <1>6
      <4>2. CASE j = Len(q.waiting) + 1
        BY <4>2, <3>1, <2>1, <1>5, <1>6
      <4>3. CASE i \in 1..Len(q.waiting) /\ j \in 1..Len(q.waiting)
        BY <4>3, <3>1, <2>1, <1>1, <1>6 DEF LineIsWaiting
      <4> QED BY <4>1, <4>2, <4>3, <2>1, <1>5, <1>6
    <3>2. InLine(r) = InLine(q) \cup {t}
      <4>1. \A i \in 1..(Len(q.waiting) + 1) : i \in 1..Len(q.waiting) \/ i = Len(q.waiting) + 1
        BY <1>5
      <4>2. \A i \in 1..Len(q.waiting) : i \in 1..(Len(q.waiting) + 1)
        BY <1>5
      <4>3. Len(q.waiting) + 1 \in 1..(Len(q.waiting) + 1)
        BY <1>5
      <4> QED BY <4>1, <4>2, <4>3, <2>1, <1>6 DEF InLine
    <3>3. \A u \in Tickets : r.status[u] = "waiting" <=> u \in InLine(r)
      BY <2>1, <3>2, <1>1, <1>10 DEF LineIsWaiting
    <3>4. ASSUME NEW i \in 1..Len(r.waiting), NEW j \in 1..Len(r.waiting), i < j
          PROVE  r.deadline[r.waiting[i]] <= r.deadline[r.waiting[j]]
      <4>1. i \in 1..Len(q.waiting)
        BY <3>4, <2>1, <1>5, <1>6
      <4>2. CASE j \in 1..Len(q.waiting)
        <5>1. r.waiting[i] = q.waiting[i] /\ r.waiting[j] = q.waiting[j]
          BY <4>1, <4>2, <2>1, <1>6
        <5>2. q.deadline[q.waiting[i]] <= q.deadline[q.waiting[j]]
          BY <4>1, <4>2, <3>4, <1>1 DEF DeadlinesInOrder
        <5>3. /\ q.waiting[i] \in Tickets /\ q.status[q.waiting[i]] = "waiting"
              /\ q.waiting[j] \in Tickets /\ q.status[q.waiting[j]] = "waiting"
          BY <4>1, <4>2, <1>1, <1>5 DEF LineIsWaiting, InLine
        <5> QED BY <5>1, <5>2, <5>3, <1>1, <1>11
      <4>3. CASE j = Len(q.waiting) + 1
        <5>1. q.waiting[i] \in Tickets /\ q.status[q.waiting[i]] = "waiting"
          BY <4>1, <1>1, <1>5 DEF LineIsWaiting, InLine
        <5>2. q.deadline[q.waiting[i]] <= now + WaitTimeout
          BY <5>1 DEF ArrivalsPast
        <5> QED BY <4>1, <4>3, <5>1, <5>2, <2>1, <1>5, <1>6, <1>11
      <4> QED BY <4>2, <4>3, <2>1, <1>5, <1>6
    <3> QED BY <3>1, <3>3, <3>4 DEF LineIsWaiting, DeadlinesInOrder
  <2>2. CASE v # "waiting"
    <3>1. InLine(r) = InLine(q) /\ r.waiting = q.waiting
      BY <2>2, <1>7 DEF InLine
    <3>2. \A u \in Tickets : r.status[u] = "waiting" <=> u \in InLine(r)
      BY <2>2, <3>1, <1>1, <1>10 DEF LineIsWaiting
    <3>3. DeadlinesInOrder(r)
      BY <3>1, <1>1, <1>5, <1>11 DEF DeadlinesInOrder
    <3> QED BY <3>1, <3>2, <3>3, <1>1 DEF LineIsWaiting
  <2> QED BY <2>1, <2>2
<1>14. DeadlinesHonoured(r)
  <2>1. ASSUME NEW u \in Tickets
        PROVE  /\ r.status[u] = "admitted" /\ WaitTimeout > 0 => r.decidedAt[u] < r.deadline[u]
               /\ r.status[u] = "timed_out" => r.deadline[u] <= r.decidedAt[u]
    <3>1. CASE u = t
      BY <3>1, <1>1, <1>2, <1>3, <1>4, <1>10, <1>11 DEF Shape
    <3>2. CASE u # t
      BY <3>2, <1>1, <1>2, <1>10, <1>11 DEF Shape, DeadlinesHonoured
    <3> QED BY <3>1, <3>2
  <2> QED BY <2>1 DEF DeadlinesHonoured
<1>15. ReleasedWereAdmitted(r)
  BY <1>1, <1>2, <1>10 DEF ReleasedWereAdmitted
<1>16. WorkConserving(r)
  <2>1. CASE v = "waiting"
    BY <2>1, <1>2, <1>3, <1>4, <1>8 DEF WorkConserving
  <2>2. CASE v = "admitted"
    BY <2>2, <1>2, <1>3 DEF WorkConserving
  <2>3. CASE v \notin {"waiting", "admitted"}
    BY <2>3, <1>2 DEF WorkConserving
  <2> QED BY <2>1, <2>2, <2>3
<1>17. ArrivalsPast(r, now)
  <2>1. ASSUME NEW u \in Tickets, r.status[u] = "waiting"
        PROVE  r.deadline[u] <= now + WaitTimeout
    <3>1. CASE u = t
      BY <3>1, <1>4, <1>11
    <3>2. CASE u # t
      BY <3>2, <2>1, <1>10, <1>11 DEF ArrivalsPast
    <3> QED BY <3>1, <3>2
  <2> QED BY <2>1 DEF ArrivalsPast
<1>18. BytesFit(r)
  <2>1. q.bytes = BytesOf(InLine(q)) /\ q.bytes \in 0..MaxQueuedBytes /\ Len(q.waiting) <= MaxWaiting
    BY DEF Consistent, BytesFit
  <2>2. r.bytes = IF v = "waiting" THEN q.bytes + Bytes[t] ELSE q.bytes
    BY <1>1 DEF Shape, Enter, EmptyQueue, r, v
  <2>3. CASE v # "waiting"
    BY <1>7, <2>1, <2>2, <2>3 DEF BytesFit, InLine
  <2>4. CASE v = "waiting"
    <3>1. ~(Len(q.waiting) >= MaxWaiting) /\ ~(q.bytes + Bytes[t] > MaxQueuedBytes)
      BY <2>4 DEF Verdict, v
    <3>2. MaxWaiting \in Nat /\ MaxQueuedBytes \in Nat /\ Bytes[t] \in Nat
      BY LimitsAssumption, TicketsAssumption
    <3>3. InLine(r) \subseteq Tickets /\ t \in InLine(r) /\ InLine(r) \ {t} = InLine(q)
      <4>1. InLine(q) = {q.waiting[i] : i \in 1..Len(q.waiting)} /\ InLine(q) \subseteq Tickets
              /\ t \notin InLine(q)
        BY <1>5 DEF InLine
      <4>2. InLine(r) = {r.waiting[i] : i \in 1..(Len(q.waiting) + 1)}
        BY <1>6, <2>4 DEF InLine
      <4>3. \A x : x \in InLine(r) <=> x \in InLine(q) \/ x = t
        <5>1. \A i \in 1..(Len(q.waiting) + 1) : i \in 1..Len(q.waiting) \/ i = Len(q.waiting) + 1
          BY <1>5
        <5>2. \A i \in 1..Len(q.waiting) : i \in 1..(Len(q.waiting) + 1)
          BY <1>5
        <5>3. Len(q.waiting) + 1 \in 1..(Len(q.waiting) + 1)
          BY <1>5
        <5>4. /\ \A i \in 1..Len(q.waiting) : r.waiting[i] = q.waiting[i]
              /\ r.waiting[Len(q.waiting) + 1] = t
          BY <2>4, <1>5, <1>6
        <5> QED BY <5>1, <5>2, <5>3, <5>4, <4>1, <4>2
      <4> QED BY <4>1, <4>3
    <3>4. BytesOf(InLine(r)) = Bytes[t] + BytesOf(InLine(q))
      BY <3>3, BytesOfParts
    <3>5. r.bytes = q.bytes + Bytes[t] /\ Len(r.waiting) = Len(q.waiting) + 1
      BY <1>6, <2>2, <2>4
    <3> QED BY <1>5, <2>1, <3>1, <3>2, <3>4, <3>5 DEF BytesFit
  <2> QED BY <2>3, <2>4
<1> QED BY <1>9, <1>12, <1>13, <1>14, <1>15, <1>16, <1>17, <1>18 DEF r, Consistent

(* Arrivals stay in the past while the line advances and time passes.      *)
LEMMA AdvanceArrivals ==
    ASSUME NEW q, Consistent(q), NEW now \in Nat, NEW later \in Nat, now <= later,
           ArrivalsPast(q, now), NEW at \in Nat
    PROVE  ArrivalsPast(Advance(q, at), later)
<1>1. Advance(q, at).deadline = q.deadline /\ q.deadline \in [Tickets -> Nat]
  BY AdvanceFields DEF Consistent, Shape
<1>2. \A t \in Tickets : Advance(q, at).status[t] = "waiting" => q.status[t] = "waiting"
  BY AdvanceConsistent
<1>3. ASSUME NEW t \in Tickets, Advance(q, at).status[t] = "waiting"
      PROVE  Advance(q, at).deadline[t] <= later + WaitTimeout
  <2>1. q.deadline[t] <= now + WaitTimeout
    BY <1>2, <1>3 DEF ArrivalsPast
  <2> QED BY <2>1, <1>1, TimeAssumption
<1> QED BY <1>3 DEF ArrivalsPast

(* _remove_waiting_locked takes a ticket out of the line and closes the    *)
(* gap; the order of the others is kept.                                   *)
LEMMA RemoveConsistent ==
    ASSUME NEW q, Consistent(q), NEW now \in Nat, ArrivalsPast(q, now),
           NEW t \in Tickets, q.status[t] = "waiting"
    PROVE  /\ Consistent(Remove(q, t, "cancelled", now))
           /\ ArrivalsPast(Remove(q, t, "cancelled", now), now)
<1> DEFINE r == Remove(q, t, "cancelled", now)
           p == Place(q, t)
           n == Len(q.waiting)
<1>1. Shape(q) /\ SlotsAccounted(q) /\ LineIsWaiting(q) /\ DeadlinesInOrder(q)
      /\ DeadlinesHonoured(q) /\ ReleasedWereAdmitted(q)
  BY DEF Consistent
<1>2. /\ DOMAIN r = DOMAIN EmptyQueue
      /\ r.waiting = [i \in 1..(n - 1) |-> IF i < p THEN q.waiting[i] ELSE q.waiting[i + 1]]
      /\ r.active = q.active
      /\ r.status = [q.status EXCEPT ![t] = "cancelled"]
      /\ r.deadline = q.deadline
      /\ r.decidedAt = [q.decidedAt EXCEPT ![t] = now]
      /\ r.released = q.released
  BY <1>1 DEF Shape, Remove, EmptyQueue
<1>3. /\ n \in Nat
      /\ \A i \in 1..n : q.waiting[i] \in Tickets
  BY <1>1, LenProperties, ElementOfSeq DEF Shape
<1>4. p \in 1..n /\ q.waiting[p] = t
  <2>1. t \in InLine(q)
    BY <1>1 DEF LineIsWaiting
  <2>2. \E i \in 1..n : q.waiting[i] = t
    BY <2>1 DEF InLine
  <2> QED BY <2>2 DEF Place
<1>5. \A i, j \in 1..n : q.waiting[i] = q.waiting[j] => i = j
  BY <1>1 DEF LineIsWaiting
<1>6. \A i, j \in 1..n : i < j => q.deadline[q.waiting[i]] <= q.deadline[q.waiting[j]]
  BY <1>1 DEF DeadlinesInOrder
<1>7. \A u \in Tickets : q.status[u] = "waiting" <=> u \in {q.waiting[i] : i \in 1..n}
  BY <1>1 DEF LineIsWaiting, InLine
<1> HIDE DEF r, p, n
<1>8. /\ r.waiting \in Seq(Tickets)
      /\ Len(r.waiting) = n - 1
      /\ \A i \in 1..(n - 1) : r.waiting[i] = q.waiting[IF i < p THEN i ELSE i + 1]
  <2>1. n - 1 \in Nat
    BY <1>3, <1>4
  <2>2. r.waiting \in [1..(n - 1) -> Tickets]
    BY <1>2, <1>3, <1>4
  <2>3. r.waiting \in Seq(Tickets)
    BY <2>1, <2>2, SeqDef
  <2>4. Len(r.waiting) = n - 1
    BY <2>1, <2>2, <2>3, LenProperties
  <2> QED BY <2>3, <2>4, <1>2
<1>9. \A u \in Tickets : r.status[u] = IF u = t THEN "cancelled" ELSE q.status[u]
  BY <1>1, <1>2 DEF Shape
<1>10. Shape(r)
  BY <1>1, <1>2, <1>8 DEF Shape, Status
<1>11. SlotsAccounted(r)
  <2>1. Holders(r) = Holders(q)
    BY <1>2, <1>9 DEF Holders
  <2> QED BY <2>1, <1>1, <1>2 DEF SlotsAccounted
<1>17. InLine(r) = {q.waiting[i] : i \in 1..n} \ {t}
  <2>1. ASSUME NEW i \in 1..(n - 1)
        PROVE  r.waiting[i] \in {q.waiting[j] : j \in 1..n} /\ r.waiting[i] # t
    <3>1. CASE i < p
      <4>1. r.waiting[i] = q.waiting[i] /\ i \in 1..n /\ i # p
        BY <3>1, <1>3, <1>4, <1>8
      <4> QED BY <4>1, <1>4, <1>5
    <3>2. CASE ~(i < p)
      <4>1. r.waiting[i] = q.waiting[i + 1] /\ i + 1 \in 1..n /\ i + 1 # p
        BY <3>2, <1>3, <1>4, <1>8
      <4> QED BY <4>1, <1>4, <1>5
    <3> QED BY <3>1, <3>2
  <2>2. ASSUME NEW j \in 1..n, q.waiting[j] # t
        PROVE  \E i \in 1..(n - 1) : r.waiting[i] = q.waiting[j]
    <3>1. CASE j < p
      BY <3>1, <1>3, <1>4, <1>8
    <3>2. CASE j > p
      <4>1. j - 1 \in 1..(n - 1) /\ ~(j - 1 < p) /\ (j - 1) + 1 = j
        BY <3>2, <1>3, <1>4
      <4> QED BY <4>1, <1>8
    <3>3. j # p
      BY <2>2, <1>4
    <3> QED BY <3>1, <3>2, <3>3, <1>3, <1>4
  <2>3. InLine(r) = {r.waiting[i] : i \in 1..(n - 1)}
    BY <1>8 DEF InLine
  <2> QED BY <2>1, <2>2, <2>3
<1>12. LineIsWaiting(r)
  <2>1. ASSUME NEW i \in 1..(n - 1), NEW j \in 1..(n - 1), r.waiting[i] = r.waiting[j]
        PROVE  i = j
    <3> DEFINE a == IF i < p THEN i ELSE i + 1
               b == IF j < p THEN j ELSE j + 1
    <3>1. a \in 1..n /\ b \in 1..n /\ (a = b => i = j)
      BY <1>3, <1>4
    <3>2. r.waiting[i] = q.waiting[a] /\ r.waiting[j] = q.waiting[b]
      BY <1>8
    <3> HIDE DEF a, b
    <3> QED BY <3>1, <3>2, <2>1, <1>5
  <2>3. \A u \in Tickets : r.status[u] = "waiting" <=> u \in InLine(r)
    BY <1>7, <1>9, <1>17
  <2> QED BY <2>1, <2>3, <1>8 DEF LineIsWaiting
<1>13. DeadlinesInOrder(r)
  <2>1. ASSUME NEW i \in 1..(n - 1), NEW j \in 1..(n - 1), i < j
        PROVE  r.deadline[r.waiting[i]] <= r.deadline[r.waiting[j]]
    <3> DEFINE a == IF i < p THEN i ELSE i + 1
               b == IF j < p THEN j ELSE j + 1
    <3>1. a \in 1..n /\ b \in 1..n /\ a < b
      BY <2>1, <1>3, <1>4
    <3>2. r.waiting[i] = q.waiting[a] /\ r.waiting[j] = q.waiting[b]
      BY <1>8
    <3> HIDE DEF a, b
    <3> QED BY <3>1, <3>2, <1>2, <1>6
  <2> QED BY <2>1, <1>8 DEF DeadlinesInOrder
<1>14. DeadlinesHonoured(r)
  <2>1. \A u \in Tickets : u # t => r.decidedAt[u] = q.decidedAt[u]
    BY <1>1, <1>2 DEF Shape
  <2> QED BY <2>1, <1>1, <1>2, <1>9 DEF DeadlinesHonoured
<1>15. ReleasedWereAdmitted(r)
  BY <1>1, <1>2, <1>9 DEF ReleasedWereAdmitted
<1>16. ArrivalsPast(r, now)
  BY <1>2, <1>9 DEF ArrivalsPast
<1>18. BytesFit(r)
  <2>1. q.bytes = BytesOf(InLine(q)) /\ q.bytes \in 0..MaxQueuedBytes /\ n <= MaxWaiting
    BY DEF Consistent, BytesFit, n
  <2>2. r.bytes = q.bytes - Bytes[t]
    BY <1>1 DEF Shape, Remove, EmptyQueue, r
  <2>3. InLine(q) = {q.waiting[i] : i \in 1..n}
    BY DEF InLine, n
  <2>4. InLine(q) \subseteq Tickets /\ t \in InLine(q) /\ InLine(q) \ {t} = InLine(r)
    BY <1>3, <1>4, <1>17, <2>3
  <2>5. BytesOf(InLine(q)) = Bytes[t] + BytesOf(InLine(r)) /\ BytesOf(InLine(r)) \in Nat
    <3> DEFINE line == InLine(q)
               left == InLine(r)
    <3>1. line \subseteq Tickets /\ t \in line /\ left = line \ {t}
      BY <2>4
    <3> HIDE DEF line, left
    <3>2. BytesOf(left) \in Nat /\ BytesOf(line) = Bytes[t] + BytesOf(left)
      BY <3>1, BytesLeftOne
    <3> QED BY <3>2 DEF line, left
  <2>6. Bytes[t] \in Nat /\ MaxQueuedBytes \in Nat /\ MaxWaiting \in Nat
    BY LimitsAssumption, TicketsAssumption
  <2> QED BY <1>3, <1>8, <2>1, <2>2, <2>5, <2>6 DEF BytesFit
<1> QED BY <1>10, <1>11, <1>12, <1>13, <1>14, <1>15, <1>16, <1>18 DEF r, Consistent

(* Giving a slot back keeps the count exact.                               *)
LEMMA GiveBackConsistent ==
    ASSUME NEW q, Consistent(q), NEW now \in Nat, ArrivalsPast(q, now),
           NEW t \in Holders(q)
    PROVE  /\ Consistent(GiveBack(q, t))
           /\ ArrivalsPast(GiveBack(q, t), now)
<1> DEFINE r == GiveBack(q, t)
<1>1. Shape(q) /\ SlotsAccounted(q) /\ LineIsWaiting(q) /\ DeadlinesInOrder(q)
      /\ DeadlinesHonoured(q) /\ ReleasedWereAdmitted(q)
  BY DEF Consistent
<1>2. /\ DOMAIN r = DOMAIN EmptyQueue
      /\ r.waiting = q.waiting /\ r.status = q.status
      /\ r.deadline = q.deadline /\ r.decidedAt = q.decidedAt
      /\ r.active = q.active - 1
      /\ r.released = [q.released EXCEPT ![t] = TRUE]
  BY <1>1 DEF Shape, GiveBack, EmptyQueue
<1>3. t \in Tickets /\ q.status[t] = "admitted" /\ ~q.released[t]
  BY DEF Holders
<1> HIDE DEF r
<1>4. Holders(r) = Holders(q) \ {t}
  BY <1>1, <1>2, <1>3 DEF Holders, Shape
<1>5. IsFiniteSet(Holders(q)) /\ Cardinality(Holders(q)) = q.active
  <2>1. Holders(q) \in SUBSET Tickets
    BY DEF Holders
  <2> QED BY <2>1, <1>1, TicketsAssumption, FS_Subset DEF SlotsAccounted
<1>6. IsFiniteSet(Holders(r)) /\ Cardinality(Holders(r)) = q.active - 1
  BY <1>4, <1>5, FS_RemoveElement
<1>7. q.active - 1 \in Nat /\ q.active - 1 <= MaxActive
  BY <1>1, <1>6, FS_CardinalityType, LimitsAssumption DEF Shape, SlotsAccounted
<1>8. SlotsAccounted(r)
  BY <1>2, <1>6, <1>7 DEF SlotsAccounted
<1>9. Shape(r)
  BY <1>1, <1>2, <1>7 DEF Shape
<1>10. LineIsWaiting(r) /\ DeadlinesInOrder(r) /\ DeadlinesHonoured(r)
  BY <1>1, <1>2 DEF LineIsWaiting, DeadlinesInOrder, DeadlinesHonoured, InLine
<1>11. ReleasedWereAdmitted(r)
  BY <1>1, <1>2, <1>3 DEF ReleasedWereAdmitted, Shape
<1>12. ArrivalsPast(r, now)
  BY <1>2 DEF ArrivalsPast
<1>13. BytesFit(r)
  <2>1. r.bytes = q.bytes
    BY <1>1 DEF Shape, GiveBack, EmptyQueue, r
  <2> QED BY <1>2, <2>1 DEF Consistent, BytesFit, InLine
<1> QED BY <1>8, <1>9, <1>10, <1>11, <1>12, <1>13 DEF r, Consistent

-----------------------------------------------------------------------------
(***************************************************************************)
(* The inductive invariant.  QueueInvariant gathers Consistent and         *)
(* WorkConserving of the queue with the types of the other variables.      *)
(***************************************************************************)
CallType == [parked : BOOLEAN, until : Nat \cup {Forever}, notified : BOOLEAN]

LEMMA QueueInvariantExpanded ==
    QueueInvariant <=> /\ clock \in 0..Horizon
                       /\ call \in [Tickets -> CallType]
                       /\ Consistent(queue)
                       /\ WorkConserving(queue)
                       /\ ArrivalsPast(queue, clock)
BY DEF QueueInvariant, TypeOK, Consistent, Shape, CallType, SlotInvariant,
       LineInvariant, DeadlineInvariant, BytesAccounted

LEMMA InitQueueInvariant == Init => QueueInvariant
<1> SUFFICES ASSUME Init PROVE QueueInvariant
  OBVIOUS
<1>1. clock = 0 /\ queue = EmptyQueue /\ call = [t \in Tickets |-> NoCall]
  BY DEF Init
<1>2. clock \in 0..Horizon /\ call \in [Tickets -> CallType]
  BY <1>1, TimeAssumption DEF NoCall, CallType, Forever
<1>3. queue.waiting = <<>> /\ <<>> \in Seq(Tickets) /\ Len(queue.waiting) = 0
  BY <1>1, EmptySeq DEF EmptyQueue
<1>4. /\ queue.active = 0
      /\ queue.status = [t \in Tickets |-> "unborn"]
      /\ queue.deadline = [t \in Tickets |-> 0]
      /\ queue.decidedAt = [t \in Tickets |-> 0]
      /\ queue.released = [t \in Tickets |-> FALSE]
      /\ DOMAIN queue = DOMAIN EmptyQueue
  BY <1>1 DEF EmptyQueue
<1>5. Shape(queue)
  BY <1>3, <1>4 DEF Shape, Status
<1>6. SlotsAccounted(queue)
  <2>1. Holders(queue) = {}
    BY <1>4 DEF Holders
  <2> QED BY <2>1, <1>4, FS_EmptySet, LimitsAssumption DEF SlotsAccounted
<1>7. LineIsWaiting(queue) /\ DeadlinesInOrder(queue) /\ WorkConserving(queue)
  BY <1>3, <1>4 DEF LineIsWaiting, DeadlinesInOrder, WorkConserving, InLine
<1>8. DeadlinesHonoured(queue) /\ ReleasedWereAdmitted(queue) /\ ArrivalsPast(queue, clock)
  BY <1>4 DEF DeadlinesHonoured, ReleasedWereAdmitted, ArrivalsPast
<1>9. BytesFit(queue)
  <2>1. queue.bytes = 0 /\ InLine(queue) = {}
    BY <1>1, <1>3 DEF EmptyQueue, InLine
  <2>2. BytesOf({}) = 0
    BY BytesOfParts
  <2> QED BY <1>3, <2>1, <2>2, LimitsAssumption DEF BytesFit
<1> QED BY <1>2, <1>5, <1>6, <1>7, <1>8, <1>9, QueueInvariantExpanded DEF Consistent

LEMMA CallTypes ==
    ASSUME NEW calls \in [Tickets -> CallType], NEW q, NEW now
    PROVE  /\ NotifyAll(calls) \in [Tickets -> CallType]
           /\ AfterAdvance(calls, q, now) \in [Tickets -> CallType]
<1>1. NotifyAll(calls) \in [Tickets -> CallType]
  BY DEF NotifyAll, CallType
<1> QED BY <1>1 DEF AfterAdvance

(* Everything QueueInvariant needs of a step whose last act on the queue   *)
(* is to advance the line of a consistent record.                          *)
LEMMA AdvanceStep ==
    ASSUME NEW q, Consistent(q), NEW at \in Nat,
           QueueInvariant, ArrivalsPast(q, clock),
           queue' = Advance(q, at), clock' \in 0..Horizon, clock <= clock',
           call' \in [Tickets -> CallType]
    PROVE  QueueInvariant'
<1>1. clock \in Nat /\ clock' \in Nat
  BY QueueInvariantExpanded, TimeAssumption
<1>2. Consistent(queue') /\ WorkConserving(queue')
  BY AdvanceConsistent
<1>3. ArrivalsPast(queue', clock')
  BY <1>1, AdvanceArrivals
<1>4. (/\ clock \in 0..Horizon
       /\ call \in [Tickets -> CallType]
       /\ Consistent(queue)
       /\ WorkConserving(queue)
       /\ ArrivalsPast(queue, clock))'
  BY <1>2, <1>3 DEF Consistent, WorkConserving, ArrivalsPast, Shape, SlotsAccounted,
     LineIsWaiting, DeadlinesInOrder, DeadlinesHonoured, ReleasedWereAdmitted, Holders, InLine, BytesFit
<1> QED BY <1>4, QueueInvariantExpanded, PTL

LEMMA RequestSlotStep ==
    ASSUME QueueInvariant, NEW t \in Tickets, RequestSlot(t)
    PROVE  QueueInvariant'
<1> DEFINE a == Advance(queue, clock)
<1>1. /\ clock \in Nat /\ call \in [Tickets -> CallType] /\ Consistent(queue)
      /\ ArrivalsPast(queue, clock) /\ clock \in 0..Horizon
  BY QueueInvariantExpanded, TimeAssumption
<1>2. Consistent(a) /\ WorkConserving(a) /\ ArrivalsPast(a, clock)
  BY <1>1, AdvanceConsistent, AdvanceArrivals
<1>3. a.status[t] = "unborn"
  <2>1. queue.status[t] = "unborn"
    BY DEF RequestSlot
  <2>2. t \notin InLine(queue)
    BY <1>1, <2>1 DEF Consistent, LineIsWaiting
  <2> QED BY <1>1, <2>1, <2>2, AdvanceConsistent
<1> HIDE DEF a
<1>4. queue' = Enter(a, t, clock) /\ clock' = clock /\ call' \in [Tickets -> CallType]
  BY <1>1, CallTypes DEF RequestSlot, a
<1>5. Consistent(queue') /\ WorkConserving(queue') /\ ArrivalsPast(queue', clock')
  BY <1>1, <1>2, <1>3, <1>4, EnterConsistent
<1>6. (/\ clock \in 0..Horizon
       /\ call \in [Tickets -> CallType]
       /\ Consistent(queue)
       /\ WorkConserving(queue)
       /\ ArrivalsPast(queue, clock))'
  BY <1>1, <1>4, <1>5 DEF Consistent, WorkConserving, ArrivalsPast, Shape, SlotsAccounted,
     LineIsWaiting, DeadlinesInOrder, DeadlinesHonoured, ReleasedWereAdmitted, Holders, InLine, BytesFit
<1> QED BY <1>6, QueueInvariantExpanded, PTL

LEMMA LaterReadingsType ==
    ASSUME clock \in 0..Horizon, NEW later \in LaterReadings
    PROVE  later \in 0..Horizon /\ later \in Nat /\ clock <= later
BY TimeAssumption DEF LaterReadings

(* A pass of the loop that parks has advanced the line once.               *)
LEMMA ParkStep ==
    ASSUME QueueInvariant, NEW t \in Tickets, NEW until \in Nat \cup {Forever},
           Park(t, until)
    PROVE  QueueInvariant'
<1>1. /\ clock \in Nat /\ clock \in 0..Horizon /\ call \in [Tickets -> CallType]
      /\ Consistent(queue) /\ ArrivalsPast(queue, clock)
  BY QueueInvariantExpanded, TimeAssumption
<1>2. queue' = Advance(queue, clock) /\ clock' = clock
  BY DEF Park
<1>3. call' \in [Tickets -> CallType]
  <2>1. [parked |-> TRUE, until |-> until, notified |-> FALSE] \in CallType
    BY DEF CallType
  <2>2. call' = [AfterAdvance(call, queue, clock) EXCEPT
                   ![t] = [parked |-> TRUE, until |-> until, notified |-> FALSE]]
    BY DEF Park
  <2>3. AfterAdvance(call, queue, clock) \in [Tickets -> CallType]
    BY <1>1, CallTypes
  <2> QED BY <2>1, <2>2, <2>3
<1> QED BY <1>1, <1>2, <1>3, AdvanceStep

(* A pass that returns has advanced the line not at all, once or twice.    *)
LEMMA ReturnStep ==
    ASSUME QueueInvariant, NEW t \in Tickets, NEW until, Return(t, until)
    PROVE  QueueInvariant'
<1>1. /\ clock \in Nat /\ clock \in 0..Horizon /\ call \in [Tickets -> CallType]
      /\ Consistent(queue) /\ WorkConserving(queue) /\ ArrivalsPast(queue, clock)
  BY QueueInvariantExpanded, TimeAssumption
<1> DEFINE first == IF queue.status[t] = "waiting" THEN Advance(queue, clock) ELSE queue
           woken(later) == AfterAdvance(AfterAdvance(call, queue, clock), first, later)
<1>2. PICK later \in LaterReadings :
        /\ queue' = IF first.status[t] = "waiting" THEN Advance(first, later) ELSE first
        /\ clock' = later
        /\ first.status[t] # "waiting" => later = clock
        /\ call' = [IF queue.status[t] = "waiting" THEN woken(later) ELSE call
                    EXCEPT ![t] = NoCall]
  BY DEF Return
<1>3. later \in 0..Horizon /\ later \in Nat /\ clock <= later
  BY <1>1, LaterReadingsType
<1>4. call' \in [Tickets -> CallType]
  <2>1. NoCall \in CallType
    BY DEF NoCall, CallType
  <2>2. AfterAdvance(call, queue, clock) \in [Tickets -> CallType]
    BY <1>1, CallTypes
  <2>3. woken(later) \in [Tickets -> CallType]
    BY <2>2, CallTypes
  <2> HIDE DEF woken
  <2> QED BY <2>1, <2>3, <1>1, <1>2
<1>5. Consistent(first) /\ ArrivalsPast(first, clock)
  <2>1. CASE queue.status[t] = "waiting"
    BY <2>1, <1>1, AdvanceConsistent, AdvanceArrivals
  <2>2. CASE queue.status[t] # "waiting"
    BY <2>2, <1>1
  <2> QED BY <2>1, <2>2
<1>6. CASE first.status[t] = "waiting"
  <2> HIDE DEF first
  <2>1. queue' = Advance(first, later)
    BY <1>2, <1>6
  <2> QED BY <2>1, <1>2, <1>3, <1>4, <1>5, AdvanceStep
<1>7. CASE first.status[t] # "waiting" /\ queue.status[t] = "waiting"
  <2>1. queue' = Advance(queue, clock) /\ clock' = clock
    BY <1>2, <1>7
  <2> QED BY <2>1, <1>1, <1>4, AdvanceStep
<1>8. CASE queue.status[t] # "waiting"
  <2>1. queue' = queue /\ clock' = clock
    BY <1>2, <1>8
  <2>2. (/\ clock \in 0..Horizon
         /\ call \in [Tickets -> CallType]
         /\ Consistent(queue)
         /\ WorkConserving(queue)
         /\ ArrivalsPast(queue, clock))'
    BY <1>1, <1>4, <2>1
  <2> QED BY <2>2, QueueInvariantExpanded, PTL
<1> QED BY <1>6, <1>7, <1>8

LEMMA CancelStep ==
    ASSUME QueueInvariant, NEW t \in Tickets, Cancel(t)
    PROVE  QueueInvariant'
<1>1. /\ clock \in Nat /\ clock \in 0..Horizon /\ call \in [Tickets -> CallType]
      /\ Consistent(queue) /\ ArrivalsPast(queue, clock)
  BY QueueInvariantExpanded, TimeAssumption
<1> DEFINE r == Remove(queue, t, "cancelled", clock)
<1>2. Consistent(r) /\ ArrivalsPast(r, clock)
  BY <1>1, RemoveConsistent DEF Cancel
<1>3. PICK later \in LaterReadings : queue' = Advance(r, later) /\ clock' = later
  BY DEF Cancel
<1>4. call' \in [Tickets -> CallType]
  BY <1>1, CallTypes DEF Cancel
<1> HIDE DEF r
<1> QED BY <1>1, <1>2, <1>3, <1>4, LaterReadingsType, AdvanceStep

LEMMA ReleaseStep ==
    ASSUME QueueInvariant, NEW t \in Tickets, Release(t)
    PROVE  QueueInvariant'
<1>1. /\ clock \in Nat /\ clock \in 0..Horizon /\ call \in [Tickets -> CallType]
      /\ Consistent(queue) /\ ArrivalsPast(queue, clock)
  BY QueueInvariantExpanded, TimeAssumption
<1> DEFINE r == GiveBack(queue, t)
<1>2. Consistent(r) /\ ArrivalsPast(r, clock)
  BY <1>1, GiveBackConsistent DEF Release
<1>3. queue' = Advance(r, clock) /\ clock' = clock /\ call' \in [Tickets -> CallType]
  BY <1>1, CallTypes DEF Release
<1> HIDE DEF r
<1> QED BY <1>1, <1>2, <1>3, AdvanceStep

LEMMA SnapshotStep ==
    ASSUME QueueInvariant, Snapshot
    PROVE  QueueInvariant'
<1>1. /\ clock \in Nat /\ clock \in 0..Horizon /\ call \in [Tickets -> CallType]
      /\ Consistent(queue) /\ ArrivalsPast(queue, clock)
  BY QueueInvariantExpanded, TimeAssumption
<1>2. queue' = Advance(queue, clock) /\ clock' = clock /\ call' \in [Tickets -> CallType]
  BY <1>1, CallTypes DEF Snapshot
<1> QED BY <1>1, <1>2, AdvanceStep

LEMMA TickStep ==
    ASSUME QueueInvariant, Tick
    PROVE  QueueInvariant'
<1>1. /\ clock \in 0..Horizon /\ call \in [Tickets -> CallType]
      /\ Consistent(queue) /\ WorkConserving(queue) /\ ArrivalsPast(queue, clock)
  BY QueueInvariantExpanded
<1>2. queue' = queue /\ call' = call /\ clock' = clock + 1 /\ clock' \in 0..Horizon
  BY <1>1, TimeAssumption DEF Tick
<1>3. ArrivalsPast(queue', clock')
  <2>1. queue.deadline \in [Tickets -> Nat]
    BY <1>1 DEF Consistent, Shape
  <2> QED BY <1>1, <1>2, <2>1, TimeAssumption DEF ArrivalsPast
<1>4. (/\ clock \in 0..Horizon
       /\ call \in [Tickets -> CallType]
       /\ Consistent(queue)
       /\ WorkConserving(queue)
       /\ ArrivalsPast(queue, clock))'
  BY <1>1, <1>2, <1>3 DEF Consistent, WorkConserving, ArrivalsPast, Shape, SlotsAccounted,
     LineIsWaiting, DeadlinesInOrder, DeadlinesHonoured, ReleasedWereAdmitted, Holders, InLine, BytesFit
<1> QED BY <1>4, QueueInvariantExpanded, PTL

LEMMA NextQueueInvariant == QueueInvariant /\ [Next]_vars => QueueInvariant'
<1> SUFFICES ASSUME QueueInvariant, [Next]_vars PROVE QueueInvariant'
  OBVIOUS
<1>1. ASSUME NEW t \in Tickets, RequestSlot(t) PROVE QueueInvariant'
  BY <1>1, RequestSlotStep
<1>2. ASSUME NEW t \in Tickets, NEW poll \in Polls \cup {Forever}, Wait(t, poll)
      PROVE  QueueInvariant'
  <2> DEFINE until == IF poll = Forever THEN Forever ELSE clock + poll
  <2>1. until \in Nat \cup {Forever}
    BY QueueInvariantExpanded, TimeAssumption
  <2>2. Park(t, until) \/ Return(t, until)
    BY <1>2 DEF Wait
  <2> HIDE DEF until
  <2> QED BY <2>1, <2>2, ParkStep, ReturnStep
<1>3. ASSUME NEW t \in Tickets, Resume(t) PROVE QueueInvariant'
  <2>1. call[t].until \in Nat \cup {Forever}
    BY QueueInvariantExpanded DEF CallType
  <2>2. Park(t, call[t].until) \/ Return(t, call[t].until)
    BY <1>3 DEF Resume
  <2> QED BY <2>1, <2>2, ParkStep, ReturnStep
<1>4. ASSUME NEW t \in Tickets, Cancel(t) PROVE QueueInvariant'
  BY <1>4, CancelStep
<1>5. ASSUME NEW t \in Tickets, Release(t) PROVE QueueInvariant'
  BY <1>5, ReleaseStep
<1>6. CASE Snapshot
  BY <1>6, SnapshotStep
<1>7. CASE Tick
  BY <1>7, TickStep
<1>8. CASE UNCHANGED vars
  <2>1. clock' = clock /\ queue' = queue /\ call' = call
    BY <1>8 DEF vars
  <2>2. (/\ clock \in 0..Horizon
         /\ call \in [Tickets -> CallType]
         /\ Consistent(queue)
         /\ WorkConserving(queue)
         /\ ArrivalsPast(queue, clock))'
    BY <2>1, QueueInvariantExpanded DEF Consistent, WorkConserving, ArrivalsPast, Shape,
       SlotsAccounted, LineIsWaiting, DeadlinesInOrder, DeadlinesHonoured,
       ReleasedWereAdmitted, Holders, InLine, BytesFit
  <2> QED BY <2>2, QueueInvariantExpanded, PTL
<1> QED BY <1>1, <1>2, <1>3, <1>4, <1>5, <1>6, <1>7, <1>8 DEF Next

(* QueueInvariant holds in every reachable state of the queue: types, the  *)
(* slot count, the order of the line and the deadlines, for any number of  *)
(* requests, slots and places and any clock.                               *)
THEOREM QueueCorrect == Spec => []QueueInvariant
<1> QED BY InitQueueInvariant, NextQueueInvariant, PTL DEF Spec

(* Every field of the queue and of the pending calls keeps its type.       *)
THEOREM QueueTypeCorrect == Spec => []TypeOK
<1>1. QueueInvariant => TypeOK
  BY DEF QueueInvariant
<1> QED BY <1>1, QueueCorrect, PTL

(* _active_requests counts the slot holders and stays within the limit, so *)
(* the RuntimeError of _release_ticket is unreachable.                     *)
THEOREM SlotsNeverLeak == Spec => []SlotInvariant
<1>1. QueueInvariant => SlotInvariant
  BY DEF QueueInvariant
<1> QED BY <1>1, QueueCorrect, PTL

(* The line is exactly the waiting tickets, in deadline order, and no slot *)
(* is idle while it is not empty.                                          *)
THEOREM LineOrderedAndServed == Spec => []LineInvariant
<1>1. QueueInvariant => LineInvariant
  BY DEF QueueInvariant
<1> QED BY <1>1, QueueCorrect, PTL

(* No ticket is admitted from the line at or past its deadline, and none   *)
(* is timed out early.                                                     *)
THEOREM DeadlinesAreHonoured == Spec => []DeadlineInvariant
<1>1. QueueInvariant => DeadlineInvariant
  BY DEF QueueInvariant
<1> QED BY <1>1, QueueCorrect, PTL

(* _queued_bytes is the sum of the bodies that wait, however they leave    *)
(* the line, and neither bound of the line is ever exceeded.               *)
THEOREM BytesAlwaysAccounted == Spec => []BytesAccounted
<1>1. QueueInvariant => BytesAccounted
  BY DEF QueueInvariant
<1> QED BY <1>1, QueueCorrect, PTL

-----------------------------------------------------------------------------
(***************************************************************************)
(* What advancing the line decides, and who is told.                       *)
(***************************************************************************)
LEMMA AdvanceVerdicts ==
    ASSUME NEW q, Consistent(q), NEW now \in Nat
    PROVE  \A t \in Tickets :
              /\ t \in TimedOutBy(q, now) => Advance(q, now).status[t] = "timed_out"
              /\ t \in AdmittedBy(q, now) => Advance(q, now).status[t] = "admitted"
              /\ t \notin TimedOutBy(q, now) \cup AdmittedBy(q, now) =>
                    Advance(q, now).status[t] = q.status[t]
<1> DEFINE r   == Advance(q, now)
           out == TimedOutBy(q, now)
           in  == AdmittedBy(q, now)
<1>1. Shape(q)
  BY DEF Consistent
<1>2. /\ DOMAIN r = DOMAIN EmptyQueue
      /\ r.active = q.active + AdmittedHeads(q, now)
      /\ r.status = [t \in Tickets |-> CASE t \in out -> "timed_out"
                                         [] t \in in  -> "admitted"
                                         [] OTHER     -> q.status[t]]
      /\ r.deadline = q.deadline
      /\ r.decidedAt = [t \in Tickets |->
                          IF t \in out \cup in THEN now ELSE q.decidedAt[t]]
      /\ r.released = q.released
  BY <1>1, AdvanceFields
<1>3. out \cap in = {}
  BY AdvanceMoves
<1> HIDE DEF r, out, in
<1>4. \A t \in Tickets : /\ t \in out => r.status[t] = "timed_out"
                         /\ t \in in => r.status[t] = "admitted"
                         /\ t \notin out \cup in => r.status[t] = q.status[t]
  BY <1>2, <1>3
<1> QED BY <1>4 DEF r, out, in

(* Advancing the line times out every ticket whose deadline has come, not  *)
(* only a head: the line is in the order of the deadlines.                 *)
LEMMA AdvanceTimesOut ==
    ASSUME NEW q, Consistent(q), NEW now \in Nat, NEW t \in Tickets,
           q.status[t] = "waiting", q.deadline[t] <= now
    PROVE  Advance(q, now).status[t] = "timed_out"
<1> DEFINE w == q.waiting
           k == ExpiredHeads(q, now)
<1>1. /\ w \in Seq(Tickets) /\ Len(w) \in Nat /\ q.deadline \in [Tickets -> Nat]
      /\ \A i \in 1..Len(w) : w[i] \in Tickets
  BY LenProperties, ElementOfSeq DEF Consistent, Shape
<1>2. PICK p \in 1..Len(w) : t = w[p]
  BY DEF Consistent, LineIsWaiting, InLine
<1>3. \A i \in 1..p : q.deadline[w[i]] <= now
  <2>1. \A i \in 1..p : i \in 1..Len(w) /\ (i < p \/ i = p)
    BY <1>1
  <2>2. \A i \in 1..p : q.deadline[w[i]] <= q.deadline[t]
    BY <1>1, <1>2, <2>1 DEF Consistent, DeadlinesInOrder
  <2> QED BY <1>1, <2>1, <2>2
<1>4. k \in 0..Len(w) /\ (k < Len(w) => ~(q.deadline[w[k + 1]] <= now))
  BY ExpiredHeadsCharacterised DEF Expired, Consistent
<1>5. p <= k
  <2> HIDE DEF w, k
  <2> SUFFICES ASSUME k < p PROVE FALSE
    BY <1>1, <1>4
  <2>1. k + 1 \in 1..p /\ k < Len(w)
    BY <1>1, <1>4
  <2> QED BY <2>1, <1>3, <1>4
<1>6. t \in TimedOutBy(q, now)
  BY <1>1, <1>2, <1>4, <1>5 DEF TimedOutBy
<1> QED BY <1>6, AdvanceVerdicts

(* A wait() without a poll interval cannot come back undecided.            *)
THEOREM BlockingWaitsDecide == Spec => []BlockingWaitDecides
<1>1. QueueInvariant => BlockingWaitDecides
  <2> SUFFICES ASSUME QueueInvariant, NEW t \in Tickets,
                      queue.status[t] = "waiting", WakeAt(t, Forever) <= clock
               PROVE  Advance(queue, clock).status[t] = "timed_out"
    BY DEF BlockingWaitDecides
  <2>1. Consistent(queue) /\ clock \in Nat
    BY QueueInvariantExpanded, TimeAssumption
  <2>2. queue.deadline[t] <= clock
    BY DEF WakeAt
  <2> QED BY <2>1, <2>2, AdvanceTimesOut
<1> QED BY <1>1, QueueCorrect, PTL

\* Whoever is parked has a ticket, and knows when another thread decided it.
Alert(q, calls, u) ==
    calls[u].parked =>
        /\ q.status[u] # "unborn"
        /\ q.status[u] \in {"admitted", "cancelled"} => calls[u].notified

AllAlert(q, calls) == \A u \in Tickets : Alert(q, calls, u)

LEMMA AdvanceAlerts ==
    ASSUME NEW q, Consistent(q), NEW now \in Nat, NEW calls \in [Tickets -> CallType],
           AllAlert(q, calls)
    PROVE  AllAlert(Advance(q, now), AfterAdvance(calls, q, now))
<1> SUFFICES ASSUME NEW u \in Tickets
             PROVE  Alert(Advance(q, now), AfterAdvance(calls, q, now), u)
  BY DEF AllAlert
<1>1. /\ u \in TimedOutBy(q, now) => Advance(q, now).status[u] = "timed_out"
      /\ u \in AdmittedBy(q, now) => Advance(q, now).status[u] = "admitted"
      /\ u \notin TimedOutBy(q, now) \cup AdmittedBy(q, now) =>
            Advance(q, now).status[u] = q.status[u]
  BY AdvanceVerdicts
<1>2. Alert(q, calls, u)
  BY DEF AllAlert
<1>3. CASE AdmittedBy(q, now) = {}
  BY <1>1, <1>2, <1>3 DEF Alert, AfterAdvance
<1>4. CASE AdmittedBy(q, now) # {}
  <2>1. /\ AfterAdvance(calls, q, now)[u].parked = calls[u].parked
        /\ AfterAdvance(calls, q, now)[u].notified = calls[u].parked
    BY <1>4 DEF AfterAdvance, NotifyAll, CallType
  <2> QED BY <2>1, <1>1, <1>2 DEF Alert
<1> QED BY <1>3, <1>4

LEMMA NotifyAlerts ==
    ASSUME NEW q, NEW calls \in [Tickets -> CallType],
           \A u \in Tickets : calls[u].parked => q.status[u] # "unborn"
    PROVE  AllAlert(q, NotifyAll(calls))
BY DEF AllAlert, Alert, NotifyAll, CallType

WakeInvariant == QueueInvariant /\ AllAlert(queue, call)

LEMMA NextWakeInvariant == WakeInvariant /\ [Next]_vars => WakeInvariant'
<1> SUFFICES ASSUME WakeInvariant, [Next]_vars PROVE AllAlert(queue, call)'
  BY NextQueueInvariant DEF WakeInvariant
<1>1. /\ clock \in 0..Horizon /\ clock \in Nat /\ call \in [Tickets -> CallType]
      /\ Consistent(queue) /\ ArrivalsPast(queue, clock) /\ AllAlert(queue, call)
  BY QueueInvariantExpanded, TimeAssumption DEF WakeInvariant
<1> DEFINE a == Advance(queue, clock)
           c == AfterAdvance(call, queue, clock)
<1>2. AllAlert(a, c) /\ Consistent(a) /\ c \in [Tickets -> CallType]
  BY <1>1, AdvanceAlerts, AdvanceConsistent, CallTypes
<1>3. ASSUME NEW t \in Tickets, RequestSlot(t) PROVE AllAlert(queue, call)'
  <2>1. queue' = Enter(a, t, clock) /\ call' = c /\ queue.status[t] = "unborn"
    BY <1>3 DEF RequestSlot
  <2>2. a.status[t] = "unborn"
    BY <1>1, <2>1, AdvanceConsistent DEF Consistent, LineIsWaiting
  <2> HIDE DEF a, c
  <2>3. \A u \in Tickets \ {t} : queue'.status[u] = a.status[u]
    BY <2>1, <1>2 DEF Enter, Consistent, Shape, EmptyQueue
  <2>4. ~c[t].parked
    BY <2>2, <1>2 DEF AllAlert, Alert
  <2> QED BY <2>1, <2>3, <2>4, <1>2 DEF AllAlert, Alert
<1>4. ASSUME NEW t \in Tickets, NEW until, Park(t, until) PROVE AllAlert(queue, call)'
  <2>1. /\ queue' = a /\ a.status[t] = "waiting"
        /\ call' = [c EXCEPT ![t] = [parked |-> TRUE, until |-> until, notified |-> FALSE]]
    BY <1>4 DEF Park
  <2> HIDE DEF a, c
  <2> QED BY <2>1, <1>2 DEF AllAlert, Alert
<1>5. ASSUME NEW t \in Tickets, NEW until, Return(t, until) PROVE AllAlert(queue, call)'
  <2> DEFINE asked == queue.status[t] = "waiting"
             first == IF asked THEN a ELSE queue
  <2>1. PICK later \in LaterReadings :
          /\ queue' = IF first.status[t] = "waiting" THEN Advance(first, later) ELSE first
          /\ first.status[t] # "waiting" => later = clock
          /\ call' = [IF asked THEN AfterAdvance(c, first, later) ELSE call
                      EXCEPT ![t] = NoCall]
    BY <1>5 DEF Return
  <2>2. later \in Nat
    BY <1>1, LaterReadingsType
  <2>3. ~asked => first.status[t] # "waiting"
    OBVIOUS
  <2> HIDE DEF a, c
  <2>4. CASE ~asked
    BY <2>1, <2>3, <2>4, <1>1 DEF AllAlert, Alert, NoCall
  <2>5. CASE asked
    <3>1. AllAlert(Advance(a, later), AfterAdvance(c, a, later))
      BY <2>2, <1>2, AdvanceAlerts
    <3>2. AfterAdvance(c, a, later) \in [Tickets -> CallType]
      BY <1>2, CallTypes
    <3>3. \A u \in Tickets : AfterAdvance(c, a, later)[u].parked = c[u].parked
      BY <1>2 DEF AfterAdvance, NotifyAll, CallType
    <3>4. \A u \in Tickets : c[u].notified /\ c[u].parked => AfterAdvance(c, a, later)[u].notified
      BY <1>2 DEF AfterAdvance, NotifyAll, CallType
    <3>5. AllAlert(a, AfterAdvance(c, a, later))
      BY <3>3, <3>4, <1>2 DEF AllAlert, Alert
    <3>6. AllAlert(queue', AfterAdvance(c, a, later))
      BY <2>1, <2>5, <3>1, <3>5
    <3>7. call' = [AfterAdvance(c, a, later) EXCEPT ![t] = NoCall]
      BY <2>1, <2>5
    <3> QED BY <3>2, <3>6, <3>7 DEF AllAlert, Alert, NoCall
  <2> QED BY <2>4, <2>5
<1>6. ASSUME NEW t \in Tickets, Cancel(t) \/ Release(t) PROVE AllAlert(queue, call)'
  <2>1. call' = NotifyAll(call)
    BY <1>6 DEF Cancel, Release
  <2>2. ASSUME NEW q, NEW at \in Nat, Consistent(q), queue' = Advance(q, at),
               \A u \in Tickets : call[u].parked => q.status[u] # "unborn"
        PROVE  AllAlert(queue, call)'
    <3>1. \A u \in Tickets : call[u].parked => Advance(q, at).status[u] # "unborn"
      BY <2>2, AdvanceVerdicts
    <3> QED BY <2>1, <2>2, <3>1, <1>1, NotifyAlerts
  <2>3. CASE Cancel(t)
    <3> DEFINE r == Remove(queue, t, "cancelled", clock)
    <3>1. PICK later \in LaterReadings : queue' = Advance(r, later)
      BY <2>3 DEF Cancel
    <3>2. Consistent(r)
      BY <2>3, <1>1, RemoveConsistent DEF Cancel
    <3>3. r.status = [queue.status EXCEPT ![t] = "cancelled"]
      BY <1>1 DEF Remove, Consistent, Shape, EmptyQueue
    <3> HIDE DEF r
    <3>4. \A u \in Tickets : call[u].parked => r.status[u] # "unborn"
      BY <3>3, <1>1 DEF AllAlert, Alert, Consistent, Shape
    <3>5. later \in Nat
      BY <1>1, LaterReadingsType
    <3> QED BY <3>1, <3>2, <3>4, <3>5, <2>2
  <2>4. CASE Release(t)
    <3> DEFINE r == GiveBack(queue, t)
    <3>1. queue' = Advance(r, clock) /\ Consistent(r)
      BY <2>4, <1>1, GiveBackConsistent DEF Release
    <3>2. r.status = queue.status
      BY <1>1 DEF GiveBack, Consistent, Shape, EmptyQueue
    <3> HIDE DEF r
    <3>3. \A u \in Tickets : call[u].parked => r.status[u] # "unborn"
      BY <3>2, <1>1 DEF AllAlert, Alert
    <3> QED BY <3>1, <3>3, <1>1, <2>2
  <2> QED BY <2>3, <2>4, <1>6
<1>7. CASE Snapshot
  BY <1>2, <1>7 DEF Snapshot
<1>8. CASE Tick \/ UNCHANGED vars
  <2>1. queue' = queue /\ call' = call
    BY <1>8 DEF Tick, vars
  <2> QED BY <2>1, <1>1 DEF AllAlert, Alert
<1>9. ASSUME NEW t \in Tickets, NEW poll, Wait(t, poll) PROVE AllAlert(queue, call)'
  BY <1>9, <1>4, <1>5 DEF Wait
<1>10. ASSUME NEW t \in Tickets, Resume(t) PROVE AllAlert(queue, call)'
  BY <1>10, <1>4, <1>5 DEF Resume
<1> QED BY <1>3, <1>6, <1>7, <1>8, <1>9, <1>10 DEF Next

(* A thread parked in Condition.wait whose ticket another thread admitted  *)
(* or cancelled has been notified, whatever admissions, time-outs, cancels *)
(* and releases led there: no request sleeps on while it holds a slot.     *)
THEOREM WakeupsAreNotLost == Spec => []NoLostWakeup
<1>1. Init => WakeInvariant
  BY InitQueueInvariant DEF Init, WakeInvariant, AllAlert, Alert, NoCall
<1>2. WakeInvariant => NoLostWakeup
  BY DEF WakeInvariant, AllAlert, Alert, NoLostWakeup
<1> QED BY <1>1, <1>2, NextWakeInvariant, PTL DEF Spec

-----------------------------------------------------------------------------
(***************************************************************************)
(* The refinement of AdmissionLine.  The line s with the slots of H moves  *)
(* on to the line t with the slots of K: some of s get slots, some go, and *)
(* the others stay as they stood behind those who are served.              *)
(***************************************************************************)
MovesOn(s, H, t, K) ==
    /\ H \subseteq K
    /\ K \ H \subseteq Line!Waiting(s)
    /\ Line!Waiting(t) \subseteq Line!Waiting(s)
    /\ \A i, j \in 1..Len(t) : i < j => Line!Before(s, t[i], t[j])
    /\ \A c \in K \ H, d \in Line!Waiting(t) : Line!Before(s, c, d)

LEMMA Unmoved == \A s, H : MovesOn(s, H, s, H)
BY DEF MovesOn, Line!Before

LEMMA MovesFurther ==
    ASSUME NEW s, NEW H, NEW t, NEW K, NEW u, NEW L,
           MovesOn(s, H, t, K), MovesOn(t, K, u, L)
    PROVE  MovesOn(s, H, u, L)
<1>1. ASSUME NEW c, NEW d, Line!Before(t, c, d) PROVE Line!Before(s, c, d)
  BY <1>1 DEF Line!Before, MovesOn
<1>2. \A i, j \in 1..Len(u) : i < j => Line!Before(s, u[i], u[j])
  BY <1>1 DEF MovesOn
<1>3. ASSUME NEW c \in L \ H, NEW d \in Line!Waiting(u) PROVE Line!Before(s, c, d)
  <2>1. CASE c \in K
    BY <2>1, <1>3 DEF MovesOn
  <2>2. CASE c \notin K
    BY <2>2, <1>1, <1>3 DEF MovesOn
  <2> QED BY <2>1, <2>2
<1> QED BY <1>2, <1>3 DEF MovesOn

LEMMA AppendWaiting ==
    ASSUME NEW s \in Seq(Tickets), NEW x \in Tickets
    PROVE  Line!Waiting(Append(s, x)) = Line!Waiting(s) \cup {x}
<1> DEFINE ss == Append(s, x)
<1>1. /\ Len(s) \in Nat /\ Len(ss) = Len(s) + 1 /\ ss[Len(s) + 1] = x
      /\ \A i \in 1..Len(s) : ss[i] = s[i]
  BY LenProperties, AppendProperties
<1> HIDE DEF ss
<1>2. ASSUME NEW i \in 1..Len(ss) PROVE ss[i] \in Line!Waiting(s) \cup {x}
  <2>1. i \in 1..Len(s) \/ i = Len(s) + 1
    BY <1>1
  <2> QED BY <1>1, <2>1 DEF Line!Waiting
<1>3. ASSUME NEW i \in 1..Len(s) PROVE s[i] \in Line!Waiting(ss)
  <2>1. i \in 1..Len(ss)
    BY <1>1
  <2> QED BY <1>1, <2>1 DEF Line!Waiting
<1>4. x \in Line!Waiting(ss)
  <2>1. Len(s) + 1 \in 1..Len(ss)
    BY <1>1
  <2> QED BY <1>1, <2>1 DEF Line!Waiting
<1>5. Line!Waiting(ss) \subseteq Line!Waiting(s) \cup {x}
  BY <1>2 DEF Line!Waiting
<1>6. Line!Waiting(s) \subseteq Line!Waiting(ss)
  BY <1>3 DEF Line!Waiting
<1> QED BY <1>4, <1>5, <1>6 DEF ss

(* The newcomer stands behind everybody else.                              *)
LEMMA MovesWithNewcomer ==
    ASSUME NEW s \in Seq(Tickets), NEW t \in Seq(Tickets), NEW H, NEW K, NEW x \in Tickets,
           MovesOn(s, H, t, K)
    PROVE  MovesOn(Append(s, x), H, Append(t, x), K)
<1> DEFINE ss == Append(s, x)
           tt == Append(t, x)
<1>1. /\ Len(s) \in Nat /\ Len(ss) = Len(s) + 1 /\ ss[Len(s) + 1] = x
      /\ \A i \in 1..Len(s) : ss[i] = s[i]
  BY LenProperties, AppendProperties
<1>2. /\ Len(t) \in Nat /\ Len(tt) = Len(t) + 1 /\ tt[Len(t) + 1] = x
      /\ \A i \in 1..Len(t) : tt[i] = t[i]
  BY LenProperties, AppendProperties
<1> HIDE DEF ss, tt
<1>3. Line!Waiting(ss) = Line!Waiting(s) \cup {x} /\ Line!Waiting(tt) = Line!Waiting(t) \cup {x}
  BY AppendWaiting DEF ss, tt
<1>4. ASSUME NEW c, NEW d, Line!Before(s, c, d) PROVE Line!Before(ss, c, d)
  BY <1>1, <1>4 DEF Line!Before
<1>5. ASSUME NEW c \in Line!Waiting(s) PROVE Line!Before(ss, c, x)
  <2>1. PICK i \in 1..Len(s) : s[i] = c
    BY DEF Line!Waiting
  <2>2. i \in 1..Len(ss) /\ Len(s) + 1 \in 1..Len(ss) /\ i < Len(s) + 1
    BY <1>1
  <2> QED BY <1>1, <2>1, <2>2 DEF Line!Before
<1>6. ASSUME NEW i \in 1..Len(tt), NEW j \in 1..Len(tt), i < j
      PROVE  Line!Before(ss, tt[i], tt[j])
  <2>1. i \in 1..Len(t) /\ t[i] \in Line!Waiting(s)
    <3>1. i \in 1..Len(t)
      BY <1>2, <1>6
    <3> QED BY <3>1 DEF MovesOn, Line!Waiting
  <2>2. CASE j \in 1..Len(t)
    BY <1>2, <1>4, <1>6, <2>1, <2>2 DEF MovesOn
  <2>3. CASE j = Len(t) + 1
    BY <1>2, <1>5, <2>1, <2>3
  <2> QED BY <1>2, <2>2, <2>3
<1>7. ASSUME NEW c \in K \ H, NEW d \in Line!Waiting(tt) PROVE Line!Before(ss, c, d)
  BY <1>3, <1>4, <1>5 DEF MovesOn
<1> QED BY <1>3, <1>6, <1>7 DEF MovesOn, ss, tt

LEMMA LineMembers == \A q : Line!Waiting(q.waiting) = InLine(q)
BY DEF Line!Waiting, InLine

(* Whom an operation leaves unborn, and whom it decides.                   *)
Unborn(q) == {t \in Tickets : q.status[t] = "unborn"}

LEMMA AdvanceMovesOn ==
    ASSUME NEW q, Consistent(q), NEW now \in Nat
    PROVE  /\ MovesOn(q.waiting, Holders(q), Advance(q, now).waiting, Holders(Advance(q, now)))
           /\ Unborn(Advance(q, now)) = Unborn(q)
<1> DEFINE r == Advance(q, now)
           w == q.waiting
           k == ExpiredHeads(q, now)
           n == AdmittedHeads(q, now)
           out == TimedOutBy(q, now)
           in == AdmittedBy(q, now)
<1>1. /\ Len(w) \in Nat /\ k \in 0..Len(w) /\ n \in 0..(Len(w) - k)
      /\ in = {w[i] : i \in (k + 1)..(k + n)}
  BY LenProperties, ExpiredHeadsCharacterised, AdmittedHeadsBounds DEF Consistent, Shape, AdmittedBy
<1>2. /\ Len(r.waiting) = Len(w) - k - n
      /\ \A i \in 1..Len(r.waiting) : k + n + i \in 1..Len(w) /\ r.waiting[i] = w[k + n + i]
      /\ in \subseteq InLine(q) /\ out \subseteq InLine(q)
      /\ InLine(r) = InLine(q) \ (out \cup in)
  BY AdvanceMoves
<1>3. /\ \A t \in Tickets : /\ t \in out => r.status[t] = "timed_out"
                            /\ t \in in => r.status[t] = "admitted"
                            /\ t \notin out \cup in => r.status[t] = q.status[t]
      /\ r.released = q.released
  <2>1. r.released = q.released
    BY AdvanceFields DEF Consistent
  <2> QED BY <2>1, AdvanceVerdicts
<1>4. \A t \in Tickets : (q.status[t] = "waiting" <=> t \in InLine(q))
                         /\ (q.released[t] => q.status[t] = "admitted")
  BY DEF Consistent, LineIsWaiting, ReleasedWereAdmitted
<1>5. in \subseteq Tickets
  <2>1. InLine(q) \subseteq Tickets
    BY ElementOfSeq DEF InLine, Consistent, Shape
  <2> QED BY <1>2, <2>1
<1>6. InLine(r) = {r.waiting[i] : i \in 1..Len(r.waiting)}
  BY DEF InLine
<1> HIDE DEF r, w, k, n, out, in
<1>7. Holders(r) = Holders(q) \cup in
  BY <1>2, <1>3, <1>4, <1>5 DEF Holders
<1>8. Unborn(r) = Unborn(q)
  BY <1>2, <1>3, <1>4 DEF Unborn
<1>9. ASSUME NEW i \in 1..Len(r.waiting), NEW j \in 1..Len(r.waiting), i < j
      PROVE  Line!Before(w, r.waiting[i], r.waiting[j])
  <2>1. k + n + i < k + n + j
    BY <1>1, <1>9
  <2> QED BY <1>2, <2>1 DEF Line!Before
<1>10. ASSUME NEW c \in in, NEW d \in InLine(r) PROVE Line!Before(w, c, d)
  <2>1. PICK a \in (k + 1)..(k + n) : c = w[a]
    BY <1>1
  <2>2. PICK j \in 1..Len(r.waiting) : d = r.waiting[j]
    BY <1>6
  <2>3. a \in 1..Len(w) /\ k + n + j \in 1..Len(w) /\ a < k + n + j
    BY <1>1, <1>2
  <2> QED BY <1>2, <2>1, <2>2, <2>3 DEF Line!Before
<1>11. Line!Waiting(w) = InLine(q) /\ Line!Waiting(r.waiting) = InLine(r)
  BY LineMembers DEF w
<1>12. MovesOn(w, Holders(q), r.waiting, Holders(r))
  BY <1>2, <1>7, <1>9, <1>10, <1>11 DEF MovesOn
<1> QED BY <1>8, <1>12 DEF r, w

LEMMA EnterMovesOn ==
    ASSUME NEW q, Consistent(q), NEW now \in Nat, NEW t \in Tickets, q.status[t] = "unborn"
    PROVE  /\ MovesOn(Append(q.waiting, t), Holders(q),
                      Enter(q, t, now).waiting, Holders(Enter(q, t, now)))
           /\ Unborn(Enter(q, t, now)) = Unborn(q) \ {t}
<1> DEFINE r == Enter(q, t, now)
           v == Verdict(q, t)
<1>1. /\ r.waiting = IF v = "waiting" THEN Append(q.waiting, t) ELSE q.waiting
      /\ r.status = [q.status EXCEPT ![t] = v]
      /\ r.released = q.released
  BY DEF Enter, EmptyQueue, Consistent, Shape
<1>2. v # "unborn" /\ (v = "admitted" => q.waiting = <<>>)
  BY DEF Verdict
<1>3. q.waiting \in Seq(Tickets) /\ Len(q.waiting) \in Nat /\ q.status \in [Tickets -> Status]
  BY LenProperties DEF Consistent, Shape
<1>4. ~q.released[t] /\ t \notin Holders(q)
  BY DEF Consistent, ReleasedWereAdmitted, Holders
<1> HIDE DEF r, v
<1>5. \A u \in Tickets : r.status[u] = IF u = t THEN v ELSE q.status[u]
  BY <1>1, <1>3
<1>6. Unborn(r) = Unborn(q) \ {t}
  BY <1>2, <1>5 DEF Unborn
<1>7. Holders(r) = Holders(q) \cup IF v = "admitted" THEN {t} ELSE {}
  BY <1>1, <1>4, <1>5 DEF Holders
<1>8. /\ Len(Append(q.waiting, t)) = Len(q.waiting) + 1
      /\ Append(q.waiting, t)[Len(q.waiting) + 1] = t
      /\ \A i \in 1..Len(q.waiting) : Append(q.waiting, t)[i] = q.waiting[i]
  BY <1>3, AppendProperties
<1>9. CASE v = "waiting"
  BY <1>1, <1>7, <1>9, Unmoved, <1>6 DEF r
<1>10. CASE v # "waiting"
  <2>1. r.waiting = q.waiting
    BY <1>1, <1>10
  <2>2. ASSUME NEW i \in 1..Len(q.waiting), NEW j \in 1..Len(q.waiting), i < j
        PROVE  Line!Before(Append(q.waiting, t), q.waiting[i], q.waiting[j])
    <3>1. i \in 1..Len(q.waiting) + 1 /\ j \in 1..Len(q.waiting) + 1
      BY <1>3
    <3> QED BY <1>8, <2>2, <3>1 DEF Line!Before
  <2>3. Line!Waiting(q.waiting) \subseteq Line!Waiting(Append(q.waiting, t))
    <3>1. \A i \in 1..Len(q.waiting) : i \in 1..Len(q.waiting) + 1
      BY <1>3
    <3> QED BY <1>8, <3>1 DEF Line!Waiting
  <2>4. t \in Line!Waiting(Append(q.waiting, t))
    <3>1. Len(q.waiting) + 1 \in 1..Len(q.waiting) + 1
      BY <1>3
    <3> QED BY <1>8, <3>1 DEF Line!Waiting
  <2>5. v = "admitted" => Line!Waiting(q.waiting) = {}
    BY <1>2 DEF Line!Waiting
  <2>6. MovesOn(Append(q.waiting, t), Holders(q), r.waiting, Holders(r))
    BY <1>7, <2>1, <2>2, <2>3, <2>4, <2>5 DEF MovesOn
  <2> QED BY <1>6, <2>6 DEF r
<1> QED BY <1>9, <1>10

LEMMA RemoveMovesOn ==
    ASSUME NEW q, Consistent(q), NEW now \in Nat, NEW t \in Tickets, q.status[t] = "waiting"
    PROVE  LET r == Remove(q, t, "cancelled", now)
           IN  /\ MovesOn(q.waiting, Holders(q), r.waiting, Holders(r))
               /\ Unborn(r) = Unborn(q)
<1> DEFINE r == Remove(q, t, "cancelled", now)
           p == Place(q, t)
           n == Len(q.waiting)
<1>1. /\ r.waiting = [i \in 1..(n - 1) |-> IF i < p THEN q.waiting[i] ELSE q.waiting[i + 1]]
      /\ r.status = [q.status EXCEPT ![t] = "cancelled"]
      /\ r.released = q.released
  BY DEF Remove, EmptyQueue, Consistent, Shape
<1>2. /\ n \in Nat /\ \A i \in 1..n : q.waiting[i] \in Tickets
      /\ q.status \in [Tickets -> Status]
  BY LenProperties, ElementOfSeq DEF Consistent, Shape
<1>3. p \in 1..n
  <2>1. \E i \in 1..n : q.waiting[i] = t
    BY DEF Consistent, LineIsWaiting, InLine
  <2> QED BY <2>1 DEF Place
<1> HIDE DEF r, p
<1>4. Len(r.waiting) = n - 1
  <2>1. n - 1 \in Nat
    BY <1>2, <1>3
  <2>2. r.waiting \in [1..(n - 1) -> Tickets]
    BY <1>1, <1>2, <1>3
  <2>3. r.waiting \in Seq(Tickets)
    BY <2>1, <2>2, SeqDef
  <2> QED BY <2>1, <2>2, <2>3, LenProperties
<1>5. \A u \in Tickets : r.status[u] = IF u = t THEN "cancelled" ELSE q.status[u]
  BY <1>1, <1>2
<1>6. Holders(r) = Holders(q) /\ Unborn(r) = Unborn(q)
  BY <1>1, <1>5 DEF Holders, Unborn
<1>10. ASSUME NEW i \in 1..Len(r.waiting)
       PROVE  \E a \in 1..n : a = (IF i < p THEN i ELSE i + 1) /\ r.waiting[i] = q.waiting[a]
  <2>1. i \in 1..(n - 1)
    BY <1>4
  <2>2. CASE i < p
    <3>1. r.waiting[i] = q.waiting[i] /\ i \in 1..n
      BY <1>1, <1>2, <2>1, <2>2
    <3> QED BY <2>2, <3>1
  <2>3. CASE ~(i < p)
    <3>1. r.waiting[i] = q.waiting[i + 1] /\ i + 1 \in 1..n
      BY <1>1, <1>2, <2>1, <2>3
    <3> QED BY <2>3, <3>1
  <2> QED BY <2>2, <2>3
<1>7. ASSUME NEW i \in 1..Len(r.waiting), NEW j \in 1..Len(r.waiting), i < j
      PROVE  Line!Before(q.waiting, r.waiting[i], r.waiting[j])
  <2>1. PICK a \in 1..n : a = (IF i < p THEN i ELSE i + 1) /\ r.waiting[i] = q.waiting[a]
    BY <1>10
  <2>2. PICK b \in 1..n : b = (IF j < p THEN j ELSE j + 1) /\ r.waiting[j] = q.waiting[b]
    BY <1>10
  <2>3. a < b
    BY <1>3, <1>7, <2>1, <2>2
  <2> QED BY <2>1, <2>2, <2>3 DEF Line!Before
<1>8. Line!Waiting(r.waiting) \subseteq Line!Waiting(q.waiting)
  <2> SUFFICES ASSUME NEW i \in 1..Len(r.waiting)
               PROVE  r.waiting[i] \in Line!Waiting(q.waiting)
    BY DEF Line!Waiting
  <2>1. PICK a \in 1..n : r.waiting[i] = q.waiting[a]
    BY <1>10
  <2> QED BY <2>1 DEF Line!Waiting
<1>9. MovesOn(q.waiting, Holders(q), r.waiting, Holders(r))
  BY <1>6, <1>7, <1>8 DEF MovesOn
<1> QED BY <1>6, <1>9 DEF r

LEMMA GiveBackMovesOn ==
    ASSUME NEW q, Consistent(q), NEW t \in Holders(q)
    PROVE  /\ MovesOn(q.waiting, Holders(q) \ {t}, GiveBack(q, t).waiting, Holders(GiveBack(q, t)))
           /\ Unborn(GiveBack(q, t)) = Unborn(q)
<1> DEFINE r == GiveBack(q, t)
<1>1. /\ r.waiting = q.waiting /\ r.status = q.status
      /\ r.released = [q.released EXCEPT ![t] = TRUE]
  BY DEF GiveBack, EmptyQueue, Consistent, Shape
<1>2. q.released \in [Tickets -> BOOLEAN] /\ t \in Tickets
  BY DEF Consistent, Shape, Holders
<1> HIDE DEF r
<1>3. Holders(r) = Holders(q) \ {t} /\ Unborn(r) = Unborn(q)
  BY <1>1, <1>2 DEF Holders, Unborn
<1> QED BY <1>1, <1>3, Unmoved DEF r

(* What is left of a step once its line has moved on.                      *)
LEMMA LineMovesUp ==
    ASSUME Consistent(queue), Consistent(queue'), WorkConserving(queue'), NEW s, NEW H,
           MovesOn(s, H, queue'.waiting, Holders(queue'))
    PROVE  Line!MoveUp(s, H)
<1>0. Holders(queue)' = Holders(queue')
  BY DEF Holders
<1>1. Cardinality(Holders(queue')) = queue'.active /\ queue'.active <= MaxActive
  BY DEF Consistent, SlotsAccounted
<1>2. queue'.waiting # <<>> => Cardinality(Holders(queue')) = MaxActive
  BY <1>1 DEF WorkConserving
<1>3. Line!Waiting(queue'.waiting) \cap Holders(queue') = {}
  <2>1. \A t \in Holders(queue') : t \in Tickets /\ queue'.status[t] = "admitted"
    BY DEF Holders
  <2>2. \A t \in Holders(queue') : t \notin InLine(queue')
    BY <2>1 DEF Consistent, LineIsWaiting
  <2> QED BY <2>2, LineMembers
<1>4. Line!FirstComeFirstServed(s, H)
  BY <1>0, <1>3 DEF MovesOn, Line!FirstComeFirstServed
<1>5. Line!Cardinality(Holders(queue)') = Cardinality(Holders(queue)')
  BY DEF Cardinality, Line!Cardinality
<1> QED BY <1>0, <1>1, <1>2, <1>4, <1>5 DEF Line!MoveUp

LEMMA SeenFromUnborn ==
    /\ {t \in Tickets : queue.status[t] # "unborn"} = Tickets \ Unborn(queue)
    /\ {t \in Tickets : queue.status[t] # "unborn"}' = Tickets \ Unborn(queue')
BY DEF Unborn

LEMMA QuitsStep ==
    ASSUME Consistent(queue), Consistent(queue'), WorkConserving(queue'),
           MovesOn(queue.waiting, Holders(queue), queue'.waiting, Holders(queue')),
           Unborn(queue') = Unborn(queue)
    PROVE  Line!Quit
BY SeenFromUnborn, LineMovesUp DEF Line!Quit

LEMMA ArrivesStep ==
    ASSUME QueueInvariant, QueueInvariant', NEW t \in Tickets, RequestSlot(t)
    PROVE  Line!Arrive(t)
<1> DEFINE a == Advance(queue, clock)
<1>1. /\ Consistent(queue) /\ clock \in Nat /\ ArrivalsPast(queue, clock)
      /\ Consistent(queue') /\ WorkConserving(queue')
  <2>1. (Consistent(queue) /\ WorkConserving(queue))'
    BY QueueInvariantExpanded, PTL
  <2>2. Consistent(queue') /\ WorkConserving(queue')
    BY <2>1 DEF Consistent, WorkConserving, Shape, SlotsAccounted, LineIsWaiting,
       DeadlinesInOrder, DeadlinesHonoured, ReleasedWereAdmitted, Holders, InLine, BytesFit
  <2> QED BY <2>2, QueueInvariantExpanded, TimeAssumption
<1>2. /\ MovesOn(queue.waiting, Holders(queue), a.waiting, Holders(a))
      /\ Unborn(a) = Unborn(queue) /\ Consistent(a)
  BY <1>1, AdvanceMovesOn, AdvanceConsistent
<1> HIDE DEF a
<1>3. t \in Unborn(queue) /\ queue' = Enter(a, t, clock)
  BY DEF RequestSlot, Unborn, a
<1>4. queue.waiting \in Seq(Tickets) /\ a.waiting \in Seq(Tickets)
  BY <1>1, <1>2 DEF Consistent, Shape
<1>5. MovesOn(Append(queue.waiting, t), Holders(queue), Append(a.waiting, t), Holders(a))
  BY <1>2, <1>4, MovesWithNewcomer
<1>6. a.status[t] = "unborn"
  BY <1>2, <1>3 DEF Unborn
<1>7. /\ MovesOn(Append(a.waiting, t), Holders(a), queue'.waiting, Holders(queue'))
      /\ Unborn(queue') = Unborn(queue) \ {t}
  BY <1>1, <1>2, <1>3, <1>6, EnterMovesOn
<1>8. Line!MoveUp(Append(queue.waiting, t), Holders(queue))
  BY <1>1, <1>5, <1>7, MovesFurther, LineMovesUp
<1> QED BY <1>3, <1>7, <1>8, SeenFromUnborn DEF Line!Arrive

LEMMA AdvancesQuit ==
    ASSUME Consistent(queue), NEW q, Consistent(q), NEW now \in Nat,
           MovesOn(queue.waiting, Holders(queue), q.waiting, Holders(q)),
           Unborn(q) = Unborn(queue), queue' = Advance(q, now)
    PROVE  Line!Quit
BY AdvanceMovesOn, AdvanceConsistent, MovesFurther, QuitsStep

LEMMA WaitsQuit ==
    ASSUME QueueInvariant, NEW t \in Tickets, NEW until, Park(t, until) \/ Return(t, until)
    PROVE  Line!Quit
<1>1. Consistent(queue) /\ WorkConserving(queue) /\ clock \in Nat /\ clock \in 0..Horizon
  BY QueueInvariantExpanded, TimeAssumption
<1>2. MovesOn(queue.waiting, Holders(queue), queue.waiting, Holders(queue))
  BY Unmoved
<1>3. CASE Park(t, until)
  <2>1. queue' = Advance(queue, clock)
    BY <1>3 DEF Park
  <2> QED BY <1>1, <1>2, <2>1, AdvancesQuit
<1>4. CASE Return(t, until)
  <2> DEFINE first == IF queue.status[t] = "waiting" THEN Advance(queue, clock) ELSE queue
  <2>1. PICK later \in LaterReadings :
          queue' = IF first.status[t] = "waiting" THEN Advance(first, later) ELSE first
    BY <1>4 DEF Return
  <2>2. later \in Nat
    BY <1>1, LaterReadingsType
  <2>3. /\ Consistent(first) /\ WorkConserving(first) /\ Unborn(first) = Unborn(queue)
        /\ MovesOn(queue.waiting, Holders(queue), first.waiting, Holders(first))
    BY <1>1, <1>2, AdvanceMovesOn, AdvanceConsistent
  <2> HIDE DEF first
  <2> QED BY <1>1, <2>1, <2>2, <2>3, AdvancesQuit, QuitsStep
<1> QED BY <1>3, <1>4

LEMMA LeavesStep ==
    ASSUME QueueInvariant, NEW t \in Tickets, Release(t)
    PROVE  Line!Leave(t)
<1> DEFINE r == GiveBack(queue, t)
<1>1. Consistent(queue) /\ clock \in Nat /\ ArrivalsPast(queue, clock)
  BY QueueInvariantExpanded, TimeAssumption
<1>2. t \in Holders(queue) /\ queue' = Advance(r, clock)
  BY DEF Release
<1>3. /\ Consistent(r) /\ Unborn(r) = Unborn(queue)
      /\ MovesOn(queue.waiting, Holders(queue) \ {t}, r.waiting, Holders(r))
  BY <1>1, <1>2, GiveBackConsistent, GiveBackMovesOn
<1> HIDE DEF r
<1>4. /\ Consistent(queue') /\ WorkConserving(queue') /\ Unborn(queue') = Unborn(queue)
      /\ MovesOn(queue.waiting, Holders(queue) \ {t}, queue'.waiting, Holders(queue'))
  BY <1>1, <1>2, <1>3, AdvanceConsistent, AdvanceMovesOn, MovesFurther
<1>5. Line!MoveUp(queue.waiting, Holders(queue) \ {t})
  BY <1>1, <1>4, LineMovesUp
<1> QED BY <1>2, <1>4, <1>5, SeenFromUnborn DEF Line!Leave

LEMMA CancelQuits ==
    ASSUME QueueInvariant, NEW t \in Tickets, Cancel(t)
    PROVE  Line!Quit
<1> DEFINE r == Remove(queue, t, "cancelled", clock)
<1>1. /\ Consistent(queue) /\ clock \in Nat /\ ArrivalsPast(queue, clock)
      /\ clock \in 0..Horizon
  BY QueueInvariantExpanded, TimeAssumption
<1>2. queue.status[t] = "waiting" /\ \E later \in LaterReadings : queue' = Advance(r, later)
  BY DEF Cancel
<1>3. /\ Consistent(r) /\ Unborn(r) = Unborn(queue)
      /\ MovesOn(queue.waiting, Holders(queue), r.waiting, Holders(r))
  BY <1>1, <1>2, RemoveConsistent, RemoveMovesOn
<1> HIDE DEF r
<1> QED BY <1>1, <1>2, <1>3, LaterReadingsType, AdvancesQuit

(* First come, first served: every step of the queue, whichever thread     *)
(* takes it and however far the clock has moved meanwhile, is a step of    *)
(* AdmissionLine.  _advance_locked never lets anybody overtake, hands      *)
(* every free slot on in the same step, and request_slot admits at once    *)
(* only when nobody waits.                                                 *)
THEOREM QueueImplementsLine == Spec => ImplementsAdmissionLine
<1>1. Init => Line!Init
  BY DEF Init, EmptyQueue, Holders, Line!Init
<1>2. ASSUME QueueInvariant, QueueInvariant', [Next]_vars
      PROVE  [Line!Next]_(Line!lineVars)
  <2>1. ASSUME NEW t \in Tickets, RequestSlot(t) PROVE Line!Next
    BY <1>2, <2>1, ArrivesStep DEF Line!Next
  <2>2. ASSUME NEW t \in Tickets, \/ \E poll \in Polls \cup {Forever} : Wait(t, poll)
                                  \/ Resume(t)
        PROVE  Line!Next
    BY <1>2, <2>2, WaitsQuit DEF Line!Next, Wait, Resume
  <2>3. ASSUME NEW t \in Tickets, Cancel(t) PROVE Line!Next
    BY <1>2, <2>3, CancelQuits DEF Line!Next
  <2>4. ASSUME NEW t \in Tickets, Release(t) PROVE Line!Next
    BY <1>2, <2>4, LeavesStep DEF Line!Next
  <2>5. CASE Snapshot
    <3>1. Consistent(queue) /\ clock \in Nat /\ queue' = Advance(queue, clock)
      BY <1>2, <2>5, QueueInvariantExpanded, TimeAssumption DEF Snapshot
    <3>2. MovesOn(queue.waiting, Holders(queue), queue.waiting, Holders(queue))
      BY Unmoved
    <3> QED BY <3>1, <3>2, AdvancesQuit DEF Line!Next
  <2>6. CASE queue' = queue
    BY <2>6 DEF Line!lineVars, Holders
  <2> QED BY <1>2, <2>1, <2>2, <2>3, <2>4, <2>5, <2>6 DEF Next, Tick, vars
<1> QED BY <1>1, <1>2, QueueCorrect, PTL DEF Spec, ImplementsAdmissionLine, Line!Spec

-----------------------------------------------------------------------------
(***************************************************************************)
(* The endpoint.                                                           *)
(***************************************************************************)
HandlerTypes ==
    /\ pc \in [Tickets -> Places]
    /\ body \in [Tickets -> {"none", "direct", "queued"}]
    /\ started \in [Tickets -> BOOLEAN]
    /\ upstream \in [Tickets -> BOOLEAN]
    /\ closed \in [Tickets -> BOOLEAN]
    /\ inferences \in Nat

Undecided == {"new", "asked", "asking", "yielding", "polling"}

(***************************************************************************)
(* What the place of a thread says about its body, its flags, its Ollama   *)
(* call and its ticket.                                                    *)
(***************************************************************************)
BodyFits(t) ==
    /\ body[t] = "queued" => t \in Streaming
    /\ pc[t] \in {"new", "asked", "asking", "calling"} => body[t] = "none"
    /\ pc[t] \in {"yielding", "polling", "erring"} => body[t] = "queued"
    /\ pc[t] \in {"begin", "opening"} => body[t] # "direct"
    /\ pc[t] \in {"streaming", "closing", "cancelling", "finished"} => body[t] # "none"

FlagsFit(t) ==
    /\ pc[t] \in Undecided \cup {"begin"} => ~started[t]
    /\ pc[t] = "opening" => (started[t] <=> body[t] = "queued")
    /\ pc[t] = "streaming" => body[t] = "direct" \/ started[t]
    /\ pc[t] \in {"closing", "cancelling", "finished"} => closed[t]
    /\ pc[t] \in {"ending", "releasing"} /\ body[t] # "none" => closed[t]
    /\ upstream[t] => pc[t] \in {"calling", "opening", "streaming", "closing"} /\ RunsInference(t)

TicketFits(t) ==
    /\ pc[t] \in Undecided => ~queue.released[t]
    /\ pc[t] = "asking" /\ t \notin Streaming => call[t].until = Forever
    /\ pc[t] = "begin" \/ RunsInference(t) => t \in Holders(queue)
    /\ pc[t] = "releasing" => queue.status[t] # "waiting"
    /\ pc[t] \in {"finished", "done"} =>
          t \notin Holders(queue) /\ queue.status[t] # "waiting"

Running == {t \in Tickets : RunsInference(t)}

Inductive ==
    /\ QueueInvariant
    /\ HandlerTypes
    /\ \A t \in Tickets : BodyFits(t) /\ FlagsFit(t) /\ TicketFits(t)
    /\ inferences = Cardinality(Running)

-----------------------------------------------------------------------------
\* A ticket of another thread, as an operation on the queue may find and leave it.
Untouched(u) ==
    /\ queue.status[u] # "waiting" => queue'.status[u] = queue.status[u]
    /\ queue'.released[u] = queue.released[u]
    /\ call'[u].until = call[u].until

LEMMA NotifyKeepsUntil ==
    ASSUME NEW calls \in [Tickets -> CallType], NEW u \in Tickets, NEW q, NEW now
    PROVE  /\ NotifyAll(calls)[u].until = calls[u].until
           /\ AfterAdvance(calls, q, now)[u].until = calls[u].until
<1>1. NotifyAll(calls)[u].until = calls[u].until
  BY DEF NotifyAll, CallType
<1> QED BY <1>1 DEF AfterAdvance

LEMMA AdvanceKeeps ==
    ASSUME NEW q, Consistent(q), NEW now \in Nat, NEW u \in Tickets
    PROVE  /\ q.status[u] # "waiting" => Advance(q, now).status[u] = q.status[u]
           /\ Advance(q, now).released[u] = q.released[u]
<1>1. q.status[u] # "waiting" => u \notin InLine(q)
  BY DEF Consistent, LineIsWaiting
<1> QED BY <1>1, AdvanceConsistent, AdvanceFields DEF Consistent

LEMMA QueueParts ==
    ASSUME QueueInvariant
    PROVE  /\ clock \in Nat /\ clock \in 0..Horizon /\ call \in [Tickets -> CallType]
           /\ Consistent(queue) /\ ArrivalsPast(queue, clock)
           /\ queue.status \in [Tickets -> Status]
           /\ queue.released \in [Tickets -> BOOLEAN]
           /\ queue.deadline \in [Tickets -> Nat]
BY QueueInvariantExpanded, TimeAssumption DEF Consistent, Shape

-----------------------------------------------------------------------------
(***************************************************************************)
(* What each operation of the queue does to the ticket it is called for,   *)
(* and to those of the other threads.                                      *)
(***************************************************************************)
LEMMA RequestSlotOutcome ==
    ASSUME QueueInvariant, NEW t \in Tickets, RequestSlot(t)
    PROVE  /\ \A u \in Tickets \ {t} : Untouched(u)
           /\ queue'.released[t] = queue.released[t]
<1> DEFINE a == Advance(queue, clock)
<1>1. queue' = Enter(a, t, clock) /\ call' = AfterAdvance(call, queue, clock)
  BY DEF RequestSlot
<1>2. Consistent(a)
  BY QueueParts, AdvanceConsistent
<1>3. \A u \in Tickets : /\ queue.status[u] # "waiting" => a.status[u] = queue.status[u]
                         /\ a.released[u] = queue.released[u]
  BY QueueParts, AdvanceKeeps
<1> HIDE DEF a
<1>4. /\ queue'.status = [a.status EXCEPT ![t] = Verdict(a, t)]
      /\ queue'.released = a.released
  BY <1>1, <1>2 DEF Enter, Consistent, Shape, EmptyQueue
<1>5. \A u \in Tickets \ {t} : queue'.status[u] = a.status[u]
  BY <1>2, <1>4 DEF Consistent, Shape
<1> QED BY <1>1, <1>3, <1>4, <1>5, QueueParts, NotifyKeepsUntil DEF Untouched

LEMMA ParkOutcome ==
    ASSUME QueueInvariant, NEW t \in Tickets, NEW until, Park(t, until)
    PROVE  /\ \A u \in Tickets \ {t} : Untouched(u)
           /\ queue'.released[t] = queue.released[t]
           /\ call'[t].parked /\ call'[t].until = until
<1>1. /\ queue' = Advance(queue, clock)
      /\ call' = [AfterAdvance(call, queue, clock) EXCEPT
                    ![t] = [parked |-> TRUE, until |-> until, notified |-> FALSE]]
  BY DEF Park
<1>2. AfterAdvance(call, queue, clock) \in [Tickets -> CallType]
  BY QueueParts, CallTypes
<1>3. /\ call'[t] = [parked |-> TRUE, until |-> until, notified |-> FALSE]
      /\ \A u \in Tickets \ {t} : call'[u] = AfterAdvance(call, queue, clock)[u]
  BY <1>1, <1>2
<1> QED BY <1>1, <1>3, QueueParts, AdvanceKeeps, NotifyKeepsUntil DEF Untouched

LEMMA ReturnOutcome ==
    ASSUME QueueInvariant, NEW t \in Tickets, NEW until \in Nat \cup {Forever},
           Return(t, until)
    PROVE  /\ \A u \in Tickets \ {t} : Untouched(u)
           /\ queue'.released[t] = queue.released[t]
           /\ ~call'[t].parked
           /\ until = Forever => queue'.status[t] # "waiting"
<1> DEFINE asked == queue.status[t] = "waiting"
           first == IF asked THEN Advance(queue, clock) ELSE queue
           woken(later) == AfterAdvance(AfterAdvance(call, queue, clock), first, later)
<1>1. PICK later \in LaterReadings :
        /\ first.status[t] = "waiting" => WakeAt(t, until) <= clock
        /\ queue' = IF first.status[t] = "waiting" THEN Advance(first, later) ELSE first
        /\ call' = [IF asked THEN woken(later) ELSE call EXCEPT ![t] = NoCall]
  BY DEF Return
<1>2. later \in Nat
  BY QueueParts, LaterReadingsType
<1>3. /\ Consistent(first)
      /\ \A u \in Tickets : /\ queue.status[u] # "waiting" => first.status[u] = queue.status[u]
                            /\ first.released[u] = queue.released[u]
  BY QueueParts, AdvanceConsistent, AdvanceKeeps
<1>4. \A u \in Tickets : /\ queue.status[u] # "waiting" => queue'.status[u] = queue.status[u]
                         /\ queue'.released[u] = queue.released[u]
  <2> HIDE DEF first
  <2>1. \A u \in Tickets : /\ first.status[u] # "waiting" => queue'.status[u] = first.status[u]
                           /\ queue'.released[u] = first.released[u]
    BY <1>1, <1>2, <1>3, AdvanceKeeps
  <2> QED BY <2>1, <1>3
<1>5. /\ ~call'[t].parked
      /\ \A u \in Tickets \ {t} : call'[u].until = call[u].until
  <2>1. AfterAdvance(call, queue, clock) \in [Tickets -> CallType]
    BY QueueParts, CallTypes
  <2>2. /\ woken(later) \in [Tickets -> CallType]
        /\ \A u \in Tickets : woken(later)[u].until = call[u].until
    BY <2>1, CallTypes, NotifyKeepsUntil, QueueParts
  <2> HIDE DEF woken
  <2> QED BY <1>1, <2>2, QueueParts DEF NoCall
<1>6. ASSUME until = Forever PROVE queue'.status[t] # "waiting"
  <2> SUFFICES ASSUME first.status[t] = "waiting" PROVE FALSE
    BY <1>1
  <2>1. asked
    OBVIOUS
  <2>2. queue.deadline[t] <= clock
    BY <1>1, <1>6, QueueParts DEF WakeAt
  <2>3. Advance(queue, clock).status[t] = "timed_out"
    BY <2>1, <2>2, QueueParts, AdvanceTimesOut
  <2> QED BY <2>1, <2>3
<1> QED BY <1>4, <1>5, <1>6 DEF Untouched

LEMMA CancelOutcome ==
    ASSUME QueueInvariant, NEW t \in Tickets, Cancel(t)
    PROVE  /\ \A u \in Tickets \ {t} : Untouched(u)
           /\ queue'.status[t] = "cancelled"
<1> DEFINE r == Remove(queue, t, "cancelled", clock)
<1>1. PICK later \in LaterReadings : queue' = Advance(r, later)
  BY DEF Cancel
<1>2. later \in Nat /\ call' = NotifyAll(call)
  BY QueueParts, LaterReadingsType DEF Cancel
<1>3. Consistent(r)
  BY QueueParts, RemoveConsistent DEF Cancel
<1>4. /\ r.status = [queue.status EXCEPT ![t] = "cancelled"]
      /\ r.released = queue.released
  BY QueueParts DEF Remove, Consistent, Shape, EmptyQueue
<1> HIDE DEF r
<1>5. \A u \in Tickets : /\ r.status[u] # "waiting" => queue'.status[u] = r.status[u]
                         /\ queue'.released[u] = r.released[u]
  BY <1>1, <1>2, <1>3, AdvanceKeeps
<1> QED BY <1>2, <1>4, <1>5, QueueParts, NotifyKeepsUntil DEF Untouched

LEMMA ReleaseOutcome ==
    ASSUME QueueInvariant, NEW t \in Tickets, Release(t)
    PROVE  /\ \A u \in Tickets \ {t} : Untouched(u)
           /\ queue'.status[t] = "admitted" /\ queue'.released[t]
<1> DEFINE r == GiveBack(queue, t)
<1>1. t \in Holders(queue) /\ queue' = Advance(r, clock) /\ call' = NotifyAll(call)
  BY DEF Release
<1>2. Consistent(r)
  BY <1>1, QueueParts, GiveBackConsistent
<1>3. r.status = queue.status /\ r.released = [queue.released EXCEPT ![t] = TRUE]
  BY QueueParts DEF GiveBack, Consistent, Shape, EmptyQueue
<1> HIDE DEF r
<1>4. \A u \in Tickets : /\ r.status[u] # "waiting" => queue'.status[u] = r.status[u]
                         /\ queue'.released[u] = r.released[u]
  BY <1>1, <1>2, QueueParts, AdvanceKeeps
<1>5. queue.status[t] = "admitted"
  BY <1>1 DEF Holders
<1> QED BY <1>1, <1>3, <1>4, <1>5, QueueParts, NotifyKeepsUntil DEF Untouched

-----------------------------------------------------------------------------
(***************************************************************************)
(* A step of one thread.                                                   *)
(***************************************************************************)
Fits(t) == BodyFits(t) /\ FlagsFit(t) /\ TicketFits(t)

\* The handler's variables of a thread that does not move.
Still(u) ==
    /\ pc'[u] = pc[u] /\ body'[u] = body[u] /\ started'[u] = started[u]
    /\ upstream'[u] = upstream[u] /\ closed'[u] = closed[u]

LEMMA OthersStillFit ==
    ASSUME QueueInvariant, NEW u \in Tickets, Fits(u), Still(u), Untouched(u)
    PROVE  Fits(u)' /\ (RunsInference(u)' <=> RunsInference(u))
<1>1. RunsInference(u)' <=> RunsInference(u)
  BY DEF Still, RunsInference
<1>2. BodyFits(u)'
  BY DEF Fits, Still, BodyFits
<1>3. FlagsFit(u)'
  BY <1>1 DEF Fits, Still, FlagsFit, Undecided
<1>4. u \in Holders(queue) => u \in Holders(queue)'
  BY DEF Untouched, Holders
<1>5. u \notin Holders(queue) /\ queue.status[u] # "waiting" => u \notin Holders(queue)'
  BY DEF Untouched, Holders
<1>6. TicketFits(u)'
  BY <1>1, <1>4, <1>5 DEF Fits, Still, TicketFits, Untouched
<1> QED BY <1>1, <1>2, <1>3, <1>6 DEF Fits

\* How a step of one thread changes the count of the running inferences.
Counts(t) ==
    \/ (RunsInference(t)' <=> RunsInference(t)) /\ inferences' = inferences
    \/ ~RunsInference(t) /\ RunsInference(t)' /\ inferences' = inferences + 1
    \/ RunsInference(t) /\ ~RunsInference(t)' /\ inferences' = inferences - 1

LEMMA ThreadStep ==
    ASSUME Inductive, NEW t \in Tickets,
           QueueInvariant', HandlerTypes', Fits(t)', Counts(t),
           \A u \in Tickets \ {t} : Still(u) /\ Untouched(u)
    PROVE  Inductive'
<1>1. \A u \in Tickets : Fits(u)
  BY DEF Inductive, Fits
<1>2. \A u \in Tickets \ {t} : Fits(u)' /\ (RunsInference(u)' <=> RunsInference(u))
  BY <1>1, OthersStillFit DEF Inductive
<1>3. \A u \in Tickets : (BodyFits(u) /\ FlagsFit(u) /\ TicketFits(u))'
  BY <1>2 DEF Fits
<1>4. inferences' = Cardinality(Running')
  <2>1. IsFiniteSet(Running) /\ inferences = Cardinality(Running) /\ inferences \in Nat
    <3>1. Running \in SUBSET Tickets
      BY DEF Running
    <3> QED BY <3>1, TicketsAssumption, FS_Subset DEF Inductive, HandlerTypes
  <2>2. CASE (RunsInference(t)' <=> RunsInference(t)) /\ inferences' = inferences
    <3>1. Running' = Running
      BY <2>2, <1>2 DEF Running
    <3> QED BY <3>1, <2>1, <2>2
  <2>3. CASE ~RunsInference(t) /\ RunsInference(t)' /\ inferences' = inferences + 1
    <3>1. Running' = Running \cup {t} /\ t \notin Running
      BY <2>3, <1>2 DEF Running
    <3> QED BY <3>1, <2>1, <2>3, FS_AddElement
  <2>4. CASE RunsInference(t) /\ ~RunsInference(t)' /\ inferences' = inferences - 1
    <3>1. Running' = Running \ {t} /\ t \in Running
      BY <2>4, <1>2 DEF Running
    <3> QED BY <3>1, <2>1, <2>4, FS_RemoveElement
  <2> QED BY <2>2, <2>3, <2>4 DEF Counts
<1> QED BY <1>3, <1>4 DEF Inductive

(* The steps of the handler that leave the queue alone.                    *)
LEMMA QueueUntouched ==
    ASSUME QueueInvariant, UNCHANGED queueVars
    PROVE  QueueInvariant' /\ \A u \in Tickets : Untouched(u)
<1>1. QueueInvariant'
  BY NextQueueInvariant DEF queueVars, vars
<1> QED BY <1>1 DEF queueVars, Untouched

LEMMA HandlerStep ==
    ASSUME Inductive, NEW t \in Tickets,
           \/ Begin(t) \/ CallReturns(t) \/ Opens(t) \/ OpenFails(t) \/ Close(t)
           \/ CloseUpstream(t) \/ EndInference(t) \/ CloseAgain(t)
    PROVE  Inductive'
<1>1. /\ QueueInvariant /\ HandlerTypes /\ Fits(t)
      /\ RunsInference(t) => inferences > 0
  <2>1. ASSUME RunsInference(t) PROVE inferences > 0
    <3>1. t \in Running /\ Running \in SUBSET Tickets
      BY <2>1 DEF Running
    <3>2. IsFiniteSet(Running) /\ Running # {}
      BY <3>1, TicketsAssumption, FS_Subset
    <3> QED BY <3>2, FS_EmptySet, FS_CardinalityType DEF Inductive
  <2> QED BY <2>1 DEF Inductive, Fits
<1>2. UNCHANGED queueVars
  BY DEF Begin, CallReturns, Opens, OpenFails, Close, CloseUpstream, EndInference, CloseAgain
<1>3. QueueInvariant' /\ \A u \in Tickets : Untouched(u)
  BY <1>1, <1>2, QueueUntouched
<1>4. /\ queue' = queue /\ call' = call
      /\ t \in Holders(queue)' <=> t \in Holders(queue)
  BY <1>2 DEF queueVars, Holders
<1>5. CASE Begin(t)
  <2>1. HandlerTypes' /\ \A u \in Tickets \ {t} : Still(u)
    BY <1>1, <1>5 DEF Begin, Goto, HandlerTypes, Places, Still
  <2>2. Fits(t)' /\ Counts(t)
    BY <1>1, <1>4, <1>5 DEF Begin, Goto, HandlerTypes, Fits, BodyFits, FlagsFit, TicketFits,
       Counts, RunsInference, Undecided
  <2> QED BY <2>1, <2>2, <1>3, ThreadStep
<1>6. CASE CallReturns(t)
  <2>1. HandlerTypes' /\ \A u \in Tickets \ {t} : Still(u)
    BY <1>1, <1>6 DEF CallReturns, Goto, HandlerTypes, Places, Still
  <2>2. Fits(t)' /\ Counts(t)
    BY <1>1, <1>4, <1>6 DEF CallReturns, Goto, HandlerTypes, Fits, BodyFits, FlagsFit,
       TicketFits, Counts, RunsInference, Undecided
  <2> QED BY <2>1, <2>2, <1>3, ThreadStep
<1>7. CASE Opens(t)
  <2>1. HandlerTypes' /\ \A u \in Tickets \ {t} : Still(u)
    BY <1>1, <1>7 DEF Opens, Goto, HandlerTypes, Places, Still
  <2>2. Fits(t)' /\ Counts(t)
    BY <1>1, <1>4, <1>7 DEF Opens, Goto, HandlerTypes, Fits, BodyFits, FlagsFit, TicketFits,
       Counts, RunsInference, Undecided
  <2> QED BY <2>1, <2>2, <1>3, ThreadStep
<1>8. CASE OpenFails(t)
  <2>1. HandlerTypes' /\ \A u \in Tickets \ {t} : Still(u)
    BY <1>1, <1>8 DEF OpenFails, Goto, HandlerTypes, Places, Still
  <2>2. Fits(t)' /\ Counts(t)
    BY <1>1, <1>4, <1>8 DEF OpenFails, Goto, HandlerTypes, Fits, BodyFits, FlagsFit,
       TicketFits, Counts, RunsInference, Undecided
  <2> QED BY <2>1, <2>2, <1>3, ThreadStep
<1>9. CASE Close(t)
  <2>1. HandlerTypes' /\ \A u \in Tickets \ {t} : Still(u)
    BY <1>1, <1>9 DEF Close, Goto, HandlerTypes, Places, Still
  <2>2. Fits(t)' /\ Counts(t)
    BY <1>1, <1>4, <1>9 DEF Close, Goto, HandlerTypes, Fits, BodyFits, FlagsFit, TicketFits,
       Counts, RunsInference, Undecided
  <2> QED BY <2>1, <2>2, <1>3, ThreadStep
<1>10. CASE CloseUpstream(t)
  <2>1. HandlerTypes' /\ \A u \in Tickets \ {t} : Still(u)
    BY <1>1, <1>10 DEF CloseUpstream, Goto, HandlerTypes, Places, Still
  <2>2. Fits(t)' /\ Counts(t)
    BY <1>1, <1>4, <1>10 DEF CloseUpstream, Goto, HandlerTypes, Fits, BodyFits, FlagsFit,
       TicketFits, Counts, RunsInference, Undecided
  <2> QED BY <2>1, <2>2, <1>3, ThreadStep
<1>11. CASE EndInference(t)
  <2>1. HandlerTypes' /\ \A u \in Tickets \ {t} : Still(u)
    BY <1>1, <1>11 DEF EndInference, Goto, HandlerTypes, Places, Still
  <2>2. inferences' = inferences - 1
    BY <1>1, <1>11 DEF EndInference, RunsInference, HandlerTypes
  <2>3. queue.status[t] = "admitted"
    BY <1>1, <1>11 DEF EndInference, RunsInference, Fits, TicketFits, Holders
  <2>4. Fits(t)' /\ Counts(t)
    BY <1>1, <1>4, <1>11, <2>2, <2>3 DEF EndInference, Goto, HandlerTypes, Fits, BodyFits,
       FlagsFit, TicketFits, Counts, RunsInference, Undecided
  <2> QED BY <2>1, <2>4, <1>3, ThreadStep
<1>12. CASE CloseAgain(t)
  <2>1. HandlerTypes' /\ \A u \in Tickets \ {t} : Still(u)
    BY <1>1, <1>12 DEF CloseAgain, Goto, HandlerTypes, Places, Still
  <2>2. Fits(t)' /\ Counts(t)
    BY <1>1, <1>4, <1>12 DEF CloseAgain, Goto, HandlerTypes, Fits, BodyFits, FlagsFit,
       TicketFits, Counts, RunsInference, Undecided
  <2> QED BY <2>1, <2>2, <1>3, ThreadStep
<1> QED BY <1>5, <1>6, <1>7, <1>8, <1>9, <1>10, <1>11, <1>12

(***************************************************************************)
(* The steps of the handler that call the queue.                           *)
(***************************************************************************)
LEMMA ArriveStep ==
    ASSUME Inductive, NEW t \in Tickets, Arrive(t)
    PROVE  Inductive'
<1>1. QueueInvariant /\ HandlerTypes /\ Fits(t) /\ RequestSlot(t)
  BY DEF Inductive, Fits, Arrive
<1>2. QueueInvariant'
  BY <1>1, RequestSlotStep
<1>3. /\ \A u \in Tickets \ {t} : Untouched(u)
      /\ queue'.released[t] = queue.released[t]
  BY <1>1, RequestSlotOutcome
<1>4. HandlerTypes' /\ \A u \in Tickets \ {t} : Still(u)
  BY <1>1 DEF Arrive, Goto, HandlerTypes, Places, Still
<1>5. Fits(t)' /\ Counts(t)
  BY <1>1, <1>3 DEF Arrive, Goto, HandlerTypes, Fits, BodyFits, FlagsFit, TicketFits,
     Counts, RunsInference, Undecided
<1> QED BY <1>2, <1>3, <1>4, <1>5, ThreadStep

\* A pass of wait() ends parked, or with a decision if it had no poll interval.
LEMMA PassOutcome ==
    ASSUME QueueInvariant, NEW t \in Tickets, NEW until \in Nat \cup {Forever},
           Park(t, until) \/ Return(t, until)
    PROVE  /\ QueueInvariant'
           /\ \A u \in Tickets \ {t} : Untouched(u)
           /\ queue'.released[t] = queue.released[t]
           /\ call'[t].parked => call'[t].until = until
           /\ ~call'[t].parked /\ until = Forever => queue'.status[t] # "waiting"
<1>1. CASE Park(t, until)
  BY <1>1, ParkStep, ParkOutcome
<1>2. CASE Return(t, until)
  BY <1>2, ReturnStep, ReturnOutcome
<1> QED BY <1>1, <1>2

LEMMA Verdicts ==
    ASSUME NEW t, NEW status
    PROVE  /\ AfterFirstWait(t, status) =
                IF status = "admitted" THEN "begin"
                ELSE IF status = "waiting" /\ t \in Streaming THEN "yielding" ELSE "done"
           /\ AfterPoll(status) =
                IF status = "admitted" THEN "begin"
                ELSE IF status = "waiting" THEN "yielding" ELSE "erring"
BY DEF AfterFirstWait, AfterPoll

\* The handler's only wait(), when it starts and whenever it wakes up.
LEMMA FirstWaitStep ==
    ASSUME Inductive, NEW t \in Tickets, pc[t] \in {"asked", "asking"},
           NEW until \in Nat \cup {Forever}, t \notin Streaming => until = Forever,
           Park(t, until) \/ Return(t, until),
           Waited(t, "asking", AfterFirstWait(t, queue'.status[t])),
           UNCHANGED <<started, upstream, closed, inferences>>
    PROVE  Inductive'
<1>1. QueueInvariant /\ HandlerTypes /\ Fits(t)
  BY DEF Inductive, Fits
<1>2. /\ QueueInvariant'
      /\ \A u \in Tickets \ {t} : Untouched(u)
      /\ queue'.released[t] = queue.released[t]
      /\ call'[t].parked => call'[t].until = until
      /\ ~call'[t].parked /\ until = Forever => queue'.status[t] # "waiting"
  BY <1>1, PassOutcome
<1> DEFINE place == AfterFirstWait(t, queue'.status[t])
<1>3. place = IF queue'.status[t] = "admitted" THEN "begin"
              ELSE IF queue'.status[t] = "waiting" /\ t \in Streaming THEN "yielding" ELSE "done"
  BY Verdicts
<1> HIDE DEF place
<1>4. \/ call'[t].parked /\ Goto(t, "asking") /\ body' = body
      \/ /\ ~call'[t].parked /\ Goto(t, place)
         /\ body' = [body EXCEPT ![t] = IF place = "yielding" THEN "queued" ELSE @]
  BY DEF Waited, place
<1>5. /\ started' = started /\ upstream' = upstream /\ closed' = closed
      /\ inferences' = inferences
  OBVIOUS
<1>6. HandlerTypes' /\ \A u \in Tickets \ {t} : Still(u)
  BY <1>1, <1>3, <1>4, <1>5 DEF Goto, HandlerTypes, Places, Still
<1>7. ~queue.released[t] /\ body[t] = "none" /\ ~started[t] /\ ~upstream[t] /\ ~RunsInference(t)
  BY <1>1 DEF Fits, BodyFits, FlagsFit, TicketFits, Undecided, RunsInference
<1>8. CASE call'[t].parked
  <2>1. pc'[t] = "asking" /\ body'[t] = "none"
    BY <1>1, <1>4, <1>7, <1>8 DEF Goto, HandlerTypes
  <2>2. Fits(t)' /\ Counts(t)
    BY <2>1, <1>2, <1>5, <1>7, <1>8 DEF Fits, BodyFits, FlagsFit, TicketFits, Counts,
       RunsInference, Undecided
  <2> QED BY <2>2, <1>2, <1>6, ThreadStep
<1>9. CASE ~call'[t].parked
  <2>1. /\ pc'[t] = place
        /\ body'[t] = IF place = "yielding" THEN "queued" ELSE "none"
    BY <1>1, <1>4, <1>7, <1>9 DEF Goto, HandlerTypes
  <2>2. place = "begin" => t \in Holders(queue)'
    BY <1>2, <1>3, <1>7 DEF Holders
  <2>3. place = "done" => t \notin Holders(queue)' /\ queue'.status[t] # "waiting"
    BY <1>2, <1>3, <1>9 DEF Holders
  <2>4. Fits(t)' /\ Counts(t)
    BY <2>1, <2>2, <2>3, <1>2, <1>3, <1>5, <1>7 DEF Fits, BodyFits, FlagsFit, TicketFits,
       Counts, RunsInference, Undecided
  <2> QED BY <2>4, <1>2, <1>6, ThreadStep
<1> QED BY <1>8, <1>9

\* A poll of a queued body.
LEMMA PollStep ==
    ASSUME Inductive, NEW t \in Tickets, pc[t] \in {"yielding", "polling"},
           NEW until \in Nat \cup {Forever},
           Park(t, until) \/ Return(t, until),
           Waited(t, "polling", AfterPoll(queue'.status[t])),
           UNCHANGED <<started, upstream, closed, inferences>>
    PROVE  Inductive'
<1>1. QueueInvariant /\ HandlerTypes /\ Fits(t)
  BY DEF Inductive, Fits
<1>2. /\ QueueInvariant'
      /\ \A u \in Tickets \ {t} : Untouched(u)
      /\ queue'.released[t] = queue.released[t]
  BY <1>1, PassOutcome
<1> DEFINE place == AfterPoll(queue'.status[t])
<1>3. place = IF queue'.status[t] = "admitted" THEN "begin"
              ELSE IF queue'.status[t] = "waiting" THEN "yielding" ELSE "erring"
  BY Verdicts
<1> HIDE DEF place
<1>4. \/ Goto(t, "polling") /\ body' = body
      \/ /\ Goto(t, place)
         /\ body' = [body EXCEPT ![t] = IF place = "yielding" THEN "queued" ELSE @]
  BY DEF Waited, place
<1>5. /\ started' = started /\ upstream' = upstream /\ closed' = closed
      /\ inferences' = inferences
  OBVIOUS
<1>6. HandlerTypes' /\ \A u \in Tickets \ {t} : Still(u)
  BY <1>1, <1>3, <1>4, <1>5 DEF Goto, HandlerTypes, Places, Still
<1>7. ~queue.released[t] /\ body[t] = "queued" /\ ~started[t] /\ ~upstream[t]
      /\ ~RunsInference(t) /\ t \in Streaming
  BY <1>1 DEF Fits, BodyFits, FlagsFit, TicketFits, Undecided, RunsInference
<1>8. (pc'[t] = "polling" \/ pc'[t] = place) /\ body'[t] = "queued"
  BY <1>1, <1>4, <1>7 DEF Goto, HandlerTypes
<1>9. place = "begin" => t \in Holders(queue)'
  BY <1>2, <1>3, <1>7 DEF Holders
<1>10. Fits(t)' /\ Counts(t)
  BY <1>2, <1>3, <1>5, <1>7, <1>8, <1>9 DEF Fits, BodyFits, FlagsFit, TicketFits, Counts,
     RunsInference, Undecided
<1> QED BY <1>2, <1>6, <1>10, ThreadStep

LEMMA WaitStep ==
    ASSUME Inductive, NEW t \in Tickets, Ask(t) \/ Poll(t) \/ Wake(t)
    PROVE  Inductive'
<1>1. QueueInvariant /\ Fits(t)
  BY DEF Inductive, Fits
<1>2. clock \in Nat /\ Heartbeat \in Nat /\ Forever \notin Nat
  BY <1>1, QueueParts, StreamingAssumption DEF Forever
<1>3. CASE Ask(t)
  <2> DEFINE until == IF t \in Streaming THEN clock + 0 ELSE Forever
  <2>1. Park(t, until) \/ Return(t, until)
    BY <1>2, <1>3 DEF Ask, Wait, Forever
  <2>2. until \in Nat \cup {Forever} /\ (t \notin Streaming => until = Forever)
    BY <1>2
  <2> HIDE DEF until
  <2> QED BY <2>1, <2>2, <1>3, FirstWaitStep DEF Ask
<1>4. CASE Poll(t)
  <2> DEFINE until == clock + Heartbeat
  <2>1. Park(t, until) \/ Return(t, until)
    BY <1>2, <1>4 DEF Poll, Wait
  <2>2. until \in Nat \cup {Forever}
    BY <1>2
  <2> HIDE DEF until
  <2> QED BY <2>1, <2>2, <1>4, PollStep DEF Poll
<1>5. CASE Wake(t)
  <2>1. call[t].until \in Nat \cup {Forever}
    BY <1>1, QueueParts DEF CallType
  <2>2. Park(t, call[t].until) \/ Return(t, call[t].until)
    BY <1>5 DEF Wake, Resume
  <2>3. CASE pc[t] = "asking"
    <3>1. t \notin Streaming => call[t].until = Forever
      BY <2>3, <1>1 DEF Fits, TicketFits
    <3> QED BY <2>1, <2>2, <2>3, <3>1, <1>5, FirstWaitStep DEF Wake
  <2>4. CASE pc[t] = "polling"
    BY <2>1, <2>2, <2>4, <1>5, PollStep DEF Wake
  <2> QED BY <2>3, <2>4, <1>5 DEF Wake
<1> QED BY <1>3, <1>4, <1>5

LEMMA BeginFailsStep ==
    ASSUME Inductive, NEW t \in Tickets, BeginFails(t)
    PROVE  Inductive'
<1>1. QueueInvariant /\ HandlerTypes /\ Fits(t) /\ Release(t)
  BY DEF Inductive, Fits, BeginFails
<1>2. QueueInvariant'
  BY <1>1, ReleaseStep
<1>3. /\ \A u \in Tickets \ {t} : Untouched(u)
      /\ queue'.status[t] = "admitted" /\ queue'.released[t]
  BY <1>1, ReleaseOutcome
<1>4. HandlerTypes' /\ \A u \in Tickets \ {t} : Still(u)
  BY <1>1 DEF BeginFails, Goto, HandlerTypes, Places, Still
<1>5. t \notin Holders(queue)'
  BY <1>3 DEF Holders
<1>6. Fits(t)' /\ Counts(t)
  BY <1>1, <1>3, <1>5 DEF BeginFails, Goto, HandlerTypes, Fits, BodyFits, FlagsFit,
     TicketFits, Counts, RunsInference, Undecided
<1> QED BY <1>2, <1>3, <1>4, <1>6, ThreadStep

LEMMA CancelTicketStep ==
    ASSUME Inductive, NEW t \in Tickets, CancelTicket(t)
    PROVE  Inductive'
<1>1. QueueInvariant /\ HandlerTypes /\ Fits(t)
  BY DEF Inductive, Fits
<1>2. /\ QueueInvariant' /\ queue'.status[t] # "waiting"
      /\ \A u \in Tickets \ {t} : Untouched(u)
  <2>1. CASE queue.status[t] = "waiting"
    BY <2>1, <1>1, CancelStep, CancelOutcome DEF CancelTicket
  <2>2. CASE queue.status[t] # "waiting"
    <3>1. UNCHANGED queueVars
      BY <2>2 DEF CancelTicket
    <3> QED BY <2>2, <3>1, <1>1, QueueUntouched DEF queueVars
  <2> QED BY <2>1, <2>2
<1>3. HandlerTypes' /\ \A u \in Tickets \ {t} : Still(u)
  BY <1>1 DEF CancelTicket, Goto, HandlerTypes, Places, Still
<1>4. Fits(t)' /\ Counts(t)
  BY <1>1, <1>2 DEF CancelTicket, Goto, HandlerTypes, Fits, BodyFits, FlagsFit, TicketFits,
     Counts, RunsInference, Undecided
<1> QED BY <1>2, <1>3, <1>4, ThreadStep

LEMMA ReleaseTicketStep ==
    ASSUME Inductive, NEW t \in Tickets, ReleaseTicket(t)
    PROVE  Inductive'
<1>1. QueueInvariant /\ HandlerTypes /\ Fits(t) /\ queue.status[t] # "waiting"
  BY DEF Inductive, Fits, TicketFits, ReleaseTicket
<1>2. /\ QueueInvariant' /\ queue'.status[t] # "waiting" /\ t \notin Holders(queue)'
      /\ \A u \in Tickets \ {t} : Untouched(u)
  <2>1. CASE t \in Holders(queue)
    BY <2>1, <1>1, ReleaseStep, ReleaseOutcome DEF ReleaseTicket, Holders
  <2>2. CASE t \notin Holders(queue)
    <3>1. UNCHANGED queueVars
      BY <2>2 DEF ReleaseTicket
    <3> QED BY <2>2, <3>1, <1>1, QueueUntouched DEF queueVars, Holders
  <2> QED BY <2>1, <2>2
<1>3. HandlerTypes' /\ \A u \in Tickets \ {t} : Still(u)
  BY <1>1 DEF ReleaseTicket, Goto, HandlerTypes, Places, Still
<1>4. Fits(t)' /\ Counts(t)
  BY <1>1, <1>2 DEF ReleaseTicket, Goto, HandlerTypes, Fits, BodyFits, FlagsFit, TicketFits,
     Counts, RunsInference, Undecided
<1> QED BY <1>2, <1>3, <1>4, ThreadStep

LEMMA SurroundingsStep ==
    ASSUME Inductive, (Tick \/ Snapshot \/ UNCHANGED queueVars) /\ UNCHANGED handlerVars
    PROVE  Inductive'
<1>1. QueueInvariant /\ HandlerTypes /\ \A u \in Tickets : Fits(u)
  BY DEF Inductive, Fits
<1>2. QueueInvariant' /\ \A u \in Tickets : Untouched(u)
  <2>1. CASE Tick
    <3>1. queue' = queue /\ call' = call
      BY <2>1 DEF Tick
    <3> QED BY <2>1, <3>1, <1>1, TickStep DEF Untouched
  <2>2. CASE Snapshot
    <3>1. queue' = Advance(queue, clock) /\ call' = AfterAdvance(call, queue, clock)
      BY <2>2 DEF Snapshot
    <3>2. \A u \in Tickets : Untouched(u)
      BY <3>1, <1>1, QueueParts, AdvanceKeeps, NotifyKeepsUntil DEF Untouched
    <3> QED BY <2>2, <3>2, <1>1, SnapshotStep
  <2>3. CASE UNCHANGED queueVars
    BY <2>3, <1>1, QueueUntouched
  <2> QED BY <2>1, <2>2, <2>3
<1>3. /\ pc' = pc /\ body' = body /\ started' = started /\ upstream' = upstream
      /\ closed' = closed /\ inferences' = inferences
  BY DEF handlerVars
<1>4. HandlerTypes' /\ \A u \in Tickets : Still(u)
  BY <1>1, <1>3 DEF HandlerTypes, Still
<1>5. \A u \in Tickets : Fits(u)' /\ (RunsInference(u)' <=> RunsInference(u))
  BY <1>1, <1>2, <1>4, OthersStillFit
<1>6. Running' = Running
  BY <1>5 DEF Running
<1>7. \A u \in Tickets : (BodyFits(u) /\ FlagsFit(u) /\ TicketFits(u))'
  BY <1>5 DEF Fits
<1> QED BY <1>2, <1>3, <1>4, <1>6, <1>7 DEF Inductive

LEMMA InitInductive == GenerateInit => Inductive
<1> SUFFICES ASSUME GenerateInit PROVE Inductive
  OBVIOUS
<1>1. QueueInvariant
  BY InitQueueInvariant DEF GenerateInit
<1>2. HandlerTypes
  BY DEF GenerateInit, HandlerTypes, Places
<1>3. \A t \in Tickets : ~queue.released[t]
  BY DEF GenerateInit, Init, EmptyQueue
<1>4. ASSUME NEW t \in Tickets
      PROVE  /\ BodyFits(t) /\ FlagsFit(t) /\ TicketFits(t)
             /\ ~RunsInference(t)
  BY <1>3 DEF GenerateInit, BodyFits, FlagsFit, TicketFits, Undecided, RunsInference
<1>5. inferences = Cardinality(Running)
  <2>1. Running = {}
    BY <1>4 DEF Running
  <2> QED BY <2>1, FS_EmptySet DEF GenerateInit
<1> QED BY <1>1, <1>2, <1>4, <1>5 DEF Inductive

LEMMA NextInductive == Inductive /\ [GenerateNext]_allVars => Inductive'
<1> SUFFICES ASSUME Inductive, [GenerateNext]_allVars PROVE Inductive'
  OBVIOUS
<1>1. ASSUME NEW t \in Tickets, Arrive(t) PROVE Inductive'
  BY <1>1, ArriveStep
<1>2. ASSUME NEW t \in Tickets, Thread(t) PROVE Inductive'
  BY <1>2, WaitStep, BeginFailsStep, HandlerStep, CancelTicketStep, ReleaseTicketStep
     DEF Thread
<1>3. CASE Surroundings \/ UNCHANGED allVars
  BY <1>3, SurroundingsStep DEF Surroundings, allVars, queueVars, handlerVars
<1> QED BY <1>1, <1>2, <1>3 DEF GenerateNext

LEMMA GenerateInductive == GenerateSpec => []Inductive
<1> QED BY InitInductive, NextInductive, PTL DEF GenerateSpec

(* A subset of the requests that hold slots is no larger than the limit.   *)
LEMMA WithinSlots ==
    ASSUME QueueInvariant, NEW S \in SUBSET Holders(queue)
    PROVE  Cardinality(S) \in 0..MaxActive
<1>1. Holders(queue) \in SUBSET Tickets
  BY DEF Holders
<1>2. IsFiniteSet(Holders(queue)) /\ IsFiniteSet(S)
  BY <1>1, TicketsAssumption, FS_Subset
<1>3. Cardinality(S) <= Cardinality(Holders(queue)) /\ Cardinality(S) \in Nat
      /\ Cardinality(Holders(queue)) \in Nat
  BY <1>2, FS_Subset, FS_CardinalityType
<1>4. Cardinality(Holders(queue)) <= MaxActive
  BY DEF QueueInvariant, SlotInvariant, SlotsAccounted
<1> QED BY <1>3, <1>4, LimitsAssumption

(* The handler keeps the queue's invariant, its own types and the count of *)
(* running inferences: runtime_state's clamp at zero hides no second end,  *)
(* and /health never reports more inferences than there are slots.         *)
THEOREM GenerateCorrect == GenerateSpec => []GenerateInvariant
<1>1. Inductive => GenerateInvariant
  <2> SUFFICES ASSUME Inductive PROVE GenerateInvariant
    OBVIOUS
  <2>1. Running \in SUBSET Holders(queue)
    BY DEF Inductive, Running, TicketFits
  <2>2. inferences \in 0..MaxActive
    BY <2>1, WithinSlots DEF Inductive
  <2>3. GenerateTypeOK
    BY <2>2 DEF Inductive, HandlerTypes, GenerateTypeOK
  <2>4. InferencesCounted
    BY <2>1 DEF Inductive, Running, InferencesCounted
  <2> QED BY <2>3, <2>4 DEF Inductive, GenerateInvariant
<1> QED BY <1>1, GenerateInductive, PTL

(* Every open Ollama call belongs to a request that holds a slot, so there *)
(* are never more of them than max_active_requests, whichever of the       *)
(* handler, the two bodies and the server's close() ends the request.      *)
THEOREM OllamaNeverOverloaded == GenerateSpec => []OllamaWithinCapacity
<1>1. Inductive => OllamaWithinCapacity
  <2> SUFFICES ASSUME Inductive PROVE OllamaWithinCapacity
    OBVIOUS
  <2>1. \A t \in Tickets : upstream[t] => t \in Holders(queue)
    BY DEF Inductive, FlagsFit, TicketFits
  <2>2. {t \in Tickets : upstream[t]} \in SUBSET Holders(queue)
    BY <2>1
  <2>3. Cardinality({t \in Tickets : upstream[t]}) \in 0..MaxActive
    BY <2>2, WithinSlots DEF Inductive
  <2> QED BY <2>1, <2>3, LimitsAssumption DEF OllamaWithinCapacity
<1> QED BY <1>1, GenerateInductive, PTL

(* A request that is over, by whatever path, has given its slot back and   *)
(* left the line.                                                          *)
THEOREM SlotsComeBack == GenerateSpec => []NothingLeaks
<1>1. Inductive => NothingLeaks
  BY DEF Inductive, TicketFits, NothingLeaks
<1> QED BY <1>1, GenerateInductive, PTL

=============================================================================
