-------------------------- MODULE RateLimiterProofs --------------------------
(***************************************************************************)
(* Proofs about RateLimiter, for every value of its constants.             *)
(***************************************************************************)
EXTENDS RateLimiter, FiniteSetTheorems, TLAPS

-----------------------------------------------------------------------------
(* A reading of the clock lies in its window.                              *)
LEMMA WindowBounds ==
    ASSUME NEW t \in Nat
    PROVE  /\ Window(t) \in Nat
           /\ t < (Window(t) + 1) * Width
           /\ Window(t) * Width <= t
BY TimeAssumption DEF Window

LEMMA WindowInRange ==
    ASSUME NEW t \in 0..Horizon
    PROVE  Window(t) \in Windows
<1>1. Window(t) \in Nat /\ Window(Horizon) \in Nat /\ t \in Nat /\ t <= Horizon
  BY WindowBounds, TimeAssumption
<1>2. Window(t) <= Window(Horizon)
  <2>1. Window(t) * Width < (Window(Horizon) + 1) * Width
    BY <1>1, WindowBounds, TimeAssumption
  <2> QED BY <1>1, <2>1, TimeAssumption
<1> QED BY <1>1, <1>2 DEF Windows

(* The counter of a reading outlasts it by more than Retention.            *)
LEMMA ExpiresLater ==
    ASSUME NEW t \in Nat
    PROVE  t + Retention < Expires(Window(t))
BY WindowBounds, TimeAssumption DEF Expires

LEMMA CountedFinite ==
    ASSUME TypeOK, NEW w, NEW n
    PROVE  /\ IsFiniteSet(Counted(w)) /\ Cardinality(Counted(w)) \in Nat
           /\ IsFiniteSet(CountedUnder(w, n))
           /\ Cardinality(CountedUnder(w, n)) \in Nat
           /\ Cardinality(CountedUnder(w, n)) <= Cardinality(Counted(w))
<1>1. IsFiniteSet(counted)
  BY RequestsAssumption, FS_Subset DEF TypeOK
<1>2. Counted(w) \subseteq counted /\ CountedUnder(w, n) \subseteq Counted(w)
  BY DEF Counted, CountedUnder
<1>3. IsFiniteSet(Counted(w))
  BY <1>1, <1>2, FS_Subset
<1> QED BY <1>2, <1>3, FS_Subset, FS_CardinalityType

(* What is counted stays when no counted request reads the clock again.    *)
LEMMA CountedUnchanged ==
    ASSUME counted' = counted, \A r \in counted : now'[r] = now[r], NEW w, NEW n
    PROVE  Counted(w)' = Counted(w) /\ CountedUnder(w, n)' = CountedUnder(w, n)
<1>1. Counted(w)' = Counted(w)
  BY DEF Counted, WindowOf
<1> QED BY <1>1 DEF CountedUnder

-----------------------------------------------------------------------------
LEMMA InitLimiterInvariant == Init => LimiterInvariant
<1> SUFFICES ASSUME Init PROVE LimiterInvariant
  OBVIOUS
<1> USE DEF Init
<1>1. TypeOK
  BY TimeAssumption DEF TypeOK, NoBucket, Never, Busy
<1>2. \A w, n : Counted(w) = {} /\ CountedUnder(w, n) = {}
  BY DEF Counted, CountedUnder
<1>3. RecentCalls /\ AnsweredWhenDone /\ CountedByUpdate /\ UpdatesRemembered /\ SweepsInOrder
  BY DEF RecentCalls, AnsweredWhenDone, CountedByUpdate, UpdatesRemembered, SweepsInOrder, Busy
<1>4. CountersAgree /\ CounterOutlivesCall /\ RefusedOnlyWhenFull
  BY <1>2 DEF CountersAgree, CounterOutlivesCall, RefusedOnlyWhenFull
<1>5. WithinLimit
  BY <1>2, FS_EmptySet, RequestsAssumption DEF WithinLimit
<1> QED BY <1>1, <1>3, <1>4, <1>5 DEF LimiterInvariant

(* The clock readings of unfinished calls are those of live counters.      *)
LEMMA CallsInTime ==
    ASSUME LimiterInvariant, NEW r \in Requests, pc[r] \in Busy
    PROVE  /\ WindowOf(r) \in Windows
           /\ clock < Expires(WindowOf(r))
<1>1. now[r] \in 0..Horizon /\ clock <= now[r] + Patience /\ clock \in Nat
  BY TimeAssumption DEF LimiterInvariant, TypeOK, RecentCalls
<1>2. now[r] + Retention < Expires(WindowOf(r)) /\ WindowOf(r) \in Windows
  BY <1>1, ExpiresLater, WindowInRange, TimeAssumption DEF WindowOf
<1>3. Expires(WindowOf(r)) \in Nat
  BY <1>1, WindowBounds, TimeAssumption DEF WindowOf, Expires
<1> QED BY <1>1, <1>2, <1>3, PatienceAssumption, TimeAssumption

-----------------------------------------------------------------------------
LEMMA StartStep ==
    ASSUME LimiterInvariant, NEW r \in Requests, Start(r)
    PROVE  LimiterInvariant'
<1> USE DEF LimiterInvariant
<1>1. /\ pc[r] = "new" /\ now' = [now EXCEPT ![r] = clock]
      /\ pc' = [pc EXCEPT ![r] = "cleanup"]
      /\ UNCHANGED <<clock, counter, modified, answer, nextAt, counted, cleanedAt>>
  BY DEF Start, Goto
<1>2. \A q \in counted : q # r /\ q \in Requests
  BY <1>1 DEF CountedByUpdate, TypeOK
<1>3. TypeOK'
  BY <1>1 DEF TypeOK, Busy
<1>4. \A w, n : Counted(w)' = Counted(w) /\ CountedUnder(w, n)' = CountedUnder(w, n)
  BY <1>1, <1>2, CountedUnchanged DEF TypeOK
<1>5. \A q \in Requests : q # r => now'[q] = now[q] /\ pc'[q] = pc[q] /\ WindowOf(q)' = WindowOf(q)
  BY <1>1 DEF TypeOK, WindowOf
<1>6. now'[r] = clock /\ pc'[r] = "cleanup"
  BY <1>1 DEF TypeOK
<1>7. RecentCalls' /\ AnsweredWhenDone' /\ CountedByUpdate' /\ CounterOutlivesCall' /\ SweepsInOrder'
  BY <1>1, <1>2, <1>5, <1>6, TimeAssumption
     DEF RecentCalls, AnsweredWhenDone, CountedByUpdate, CounterOutlivesCall, SweepsInOrder, TypeOK
<1>8. CountersAgree'
  BY <1>1, <1>4 DEF CountersAgree
<1>9. UpdatesRemembered'
  BY <1>1, <1>4, <1>5, <1>6 DEF UpdatesRemembered
<1>10. RefusedOnlyWhenFull'
  BY <1>1, <1>4, <1>5 DEF RefusedOnlyWhenFull, AnsweredWhenDone
<1>11. WithinLimit'
  BY <1>1, <1>4 DEF WithinLimit
<1> QED BY <1>3, <1>7, <1>8, <1>9, <1>10, <1>11

LEMMA LookStep ==
    ASSUME LimiterInvariant, NEW r \in Requests, Look(r)
    PROVE  LimiterInvariant'
<1> USE DEF LimiterInvariant
<1>1. /\ pc[r] = "cleanup" /\ \E place \in {"locked", "insert"} : pc' = [pc EXCEPT ![r] = place]
      /\ UNCHANGED <<clock, counter, now, modified, answer, nextAt, counted, cleanedAt>>
  BY DEF Look, Goto
<1>2. TypeOK'
  BY <1>1 DEF TypeOK, Busy
<1>3. \A w, n : Counted(w)' = Counted(w) /\ CountedUnder(w, n)' = CountedUnder(w, n)
  BY <1>1, CountedUnchanged
<1>4. \A q \in Requests : WindowOf(q)' = WindowOf(q)
  BY <1>1 DEF WindowOf
<1>5. \A q \in Requests : q # r => pc'[q] = pc[q]
  BY <1>1 DEF TypeOK
<1>6. pc'[r] \in {"locked", "insert"}
  BY <1>1 DEF TypeOK
<1>7. RecentCalls' /\ AnsweredWhenDone' /\ CountedByUpdate' /\ CounterOutlivesCall' /\ SweepsInOrder'
  BY <1>1, <1>4, <1>5, <1>6
     DEF RecentCalls, AnsweredWhenDone, CountedByUpdate, CounterOutlivesCall, SweepsInOrder, TypeOK, Busy
<1>8. CountersAgree' /\ UpdatesRemembered' /\ RefusedOnlyWhenFull' /\ WithinLimit'
  BY <1>1, <1>3, <1>4, <1>5, <1>6
     DEF CountersAgree, UpdatesRemembered, RefusedOnlyWhenFull, WithinLimit
<1> QED BY <1>2, <1>7, <1>8

LEMMA LockStep ==
    ASSUME LimiterInvariant, NEW r \in Requests, Lock(r)
    PROVE  LimiterInvariant'
<1> USE DEF LimiterInvariant
<1> DEFINE p == WorkerOf[r]
<1>1. /\ pc[r] = "locked" /\ LockFree(p)
      /\ UNCHANGED <<clock, counter, now, modified, answer, counted, cleanedAt>>
      /\ \/ DueFor(r) /\ nextAt' = [nextAt EXCEPT ![p] = now[r] + Interval] /\ pc' = [pc EXCEPT ![r] = "delete"]
         \/ nextAt' = nextAt /\ pc' = [pc EXCEPT ![r] = "insert"]
  BY DEF Lock, Goto
<1>2. p \in Workers /\ \A q \in Requests : WorkerOf[q] \in Workers
  BY RequestsAssumption
<1>3. \A q \in Requests : now[q] \in Nat
  BY TimeAssumption DEF TypeOK
<1>4. TypeOK'
  BY <1>1, <1>2, <1>3, TimeAssumption DEF TypeOK, Busy
<1>5. \A w, n : Counted(w)' = Counted(w) /\ CountedUnder(w, n)' = CountedUnder(w, n)
  BY <1>1, CountedUnchanged
<1>6. \A q \in Requests : WindowOf(q)' = WindowOf(q)
  BY <1>1 DEF WindowOf
<1>7. \A q \in Requests : q # r => pc'[q] = pc[q]
  BY <1>1 DEF TypeOK
<1>8. pc'[r] \in {"delete", "insert"}
  BY <1>1 DEF TypeOK
<1>9. RecentCalls' /\ AnsweredWhenDone' /\ CountedByUpdate' /\ CounterOutlivesCall'
  BY <1>1, <1>6, <1>7, <1>8
     DEF RecentCalls, AnsweredWhenDone, CountedByUpdate, CounterOutlivesCall, TypeOK, Busy
<1>10. CountersAgree' /\ UpdatesRemembered' /\ RefusedOnlyWhenFull' /\ WithinLimit'
  BY <1>1, <1>5, <1>6, <1>7, <1>8
     DEF CountersAgree, UpdatesRemembered, RefusedOnlyWhenFull, WithinLimit
<1>11. SweepsInOrder'
  <2>1. CASE nextAt' = nextAt /\ pc' = [pc EXCEPT ![r] = "insert"]
    BY <1>1, <1>7, <2>1 DEF SweepsInOrder, TypeOK
  <2>2. CASE DueFor(r) /\ nextAt' = [nextAt EXCEPT ![p] = now[r] + Interval] /\ pc' = [pc EXCEPT ![r] = "delete"]
    <3>1. cleanedAt[p] # Never => cleanedAt[p] + Interval <= now[r]
      BY <1>2, <1>3, <2>2, TimeAssumption DEF SweepsInOrder, DueFor, TypeOK, Never
    <3>2. nextAt[p] <= nextAt'[p] /\ nextAt'[p] = now[r] + Interval
      BY <1>2, <1>3, <2>2, TimeAssumption DEF DueFor, TypeOK
    <3>3. \A o \in Workers : o # p => nextAt'[o] = nextAt[o]
      BY <2>2 DEF TypeOK
    <3>4. \A o \in Workers : cleanedAt'[o] # Never => cleanedAt'[o] + Interval <= nextAt'[o]
      BY <1>1, <1>3, <3>1, <3>2, <3>3, TimeAssumption DEF SweepsInOrder, TypeOK, Never
    <3>5. \A q \in Requests : q # r /\ pc'[q] = "delete" => WorkerOf[q] # p /\ pc[q] = "delete"
      BY <1>1, <1>7 DEF LockFree
    <3>6. ASSUME NEW q \in Requests, pc'[q] = "delete"
          PROVE  /\ nextAt'[WorkerOf[q]] = now'[q] + Interval
                 /\ cleanedAt'[WorkerOf[q]] # Never => cleanedAt'[WorkerOf[q]] + Interval <= now'[q]
                 /\ \A o \in Requests : pc'[o] = "delete" /\ WorkerOf[o] = WorkerOf[q] => o = q
      BY <1>1, <1>2, <3>1, <3>2, <3>3, <3>5, <3>6 DEF SweepsInOrder
    <3> QED BY <3>4, <3>6 DEF SweepsInOrder
  <2> QED BY <1>1, <2>1, <2>2
<1> QED BY <1>4, <1>9, <1>10, <1>11

(* Counters that go when they have expired leave the invariant alone, for  *)
(* no unfinished call works on them.                                       *)
LEMMA SweptCounters ==
    ASSUME LimiterInvariant,
           UNCHANGED <<clock, now, modified, answer, counted>>,
           counter' \in [Windows -> Nat \cup {NoBucket}],
           \A w \in Windows : counter'[w] = counter[w]
                              \/ (counter'[w] = NoBucket /\ Expires(w) < clock),
           \A q \in Requests : pc'[q] \in {"update", "find", "done"} => pc'[q] = pc[q]
    PROVE  CountersAgree' /\ CounterOutlivesCall' /\ UpdatesRemembered' /\ RefusedOnlyWhenFull' /\ WithinLimit'
<1> USE DEF LimiterInvariant
<1>1. \A w, n : Counted(w)' = Counted(w) /\ CountedUnder(w, n)' = CountedUnder(w, n)
  BY CountedUnchanged
<1>2. \A q \in Requests : WindowOf(q)' = WindowOf(q)
  BY DEF WindowOf
<1>3. CountersAgree'
  BY <1>1 DEF CountersAgree
<1>4. CounterOutlivesCall'
  <2> SUFFICES ASSUME NEW q \in Requests, pc'[q] \in {"update", "find"}
               PROVE  counter'[WindowOf(q)] # NoBucket
    BY <1>2 DEF CounterOutlivesCall
  <2>1. pc[q] \in Busy /\ counter[WindowOf(q)] # NoBucket
    BY DEF CounterOutlivesCall, Busy
  <2>2. WindowOf(q) \in Windows /\ clock < Expires(WindowOf(q))
    BY <2>1, CallsInTime
  <2>3. clock \in Nat /\ Expires(WindowOf(q)) \in Nat
    BY <2>2, TimeAssumption, WindowBounds DEF TypeOK, WindowOf, Expires
  <2> QED BY <2>1, <2>2, <2>3
<1>5. UpdatesRemembered' /\ RefusedOnlyWhenFull' /\ WithinLimit'
  BY <1>1, <1>2 DEF UpdatesRemembered, RefusedOnlyWhenFull, WithinLimit
<1> QED BY <1>3, <1>4, <1>5

LEMMA ExpiresNat == ASSUME NEW w \in Windows PROVE Expires(w) \in Nat
<1>1. w \in Nat
  BY TimeAssumption, WindowBounds DEF Windows
<1>2. (w + 1) * Width \in Nat
  BY <1>1, TimeAssumption
<1> QED BY <1>2, TimeAssumption DEF Expires

LEMMA DeleteStep ==
    ASSUME LimiterInvariant, NEW r \in Requests, Delete(r)
    PROVE  LimiterInvariant'
<1> USE DEF LimiterInvariant
<1> DEFINE p == WorkerOf[r]
<1>1. /\ pc[r] = "delete" /\ pc' = [pc EXCEPT ![r] = "insert"]
      /\ counter' \in {counter, Swept(now[r])}
      /\ cleanedAt' = [cleanedAt EXCEPT ![p] = now[r]]
      /\ UNCHANGED <<clock, now, modified, answer, nextAt, counted>>
  BY DEF Delete, Goto
<1>2. p \in Workers /\ \A q \in Requests : WorkerOf[q] \in Workers /\ now[q] \in Nat /\ now[q] <= clock
  BY RequestsAssumption, TimeAssumption DEF TypeOK, RecentCalls
<1>3. clock \in Nat
  BY TimeAssumption DEF TypeOK
<1>4. /\ counter' \in [Windows -> Nat \cup {NoBucket}]
      /\ \A w \in Windows : counter'[w] = counter[w]
                            \/ (counter'[w] = NoBucket /\ Expires(w) < clock)
  <2>1. CASE counter' = counter
    BY <2>1 DEF TypeOK
  <2>2. CASE counter' = Swept(now[r])
    BY <1>2, <1>3, <2>2, ExpiresNat DEF Swept, TypeOK, NoBucket
  <2> QED BY <1>1, <2>1, <2>2
<1>5. TypeOK'
  BY <1>1, <1>2, <1>4, TimeAssumption DEF TypeOK, Busy, NoBucket
<1>6. \A q \in Requests : q # r => pc'[q] = pc[q]
  BY <1>1 DEF TypeOK
<1>7. pc'[r] = "insert"
  BY <1>1 DEF TypeOK
<1>8. CountersAgree' /\ CounterOutlivesCall' /\ UpdatesRemembered' /\ RefusedOnlyWhenFull' /\ WithinLimit'
  BY <1>1, <1>4, <1>6, <1>7, SweptCounters
<1>9. RecentCalls' /\ AnsweredWhenDone' /\ CountedByUpdate'
  BY <1>1, <1>6, <1>7 DEF RecentCalls, AnsweredWhenDone, CountedByUpdate, TypeOK, Busy
<1>10. SweepsInOrder'
  <2>1. nextAt'[p] = now[r] + Interval /\ cleanedAt'[p] = now[r]
    BY <1>1, <1>2 DEF SweepsInOrder, TypeOK
  <2>2. \A o \in Workers : o # p => cleanedAt'[o] = cleanedAt[o]
    BY <1>1 DEF TypeOK
  <2>3. \A o \in Workers : cleanedAt'[o] # Never => cleanedAt'[o] + Interval <= nextAt'[o]
    BY <1>1, <1>2, <2>1, <2>2, TimeAssumption DEF SweepsInOrder
  <2>4. \A q \in Requests : pc'[q] = "delete" => pc[q] = "delete" /\ q # r /\ WorkerOf[q] # p
    BY <1>1, <1>6, <1>7 DEF SweepsInOrder
  <2> QED BY <1>1, <1>2, <2>2, <2>3, <2>4 DEF SweepsInOrder
<1> QED BY <1>5, <1>8, <1>9, <1>10

LEMMA ExpireStep ==
    ASSUME LimiterInvariant, NEW w \in Windows, Expire(w)
    PROVE  LimiterInvariant'
<1> USE DEF LimiterInvariant
<1>1. /\ Expires(w) < clock /\ counter' = [counter EXCEPT ![w] = NoBucket]
      /\ UNCHANGED <<clock, pc, now, modified, answer, nextAt, counted, cleanedAt>>
  BY DEF Expire
<1>2. /\ counter' \in [Windows -> Nat \cup {NoBucket}]
      /\ \A o \in Windows : counter'[o] = counter[o]
                            \/ (counter'[o] = NoBucket /\ Expires(o) < clock)
  BY <1>1 DEF TypeOK
<1>3. TypeOK'
  BY <1>1, <1>2 DEF TypeOK, NoBucket
<1>4. CountersAgree' /\ CounterOutlivesCall' /\ UpdatesRemembered' /\ RefusedOnlyWhenFull' /\ WithinLimit'
  BY <1>1, <1>2, SweptCounters
<1>5. RecentCalls' /\ AnsweredWhenDone' /\ CountedByUpdate' /\ SweepsInOrder'
  BY <1>1 DEF RecentCalls, AnsweredWhenDone, CountedByUpdate, SweepsInOrder
<1> QED BY <1>3, <1>4, <1>5

-----------------------------------------------------------------------------
(* A counter is created at 0 only in a window where nothing was counted.   *)
LEMMA BucketedCounters ==
    ASSUME LimiterInvariant, NEW r \in Requests, pc[r] = "insert",
           counter' = Bucketed(r), UNCHANGED <<clock, now, counted>>
    PROVE  /\ counter' \in [Windows -> Nat \cup {NoBucket}]
           /\ \A w \in Windows : counter'[w] = counter[w] \/ counter'[w] = 0
           /\ \A w \in Windows : counter[w] # NoBucket => counter'[w] = counter[w]
           /\ counter'[WindowOf(r)] # NoBucket
           /\ CountersAgree'
<1> USE DEF LimiterInvariant
<1>1. WindowOf(r) \in Windows /\ clock < Expires(WindowOf(r)) /\ Expires(WindowOf(r)) \in Nat /\ clock \in Nat
  BY CallsInTime, ExpiresNat, TimeAssumption DEF Busy, TypeOK
<1>2. /\ counter' \in [Windows -> Nat \cup {NoBucket}]
      /\ \A w \in Windows : w # WindowOf(r) => counter'[w] = counter[w]
      /\ counter'[WindowOf(r)] = IF counter[WindowOf(r)] = NoBucket THEN 0 ELSE counter[WindowOf(r)]
  BY <1>1 DEF Bucketed, TypeOK
<1>3. \A w, n : Counted(w)' = Counted(w)
  BY CountedUnchanged
<1>4. counter[WindowOf(r)] = NoBucket => Counted(WindowOf(r)) = {}
  BY <1>1 DEF CountersAgree
<1>5. CountersAgree'
  BY <1>2, <1>3, <1>4, FS_EmptySet DEF CountersAgree, NoBucket
<1> QED BY <1>1, <1>2, <1>5 DEF NoBucket

LEMMA InsertStep ==
    ASSUME LimiterInvariant, NEW r \in Requests,
           \/ Insert(r)
           \/ /\ pc[r] = "insert" /\ counter' = Bucketed(r) /\ Answer(r, "unavailable")
              /\ UNCHANGED <<clock, now, modified, nextAt, counted, cleanedAt>>
    PROVE  LimiterInvariant'
<1> USE DEF LimiterInvariant
<1>1. /\ pc[r] = "insert" /\ counter' = Bucketed(r)
      /\ UNCHANGED <<clock, now, modified, nextAt, counted, cleanedAt>>
      /\ \/ pc' = [pc EXCEPT ![r] = "update"] /\ answer' = answer
         \/ pc' = [pc EXCEPT ![r] = "done"] /\ answer' = [answer EXCEPT ![r] = "unavailable"]
  BY DEF Insert, Answer, Goto
<1>2. /\ counter' \in [Windows -> Nat \cup {NoBucket}]
      /\ \A w \in Windows : counter'[w] = counter[w] \/ counter'[w] = 0
      /\ \A w \in Windows : counter[w] # NoBucket => counter'[w] = counter[w]
      /\ counter'[WindowOf(r)] # NoBucket
      /\ CountersAgree'
  BY <1>1, BucketedCounters
<1>3. TypeOK'
  BY <1>1, <1>2 DEF TypeOK, Busy
<1>4. \A w, n : Counted(w)' = Counted(w) /\ CountedUnder(w, n)' = CountedUnder(w, n)
  BY <1>1, CountedUnchanged
<1>5. \A q \in Requests : WindowOf(q)' = WindowOf(q)
  BY <1>1 DEF WindowOf
<1>6. \A q \in Requests : q # r => pc'[q] = pc[q] /\ answer'[q] = answer[q]
  BY <1>1 DEF TypeOK
<1>7. \/ pc'[r] = "update" /\ answer'[r] = answer[r]
      \/ pc'[r] = "done" /\ answer'[r] = "unavailable"
  BY <1>1 DEF TypeOK
<1>8. RecentCalls' /\ AnsweredWhenDone' /\ CountedByUpdate' /\ SweepsInOrder'
  BY <1>1, <1>6, <1>7
     DEF RecentCalls, AnsweredWhenDone, CountedByUpdate, SweepsInOrder, TypeOK, Busy
<1>9. CounterOutlivesCall'
  <2>1. \A q \in Requests : pc[q] \in {"update", "find"} => WindowOf(q) \in Windows
    BY CallsInTime DEF Busy
  <2> QED BY <1>2, <1>5, <1>6, <2>1 DEF CounterOutlivesCall
<1>10. UpdatesRemembered'
  BY <1>1, <1>4, <1>5, <1>6, <1>7 DEF UpdatesRemembered
<1>11. RefusedOnlyWhenFull' /\ WithinLimit'
  BY <1>1, <1>4, <1>5, <1>6, <1>7 DEF RefusedOnlyWhenFull, WithinLimit, AnsweredWhenDone
<1> QED BY <1>2, <1>3, <1>8, <1>9, <1>10, <1>11

-----------------------------------------------------------------------------
(* An increment counts one more request, in a window that had room for it. *)
LEMMA IncrementCounts ==
    ASSUME LimiterInvariant, NEW r \in Requests, pc[r] = "update", HasRoom(r),
           Increment(r), UNCHANGED <<clock, now>>
    PROVE  /\ counter' \in [Windows -> Nat \cup {NoBucket}]
           /\ \A w \in Windows : counter[w] # NoBucket => counter'[w] # NoBucket
           /\ \A w \in Windows :
                 counter'[w] > 0 => \E q \in Requests : counter'[w] <= LimitOf[q]
           /\ CountersAgree'
           /\ \A w : /\ Cardinality(Counted(w)) \in Nat /\ Cardinality(Counted(w)') \in Nat
                    /\ Cardinality(Counted(w)) <= Cardinality(Counted(w)')
           /\ \A w \in Windows, q \in Requests :
                 Cardinality(CountedUnder(w, LimitOf[q])') <= LimitOf[q]
<1> USE DEF LimiterInvariant
<1>0. PICK home : home = WindowOf(r)
  OBVIOUS
<1>1. home \in Windows /\ r \notin counted
  BY <1>0, CallsInTime DEF Busy, CountedByUpdate
<1>2. /\ counter' = [counter EXCEPT ![home] = @ + 1] /\ counted' = counted \cup {r}
      /\ counter[home] \in Nat /\ counter[home] < LimitOf[r] /\ LimitOf \in [Requests -> Nat]
  BY <1>0, RequestsAssumption DEF Increment, HasRoom
<1>3. /\ counter'[home] = counter[home] + 1
      /\ \A w \in Windows : w # home => counter'[w] = counter[w]
      /\ counter' \in [Windows -> Nat \cup {NoBucket}]
  BY <1>1, <1>2 DEF TypeOK
<1>4. \A w : Counted(w)' = IF w = home THEN Counted(w) \cup {r} ELSE Counted(w)
  BY <1>0, <1>2 DEF Counted, WindowOf
<1>5. \A w : r \notin Counted(w)
  BY <1>1 DEF Counted
<1>6. \A w : IsFiniteSet(Counted(w)) /\ Cardinality(Counted(w)) \in Nat
  BY CountedFinite
<1>7. /\ IsFiniteSet(Counted(home)')
      /\ Cardinality(Counted(home)') = Cardinality(Counted(home)) + 1
  BY <1>4, <1>5, <1>6, FS_AddElement
<1>8. counter[home] = Cardinality(Counted(home))
  BY <1>1, <1>2 DEF CountersAgree, NoBucket
<1>9. CountersAgree'
  <2> SUFFICES ASSUME NEW w \in Windows
               PROVE  IF counter'[w] = NoBucket THEN Counted(w)' = {} \/ Expires(w) < clock
                                                ELSE counter'[w] = Cardinality(Counted(w)')
    BY DEF CountersAgree
  <2>1. CASE w = home
    BY <1>2, <1>3, <1>7, <1>8, <2>1 DEF NoBucket
  <2>2. CASE w # home
    BY <1>3, <1>4, <2>2 DEF CountersAgree
  <2> QED BY <2>1, <2>2
<1>10. ASSUME NEW w
       PROVE  /\ Cardinality(Counted(w)) \in Nat /\ Cardinality(Counted(w)') \in Nat
              /\ Cardinality(Counted(w)) <= Cardinality(Counted(w)')
  <2>1. CASE w = home
    BY <1>6, <1>7, <2>1
  <2>2. CASE w # home
    BY <1>4, <1>6, <2>2
  <2> QED BY <2>1, <2>2
<1>11. ASSUME NEW w \in Windows, NEW q \in Requests
       PROVE  Cardinality(CountedUnder(w, LimitOf[q])') <= LimitOf[q]
  <2> DEFINE n == LimitOf[q]
  <2>0. n \in Nat /\ Cardinality(CountedUnder(w, n)) <= n
    BY <1>2 DEF WithinLimit
  <2>1. CASE w = home /\ LimitOf[r] <= n
    <3>1. CountedUnder(w, n)' \subseteq Counted(home)'
      BY <2>1 DEF CountedUnder
    <3>2. Cardinality(CountedUnder(w, n)') <= Cardinality(Counted(home)')
      BY <1>7, <3>1, FS_Subset
    <3>3. Cardinality(Counted(home)') <= LimitOf[r] /\ LimitOf[r] \in Nat
      BY <1>2, <1>6, <1>7, <1>8
    <3>4. IsFiniteSet(CountedUnder(w, n)')
      BY <1>7, <3>1, FS_Subset
    <3>5. Cardinality(CountedUnder(w, n)') \in Nat /\ Cardinality(Counted(home)') \in Nat
      BY <1>7, <3>4, FS_CardinalityType
    <3> QED BY <2>0, <2>1, <3>2, <3>3, <3>5
  <2>2. CASE ~(w = home /\ LimitOf[r] <= n)
    <3>1. CountedUnder(w, n)' = CountedUnder(w, n)
      BY <1>4, <2>2 DEF CountedUnder
    <3> QED BY <2>0, <3>1
  <2> QED BY <2>1, <2>2
<1>12. ASSUME NEW w \in Windows, counter'[w] > 0
       PROVE  \E q \in Requests : counter'[w] <= LimitOf[q]
  <2>1. CASE w = home
    BY <1>2, <1>3, <2>1
  <2>2. CASE w # home
    BY <1>3, <1>12, <2>2 DEF TypeOK
  <2> QED BY <2>1, <2>2
<1>13. \A w \in Windows : counter[w] # NoBucket => counter'[w] # NoBucket
  BY <1>2, <1>3 DEF NoBucket
<1> QED BY <1>3, <1>9, <1>10, <1>11, <1>12, <1>13

(* A step that moves r on from its update, with or without an increment.   *)
LEMMA UpdateStep ==
    ASSUME LimiterInvariant, NEW r \in Requests,
           \/ Update(r)
           \/ /\ pc[r] = "update" /\ HasRoom(r) /\ Increment(r) /\ Answer(r, "unavailable")
              /\ UNCHANGED <<clock, now, modified, nextAt, cleanedAt>>
    PROVE  LimiterInvariant'
<1> USE DEF LimiterInvariant
<1>1. /\ pc[r] = "update"
      /\ UNCHANGED <<clock, now, nextAt, cleanedAt>>
      /\ \/ HasRoom(r) /\ Increment(r)
         \/ ~HasRoom(r) /\ counter' = counter /\ counted' = counted
      /\ \/ /\ pc' = [pc EXCEPT ![r] = "find"] /\ answer' = answer
            /\ modified' = [modified EXCEPT ![r] = HasRoom(r)]
         \/ /\ pc' = [pc EXCEPT ![r] = "done"] /\ answer' = [answer EXCEPT ![r] = "unavailable"]
            /\ modified' = modified
  BY DEF Update, Answer, Goto
<1>2. WindowOf(r) \in Windows /\ r \notin counted /\ counter[WindowOf(r)] # NoBucket
  BY <1>1, CallsInTime DEF Busy, CountedByUpdate, CounterOutlivesCall
<1>3. \A w : Cardinality(Counted(w)) \in Nat
  BY CountedFinite
<1>4. /\ counter' \in [Windows -> Nat \cup {NoBucket}]
      /\ \A w \in Windows : counter[w] # NoBucket => counter'[w] # NoBucket
      /\ \A w \in Windows : counter'[w] > 0 => \E q \in Requests : counter'[w] <= LimitOf[q]
      /\ CountersAgree'
      /\ \A w : /\ Cardinality(Counted(w)) \in Nat /\ Cardinality(Counted(w)') \in Nat
               /\ Cardinality(Counted(w)) <= Cardinality(Counted(w)')
      /\ \A w \in Windows, q \in Requests : Cardinality(CountedUnder(w, LimitOf[q])') <= LimitOf[q]
      /\ counted' = counted \/ counted' = counted \cup {r}
      /\ HasRoom(r) => r \in counted'
  <2>1. CASE HasRoom(r) /\ Increment(r)
    BY <1>1, <2>1, IncrementCounts DEF Increment
  <2>2. CASE ~HasRoom(r) /\ counter' = counter /\ counted' = counted
    <3>1. \A w, n : Counted(w)' = Counted(w) /\ CountedUnder(w, n)' = CountedUnder(w, n)
      BY <1>1, <2>2, CountedUnchanged
    <3>2. CountersAgree'
      BY <1>1, <2>2, <3>1 DEF CountersAgree
    <3>3. \A w \in Windows, q \in Requests : Cardinality(CountedUnder(w, LimitOf[q])') <= LimitOf[q]
      BY <3>1 DEF WithinLimit
    <3>4. \A w : Cardinality(Counted(w)') \in Nat /\ Cardinality(Counted(w)) <= Cardinality(Counted(w)')
      BY <1>3, <3>1
    <3> QED BY <1>3, <2>2, <3>2, <3>3, <3>4 DEF TypeOK
  <2> QED BY <1>1, <2>1, <2>2
<1>5. \A q \in Requests : WindowOf(q)' = WindowOf(q)
  BY <1>1 DEF WindowOf
<1>6. \A q \in Requests : q # r => pc'[q] = pc[q] /\ answer'[q] = answer[q] /\ modified'[q] = modified[q]
  BY <1>1 DEF TypeOK
<1>7. \/ pc'[r] = "find" /\ answer'[r] = answer[r] /\ modified'[r] = HasRoom(r)
      \/ pc'[r] = "done" /\ answer'[r] = "unavailable"
  BY <1>1 DEF TypeOK
<1>8. TypeOK'
  <2>1. HasRoom(r) \in BOOLEAN
    BY DEF HasRoom
  <2>2. modified' \in [Requests -> BOOLEAN]
    BY <1>1, <2>1 DEF TypeOK
  <2> QED BY <1>1, <1>4, <2>2 DEF TypeOK, Busy
<1>9. RecentCalls' /\ AnsweredWhenDone' /\ CountedByUpdate' /\ SweepsInOrder'
  BY <1>1, <1>4, <1>6, <1>7
     DEF RecentCalls, AnsweredWhenDone, CountedByUpdate, SweepsInOrder, TypeOK, Busy
<1>10. CounterOutlivesCall'
  <2>1. \A q \in Requests : pc[q] \in {"update", "find"} => WindowOf(q) \in Windows
    BY CallsInTime DEF Busy
  <2> QED BY <1>1, <1>4, <1>5, <1>6, <2>1 DEF CounterOutlivesCall
<1>11. UpdatesRemembered'
  <2> SUFFICES ASSUME NEW q \in Requests, pc'[q] = "find", NEW w, w = WindowOf(q)
               PROVE  IF modified'[q] THEN q \in counted'
                                      ELSE Cardinality(Counted(w)') >= LimitOf[q]
    BY <1>5 DEF UpdatesRemembered
  <2>1. CASE q # r
    <3>1. IF modified[q] THEN q \in counted ELSE Cardinality(Counted(w)) >= LimitOf[q]
      BY <1>6, <2>1 DEF UpdatesRemembered
    <3> QED BY <1>4, <1>6, <2>1, <3>1, RequestsAssumption
  <2>2. CASE q = r /\ HasRoom(r)
    BY <1>4, <1>7, <2>2
  <2>3. CASE q = r /\ ~HasRoom(r)
    <3>1. counter[w] = Cardinality(Counted(w)) /\ counter[w] \in Nat
      BY <1>2, <2>3 DEF CountersAgree, TypeOK
    <3>2. counter[w] >= LimitOf[r]
      BY <2>3, <3>1, RequestsAssumption DEF HasRoom
    <3>3. Cardinality(Counted(w)') >= LimitOf[r]
      BY <1>4, <3>1, <3>2, RequestsAssumption
    <3> QED BY <1>7, <2>3, <3>3
  <2> QED BY <2>1, <2>2, <2>3
<1>12. RefusedOnlyWhenFull'
  <2> SUFFICES ASSUME NEW q \in Requests, answer'[q] = "limited", NEW w, w = WindowOf(q)
               PROVE  Cardinality(Counted(w)') >= LimitOf[q]
    BY <1>5 DEF RefusedOnlyWhenFull
  <2>1. q # r /\ answer[q] = "limited"
    BY <1>1, <1>6, <1>7 DEF AnsweredWhenDone
  <2>2. Cardinality(Counted(w)) >= LimitOf[q]
    BY <2>1 DEF RefusedOnlyWhenFull
  <2> QED BY <1>4, <2>2, RequestsAssumption
<1>13. WithinLimit'
  BY <1>1, <1>4, <1>6, <1>7 DEF WithinLimit, AnsweredWhenDone
<1> QED BY <1>4, <1>8, <1>9, <1>10, <1>11, <1>12, <1>13

-----------------------------------------------------------------------------
(* A call ends without touching the store.                                 *)
LEMMA AnswerStep ==
    ASSUME LimiterInvariant, NEW r \in Requests, pc[r] \in Busy,
           NEW outcome \in {"allowed", "limited", "unavailable"}, Answer(r, outcome),
           outcome = "allowed" => r \in counted,
           outcome = "limited" => Cardinality(Counted(WindowOf(r))) >= LimitOf[r],
           UNCHANGED <<clock, counter, now, modified, nextAt, counted, cleanedAt>>
    PROVE  LimiterInvariant'
<1> USE DEF LimiterInvariant
<1>1. pc' = [pc EXCEPT ![r] = "done"] /\ answer' = [answer EXCEPT ![r] = outcome]
  BY DEF Answer, Goto
<1>2. TypeOK'
  BY <1>1 DEF TypeOK
<1>3. \A w, n : Counted(w)' = Counted(w) /\ CountedUnder(w, n)' = CountedUnder(w, n)
  BY CountedUnchanged
<1>4. \A q \in Requests : WindowOf(q)' = WindowOf(q)
  BY DEF WindowOf
<1>5. /\ pc'[r] = "done" /\ answer'[r] = outcome
      /\ \A q \in Requests : q # r => pc'[q] = pc[q] /\ answer'[q] = answer[q]
  BY <1>1 DEF TypeOK
<1>6. RecentCalls' /\ AnsweredWhenDone' /\ CountedByUpdate' /\ CounterOutlivesCall' /\ SweepsInOrder'
  BY <1>1, <1>4, <1>5
     DEF RecentCalls, AnsweredWhenDone, CountedByUpdate, CounterOutlivesCall, SweepsInOrder, TypeOK, Busy
<1>7. CountersAgree' /\ UpdatesRemembered'
  BY <1>3, <1>4, <1>5 DEF CountersAgree, UpdatesRemembered
<1>8. RefusedOnlyWhenFull' /\ WithinLimit'
  BY <1>3, <1>4, <1>5 DEF RefusedOnlyWhenFull, WithinLimit
<1> QED BY <1>2, <1>6, <1>7, <1>8

LEMMA FindStep ==
    ASSUME LimiterInvariant, NEW r \in Requests, Find(r)
    PROVE  LimiterInvariant'
<1> USE DEF LimiterInvariant
<1> DEFINE outcome == IF counter[WindowOf(r)] = NoBucket THEN "unavailable"
                      ELSE IF modified[r] THEN "allowed" ELSE "limited"
<1>1. /\ pc[r] = "find" /\ Answer(r, outcome)
      /\ UNCHANGED <<clock, counter, now, modified, nextAt, counted, cleanedAt>>
  BY DEF Find
<1>2. outcome \in {"allowed", "limited", "unavailable"}
  OBVIOUS
<1>3. /\ outcome = "allowed" => r \in counted
      /\ outcome = "limited" => Cardinality(Counted(WindowOf(r))) >= LimitOf[r]
  BY <1>1 DEF UpdatesRemembered
<1> HIDE DEF outcome
<1> QED BY <1>1, <1>2, <1>3, AnswerStep DEF Busy

LEMMA StoreFailsStep ==
    ASSUME LimiterInvariant, NEW r \in Requests, StoreFails(r)
    PROVE  LimiterInvariant'
<1>1. Answer(r, "unavailable") /\ UNCHANGED <<clock, now, modified, nextAt, cleanedAt>>
  BY DEF StoreFails
<1>2. CASE pc[r] \in {"insert", "update", "find"} /\ UNCHANGED <<counter, counted>>
  BY <1>1, <1>2, AnswerStep DEF Busy
<1>3. CASE pc[r] = "insert" /\ counter' = Bucketed(r) /\ UNCHANGED counted
  BY <1>1, <1>3, InsertStep
<1>4. CASE pc[r] = "update" /\ HasRoom(r) /\ Increment(r)
  BY <1>1, <1>4, UpdateStep
<1> QED BY <1>2, <1>3, <1>4 DEF StoreFails

LEMMA TickStep ==
    ASSUME LimiterInvariant, Tick
    PROVE  LimiterInvariant'
<1> USE DEF LimiterInvariant
<1>1. /\ clock < Horizon /\ clock' = clock + 1
      /\ \A r \in Requests : pc[r] \in Busy => clock < now[r] + Patience
      /\ UNCHANGED <<counter, pc, now, modified, answer, nextAt, counted, cleanedAt>>
  BY DEF Tick
<1>2. clock \in Nat /\ \A r \in Requests : now[r] \in Nat
  BY TimeAssumption DEF TypeOK
<1>3. TypeOK'
  BY <1>1, <1>2, TimeAssumption DEF TypeOK
<1>4. \A w, n : Counted(w)' = Counted(w) /\ CountedUnder(w, n)' = CountedUnder(w, n)
  BY <1>1, CountedUnchanged
<1>5. RecentCalls'
  BY <1>1, <1>2, TimeAssumption DEF RecentCalls
<1>6. CountersAgree'
  BY <1>1, <1>2, <1>4, ExpiresNat DEF CountersAgree
<1>7. AnsweredWhenDone' /\ CountedByUpdate' /\ CounterOutlivesCall' /\ UpdatesRemembered'
      /\ WithinLimit' /\ RefusedOnlyWhenFull' /\ SweepsInOrder'
  BY <1>1, <1>4 DEF AnsweredWhenDone, CountedByUpdate, CounterOutlivesCall, UpdatesRemembered,
     WithinLimit, RefusedOnlyWhenFull, SweepsInOrder, WindowOf
<1> QED BY <1>3, <1>5, <1>6, <1>7

LEMMA StutterStep ==
    ASSUME LimiterInvariant, UNCHANGED vars
    PROVE  LimiterInvariant'
<1> USE DEF LimiterInvariant
<1>1. UNCHANGED <<clock, counter, pc, now, modified, answer, nextAt, counted, cleanedAt>>
  BY DEF vars
<1>2. \A w, n : Counted(w)' = Counted(w) /\ CountedUnder(w, n)' = CountedUnder(w, n)
  BY <1>1, CountedUnchanged
<1>3. TypeOK' /\ RecentCalls' /\ AnsweredWhenDone' /\ CountedByUpdate' /\ SweepsInOrder'
  BY <1>1 DEF TypeOK, RecentCalls, AnsweredWhenDone, CountedByUpdate, SweepsInOrder
<1>4. CountersAgree' /\ CounterOutlivesCall'
  BY <1>1, <1>2 DEF CountersAgree, CounterOutlivesCall, WindowOf
<1>5. UpdatesRemembered' /\ WithinLimit' /\ RefusedOnlyWhenFull'
  BY <1>1, <1>2 DEF UpdatesRemembered, WithinLimit, RefusedOnlyWhenFull, WindowOf
<1> QED BY <1>3, <1>4, <1>5

LEMMA NextLimiterInvariant == LimiterInvariant /\ [Next]_vars => LimiterInvariant'
<1> SUFFICES ASSUME LimiterInvariant, [Next]_vars PROVE LimiterInvariant'
  OBVIOUS
<1>1. ASSUME NEW r \in Requests, Consume(r) PROVE LimiterInvariant'
  BY <1>1, StartStep, LookStep, LockStep, DeleteStep, InsertStep, UpdateStep, FindStep,
     StoreFailsStep DEF Consume
<1>2. ASSUME NEW w \in Windows, Expire(w) PROVE LimiterInvariant'
  BY <1>2, ExpireStep
<1> QED BY <1>1, <1>2, TickStep, StutterStep DEF Next

(* The invariant of the limiter, for any number of requests and workers,   *)
(* any limits and any lengths of time, as long as no call outlasts the     *)
(* retention of its counter.                                               *)
THEOREM LimiterCorrect == Spec => []LimiterInvariant
BY InitLimiterInvariant, NextLimiterInvariant, PTL DEF Spec

(* The variables keep their types, and no counter exceeds every limit.     *)
THEOREM LimiterTypeCorrect == Spec => []TypeOK
<1>1. LimiterInvariant => TypeOK
  BY DEF LimiterInvariant
<1> QED BY <1>1, LimiterCorrect, PTL

(* A key never gets more requests through in a window than its limit.      *)
THEOREM LimitIsKept == Spec => []WithinLimit
<1>1. LimiterInvariant => WithinLimit
  BY DEF LimiterInvariant
<1> QED BY <1>1, LimiterCorrect, PTL

(* No request is refused while its window has room.                        *)
THEOREM RefusalsAreJust == Spec => []RefusedOnlyWhenFull
<1>1. LimiterInvariant => RefusedOnlyWhenFull
  BY DEF LimiterInvariant
<1> QED BY <1>1, LimiterCorrect, PTL

(* Neither a cleanup nor the TTL index takes a counter from an unfinished  *)
(* call.                                                                   *)
THEOREM CountersOutliveCalls == Spec => []CounterOutlivesCall
<1>1. LimiterInvariant => CounterOutlivesCall
  BY DEF LimiterInvariant
<1> QED BY <1>1, LimiterCorrect, PTL

(* Each worker sweeps the store at most once per Interval.                 *)
THEOREM SweepsAreSpaced == Spec => SweepsSpaced
<1> DEFINE Spaced == \A p \in Workers :
                        cleanedAt[p] # Never /\ cleanedAt'[p] # cleanedAt[p] =>
                            cleanedAt'[p] >= cleanedAt[p] + Interval
<1>1. LimiterInvariant /\ [Next]_vars => [Spaced]_vars
  <2> SUFFICES ASSUME LimiterInvariant, Next, NEW p \in Workers,
                      cleanedAt[p] # Never, cleanedAt'[p] # cleanedAt[p]
               PROVE  cleanedAt'[p] >= cleanedAt[p] + Interval
    OBVIOUS
  <2>1. PICK r \in Requests : Delete(r)
    BY DEF Next, Consume, Start, Look, Lock, Insert, Update, Find, StoreFails, Expire, Tick
  <2>2. /\ pc[r] = "delete"
        /\ cleanedAt' = [cleanedAt EXCEPT ![WorkerOf[r]] = now[r]]
    BY <2>1 DEF Delete
  <2>3. p = WorkerOf[r] /\ cleanedAt'[p] = now[r]
    BY <2>2 DEF LimiterInvariant, TypeOK
  <2>4. cleanedAt[p] + Interval <= now[r]
    BY <2>2, <2>3 DEF LimiterInvariant, SweepsInOrder
  <2>5. cleanedAt[p] \in Nat /\ now[r] \in Nat
    BY TimeAssumption DEF LimiterInvariant, TypeOK, Never
  <2> QED BY <2>3, <2>4, <2>5, TimeAssumption
<1> QED BY <1>1, LimiterCorrect, PTL DEF Spec, SweepsSpaced

=============================================================================
