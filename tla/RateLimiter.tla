----------------------------- MODULE RateLimiter -----------------------------
(***************************************************************************)
(* api-rocky/rate_limit.py: FixedWindowRateLimiter, for one API key and    *)
(* one operation.  The counters are documents of a store that all worker   *)
(* processes share, one document per window; a request counts itself with  *)
(* three calls of the store, and other requests, a cleanup of old counters *)
(* or a crash may come between any two.                                    *)
(*                                                                         *)
(* A deployment is redeployed with other limits while a window runs, so    *)
(* every request has its own.  Time is in ticks of one shared clock.       *)
(***************************************************************************)
EXTENDS Integers, FiniteSets

CONSTANTS
    Requests,     \* calls of consume()
    LimitOf,      \* the limit each of them is given
    Workers,      \* processes, each with a limiter object
    WorkerOf,     \* the process that serves each request
    Cleaning,     \* whether cleanup_expired is set, as it is over Mongita
    Indexed,      \* whether the store has the TTL index, as MongoDB does
    Width,        \* RATE_LIMIT_WINDOW_SECONDS
    Retention,    \* RATE_LIMIT_COUNTER_RETENTION_SECONDS
    Interval,     \* cleanup_interval_seconds
    Patience,     \* longest time a call of consume() takes
    Horizon       \* bound on the clock

ASSUME RequestsAssumption ==
    /\ IsFiniteSet(Requests)
    /\ LimitOf \in [Requests -> Nat \ {0}]
    /\ WorkerOf \in [Requests -> Workers]
    /\ Cleaning \in BOOLEAN /\ Indexed \in BOOLEAN
ASSUME TimeAssumption ==
    /\ Width \in Nat \ {0} /\ Interval \in Nat \ {0}
    /\ Retention \in Nat /\ Patience \in Nat /\ Horizon \in Nat

\* No call lasts for longer than counters are kept after their window, which is
\* five minutes; the driver looks for a server for two seconds and then fails.
ASSUME PatienceAssumption == Patience <= Retention

VARIABLES
    clock,      \* what time.time() would return now
    counter,    \* rate_limit_windows: the count of each window, or NoBucket
    pc,         \* where each request stands
    now,        \* the request's now_epoch
    modified,   \* whether its update matched
    answer,     \* the outcome of its call
    nextAt,     \* each worker's _next_cleanup_at
    counted,    \* history: the requests whose increment took effect
    cleanedAt   \* history: when each worker last ran delete_many, or Never

vars == <<clock, counter, pc, now, modified, answer, nextAt, counted, cleanedAt>>

NoBucket == -1
Never == -1

Window(t) == t \div Width
Windows == 0..Window(Horizon)
WindowOf(r) == Window(now[r])

\* Mutant of Expires: a counter lives until the end of its window.
ExpiresWithWindow(w) == (w + 1) * Width

\* A counter lives until the end of its window and Retention more.
Expires(w) == (w + 1) * Width + Retention

Busy == {"cleanup", "locked", "delete", "insert", "update", "find"}

Goto(r, place) == pc' = [pc EXCEPT ![r] = place]

Init ==
    /\ clock = 0
    /\ counter = [w \in Windows |-> NoBucket]
    /\ pc = [r \in Requests |-> "new"]
    /\ now = [r \in Requests |-> 0]
    /\ modified = [r \in Requests |-> FALSE]
    /\ answer = [r \in Requests |-> "none"]
    /\ nextAt = [p \in Workers |-> 0]
    /\ counted = {}
    /\ cleanedAt = [p \in Workers |-> Never]

-----------------------------------------------------------------------------
(***************************************************************************)
(* _maybe_cleanup_expired.                                                 *)
(***************************************************************************)
DueFor(r) == now[r] >= nextAt[WorkerOf[r]]

LockFree(p) == \A r \in Requests : pc[r] = "delete" => WorkerOf[r] # p

\* consume() begins: it reads the clock.
Start(r) ==
    /\ pc[r] = "new"
    /\ now' = [now EXCEPT ![r] = clock]
    /\ Goto(r, "cleanup")
    /\ UNCHANGED <<clock, counter, modified, answer, nextAt, counted, cleanedAt>>

\* The look without the lock.
Look(r) ==
    /\ pc[r] = "cleanup"
    /\ Goto(r, IF Cleaning /\ DueFor(r) THEN "locked" ELSE "insert")
    /\ UNCHANGED <<clock, counter, now, modified, answer, nextAt, counted, cleanedAt>>

\* The lock is taken, and a second look decides.
Lock(r) ==
    /\ pc[r] = "locked"
    /\ LockFree(WorkerOf[r])
    /\ IF DueFor(r)
       THEN /\ nextAt' = [nextAt EXCEPT ![WorkerOf[r]] = now[r] + Interval]
            /\ Goto(r, "delete")
       ELSE /\ Goto(r, "insert")
            /\ UNCHANGED nextAt
    /\ UNCHANGED <<clock, counter, now, modified, answer, counted, cleanedAt>>

\* The counters that are left when those that expired before t are deleted.
Swept(t) == [w \in Windows |-> IF Expires(w) < t THEN NoBucket ELSE counter[w]]

\* delete_many, under the lock; an error of the store is swallowed.
Delete(r) ==
    /\ pc[r] = "delete"
    /\ counter' \in {counter, Swept(now[r])}
    /\ cleanedAt' = [cleanedAt EXCEPT ![WorkerOf[r]] = now[r]]
    /\ Goto(r, "insert")
    /\ UNCHANGED <<clock, now, modified, answer, nextAt, counted>>

\* MongoDB's TTL monitor deletes some of the expired counters by itself.
Expire(w) ==
    /\ Indexed
    /\ Expires(w) < clock
    /\ counter' = [counter EXCEPT ![w] = NoBucket]
    /\ UNCHANGED <<clock, pc, now, modified, answer, nextAt, counted, cleanedAt>>

-----------------------------------------------------------------------------
(***************************************************************************)
(* Counting.                                                               *)
(***************************************************************************)
\* Mutant of Bucketed: a counter that is there already starts again.
BucketedAnew(r) == [counter EXCEPT ![WindowOf(r)] = 0]

\* insert_one of a counter at 0, which a duplicate key leaves alone.
Bucketed(r) ==
    [counter EXCEPT ![WindowOf(r)] = IF @ = NoBucket THEN 0 ELSE @]

Insert(r) ==
    /\ pc[r] = "insert"
    /\ counter' = Bucketed(r)
    /\ Goto(r, "update")
    /\ UNCHANGED <<clock, now, modified, answer, nextAt, counted, cleanedAt>>

\* Mutant of HasRoom: the last request of the limit has no room.
HasRoomTooLittle(r) == counter[WindowOf(r)] \in 0..(LimitOf[r] - 2)

\* The filter of update_one: the counter exists and is below the limit.
HasRoom(r) == counter[WindowOf(r)] \in 0..(LimitOf[r] - 1)

Increment(r) ==
    /\ counter' = [counter EXCEPT ![WindowOf(r)] = @ + 1]
    /\ counted' = counted \cup {r}

\* update_one, in one step of the store.
Update(r) ==
    /\ pc[r] = "update"
    /\ IF HasRoom(r) THEN Increment(r) ELSE UNCHANGED <<counter, counted>>
    /\ modified' = [modified EXCEPT ![r] = HasRoom(r)]
    /\ Goto(r, "find")
    /\ UNCHANGED <<clock, now, answer, nextAt, cleanedAt>>

Answer(r, outcome) ==
    /\ answer' = [answer EXCEPT ![r] = outcome]
    /\ Goto(r, "done")

\* find_one: without a counter there is no decision.
Find(r) ==
    /\ pc[r] = "find"
    /\ Answer(r, IF counter[WindowOf(r)] = NoBucket THEN "unavailable"
                 ELSE IF modified[r] THEN "allowed" ELSE "limited")
    /\ UNCHANGED <<clock, counter, now, modified, nextAt, counted, cleanedAt>>

\* A call of the store raises, whether or not it took effect.
StoreFails(r) ==
    /\ \/ /\ pc[r] \in {"insert", "update", "find"}
          /\ UNCHANGED <<counter, counted>>
       \/ /\ pc[r] = "insert"
          /\ counter' = Bucketed(r)
          /\ UNCHANGED counted
       \/ pc[r] = "update" /\ HasRoom(r) /\ Increment(r)
    /\ Answer(r, "unavailable")
    /\ UNCHANGED <<clock, now, modified, nextAt, cleanedAt>>

-----------------------------------------------------------------------------
\* Time passes while no call has lasted for Patience.
Tick ==
    /\ clock < Horizon
    /\ \A r \in Requests : pc[r] \in Busy => clock < now[r] + Patience
    /\ clock' = clock + 1
    /\ UNCHANGED <<counter, pc, now, modified, answer, nextAt, counted, cleanedAt>>

Consume(r) ==
    \/ Start(r) \/ Look(r) \/ Lock(r) \/ Delete(r)
    \/ Insert(r) \/ Update(r) \/ Find(r) \/ StoreFails(r)

Next ==
    \/ \E r \in Requests : Consume(r)
    \/ \E w \in Windows : Expire(w)
    \/ Tick

Spec == Init /\ [][Next]_vars

-----------------------------------------------------------------------------
(***************************************************************************)
(* Properties                                                              *)
(***************************************************************************)
\* The variables keep their types, and no counter exceeds every limit.
TypeOK ==
    /\ clock \in 0..Horizon
    /\ counter \in [Windows -> Nat \cup {NoBucket}]
    /\ \A w \in Windows :
          counter[w] > 0 => \E r \in Requests : counter[w] <= LimitOf[r]
    /\ pc \in [Requests -> Busy \cup {"new", "done"}]
    /\ now \in [Requests -> 0..Horizon]
    /\ modified \in [Requests -> BOOLEAN]
    /\ answer \in [Requests -> {"none", "allowed", "limited", "unavailable"}]
    /\ nextAt \in [Workers -> Nat]
    /\ counted \subseteq Requests
    /\ cleanedAt \in [Workers -> Nat \cup {Never}]

\* The requests counted in window w, and those under limits of at most n.
Counted(w) == {r \in counted : WindowOf(r) = w}
CountedUnder(w, n) == {r \in Counted(w) : LimitOf[r] <= n}

\* A key gets no more requests through in a window than its limit, whatever the
\* workers interleave, whatever is cleaned up meanwhile and whatever fails;
\* after the limit is lowered, those of the higher limit count as well.
WithinLimit ==
    \A r \in Requests :
        /\ answer[r] = "allowed" => r \in counted
        /\ \A w \in Windows : Cardinality(CountedUnder(w, LimitOf[r])) <= LimitOf[r]

\* Nobody is told to wait while the window has room: a request is refused only
\* after as many as its limit were counted.
RefusedOnlyWhenFull ==
    \A r \in Requests :
        answer[r] = "limited" => Cardinality(Counted(WindowOf(r))) >= LimitOf[r]

\* The counter that an unfinished call works on is never cleaned away under it,
\* so that a call fails only when the store does.
CounterOutlivesCall ==
    \A r \in Requests : pc[r] \in {"update", "find"} => counter[WindowOf(r)] # NoBucket

\* A worker sweeps the store once per Interval, although its threads look at
\* the time without holding the lock.
SweepsSpaced ==
    [][\A p \in Workers :
          cleanedAt[p] # Never /\ cleanedAt'[p] # cleanedAt[p] =>
              cleanedAt'[p] >= cleanedAt[p] + Interval]_vars

\* No clock reading is ahead, and no unfinished call has lasted for too long.
RecentCalls ==
    \A r \in Requests :
        /\ now[r] <= clock
        /\ pc[r] \in Busy => clock <= now[r] + Patience

\* Only a call that is over has its answer.
AnsweredWhenDone == \A r \in Requests : answer[r] # "none" => pc[r] = "done"

\* A request is counted by its one update.
CountedByUpdate == \A r \in counted : pc[r] \in {"find", "done"}

\* A counter that exists is right, and one that does not has nothing to count
\* or has expired.
CountersAgree ==
    \A w \in Windows :
        IF counter[w] = NoBucket THEN Counted(w) = {} \/ Expires(w) < clock
                                 ELSE counter[w] = Cardinality(Counted(w))

\* What update_one answered is still so when the counter is read.
UpdatesRemembered ==
    \A r \in Requests :
        pc[r] = "find" =>
            IF modified[r] THEN r \in counted
                           ELSE Cardinality(Counted(WindowOf(r))) >= LimitOf[r]

\* One thread of a worker sweeps at a time, when its last sweep is long ago.
SweepsInOrder ==
    /\ \A p \in Workers : cleanedAt[p] # Never => cleanedAt[p] + Interval <= nextAt[p]
    /\ \A r \in Requests : pc[r] = "delete" =>
          /\ nextAt[WorkerOf[r]] = now[r] + Interval
          /\ cleanedAt[WorkerOf[r]] # Never => cleanedAt[WorkerOf[r]] + Interval <= now[r]
          /\ \A q \in Requests : pc[q] = "delete" /\ WorkerOf[q] = WorkerOf[r] => q = r

\* What every step of the limiter preserves; the proofs start from it.
LimiterInvariant ==
    /\ TypeOK /\ RecentCalls /\ AnsweredWhenDone
    /\ CountedByUpdate /\ CountersAgree /\ CounterOutlivesCall /\ UpdatesRemembered
    /\ WithinLimit /\ RefusedOnlyWhenFull /\ SweepsInOrder

=============================================================================
