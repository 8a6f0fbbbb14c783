--------------------------- MODULE InferenceQueue ---------------------------
(***************************************************************************)
(* granite-llm-server/app/inference_queue.py: the bounded, process-local   *)
(* FIFO admission queue in front of the model.                             *)
(*                                                                         *)
(* The object's fields are one record, `queue`, because every operation    *)
(* runs under the object's Condition; an operation is a function from      *)
(* queue records to queue records, and an action applies it at once.  The  *)
(* one place where the lock is given up is Condition.wait inside           *)
(* _wait_for_ticket: `call` holds the threads parked there.                *)
(***************************************************************************)
EXTENDS Integers, Sequences, FiniteSets, FiniteSetsExt

CONSTANTS
    Tickets,          \* the requests that may reach the queue, one ticket each
    Bytes,            \* the length of each request's body
    MaxActive,        \* max_active_requests
    MaxWaiting,       \* max_waiting_requests
    MaxQueuedBytes,   \* max_queued_bytes
    WaitTimeout,      \* wait_timeout_seconds, in ticks of the clock
    Polls,            \* the finite poll intervals callers give to wait()
    Horizon           \* bound on the clock

ASSUME TicketsAssumption == IsFiniteSet(Tickets) /\ Bytes \in [Tickets -> Nat]
ASSUME LimitsAssumption ==
    /\ MaxActive \in Nat \ {0}
    /\ MaxWaiting \in Nat
    /\ MaxQueuedBytes \in Nat
ASSUME TimeAssumption ==
    /\ WaitTimeout \in Nat
    /\ Polls \subseteq Nat
    /\ Horizon \in Nat

VARIABLES
    clock,   \* what clock_ns() would return now
    queue,   \* the InferenceQueue object and the tickets it owns
    call     \* the wait() call of each ticket's owner

vars == <<clock, queue, call>>

Refused == {"queue_full", "queue_memory_full"}
Status == {"unborn", "waiting", "admitted", "timed_out", "cancelled"} \cup Refused

\* Stands for poll_seconds=None.
Forever == -1

-----------------------------------------------------------------------------
(***************************************************************************)
(* The queue object.  A ticket is "unborn" until request_slot creates it.  *)
(***************************************************************************)
EmptyQueue ==
    [ waiting   |-> <<>>,                            \* _waiting
      active    |-> 0,                               \* _active_requests
      bytes     |-> 0,                               \* _queued_bytes
      status    |-> [t \in Tickets |-> "unborn"],    \* ticket._status
      deadline  |-> [t \in Tickets |-> 0],           \* ticket._deadline_ns
      decidedAt |-> [t \in Tickets |-> 0],           \* ticket._terminal_ns
      released  |-> [t \in Tickets |-> FALSE] ]      \* ticket._released

BytesOf(S) == MapThenSumSet(LAMBDA t : Bytes[t], S)

InLine(q) == {q.waiting[i] : i \in 1..Len(q.waiting)}

\* The tickets that occupy one of the MaxActive inference slots.
Holders(q) == {t \in Tickets : q.status[t] = "admitted" /\ ~q.released[t]}

Expired(q, t, now) == q.deadline[t] <= now

\* How many tickets the first loop of _advance_locked takes off the head of
\* the line: it stops at the first one whose deadline is still ahead.
ExpiredHeads(q, now) ==
    CHOOSE k \in 0..Len(q.waiting) :
        /\ \A i \in 1..k : Expired(q, q.waiting[i], now)
        /\ k < Len(q.waiting) => ~Expired(q, q.waiting[k + 1], now)

\* How many the second loop then admits.
AdmittedHeads(q, now) ==
    LET left == Len(q.waiting) - ExpiredHeads(q, now)
        free == MaxActive - q.active
    IN  IF left < free THEN left ELSE free

TimedOutBy(q, now) == {q.waiting[i] : i \in 1..ExpiredHeads(q, now)}

AdmittedBy(q, now) ==
    LET k == ExpiredHeads(q, now)
    IN  {q.waiting[i] : i \in (k + 1)..(k + AdmittedHeads(q, now))}

\* Mutant of Advance: slots are handed out before deadlines are looked at.
AdvanceIgnoringDeadlines(q, now) ==
    LET free == MaxActive - q.active
        n    == IF Len(q.waiting) < free THEN Len(q.waiting) ELSE free
        in   == {q.waiting[i] : i \in 1..n}
    IN  [q EXCEPT
           !.waiting   = SubSeq(@, n + 1, Len(@)),
           !.active    = @ + n,
           !.bytes     = @ - BytesOf(in),
           !.status    = [t \in Tickets |-> IF t \in in THEN "admitted" ELSE @[t]],
           !.decidedAt = [t \in Tickets |-> IF t \in in THEN now ELSE @[t]]]

\* Mutant of Advance: the tickets that time out keep their bytes accounted.
AdvanceLeakingBytes(q, now) ==
    LET out == TimedOutBy(q, now)
        in  == AdmittedBy(q, now)
        n   == ExpiredHeads(q, now) + AdmittedHeads(q, now)
    IN  [q EXCEPT
           !.waiting   = SubSeq(@, n + 1, Len(@)),
           !.active    = @ + AdmittedHeads(q, now),
           !.bytes     = @ - BytesOf(in),
           !.status    = [t \in Tickets |-> CASE t \in out -> "timed_out"
                                              [] t \in in  -> "admitted"
                                              [] OTHER     -> @[t]],
           !.decidedAt = [t \in Tickets |->
                            IF t \in out \cup in THEN now ELSE @[t]]]

\* _advance_locked: expired heads time out first, then free slots go to the
\* heads that are left, in the order of the line.
Advance(q, now) ==
    LET out == TimedOutBy(q, now)
        in  == AdmittedBy(q, now)
        n   == ExpiredHeads(q, now) + AdmittedHeads(q, now)
    IN  [q EXCEPT
           !.waiting   = SubSeq(@, n + 1, Len(@)),
           !.active    = @ + AdmittedHeads(q, now),
           !.bytes     = @ - BytesOf(out \cup in),
           !.status    = [t \in Tickets |-> CASE t \in out -> "timed_out"
                                              [] t \in in  -> "admitted"
                                              [] OTHER     -> @[t]],
           !.decidedAt = [t \in Tickets |->
                            IF t \in out \cup in THEN now ELSE @[t]]]

Place(q, t) == CHOOSE i \in 1..Len(q.waiting) : q.waiting[i] = t

\* _remove_waiting_locked, for a ticket anywhere in the line.
Remove(q, t, verdict, now) ==
    [q EXCEPT
       !.waiting      = [i \in 1..(Len(@) - 1) |->
                           IF i < Place(q, t) THEN @[i] ELSE @[i + 1]],
       !.bytes        = @ - Bytes[t],
       !.status[t]    = verdict,
       !.decidedAt[t] = now]

\* What request_slot decides on the state it finds after advancing the line.
Verdict(q, t) ==
    IF q.waiting = <<>> /\ q.active < MaxActive THEN "admitted"
    ELSE IF Len(q.waiting) >= MaxWaiting THEN "queue_full"
    ELSE IF q.bytes + Bytes[t] > MaxQueuedBytes THEN "queue_memory_full"
    ELSE IF WaitTimeout = 0 THEN "timed_out"
    ELSE "waiting"

\* Mutant of Enter: appendleft where the code appends.
EnterAtHead(q, t, now) ==
    LET verdict == Verdict(q, t)
    IN  [q EXCEPT
           !.waiting      = IF verdict = "waiting" THEN <<t>> \o @ ELSE @,
           !.active       = IF verdict = "admitted" THEN @ + 1 ELSE @,
           !.bytes        = IF verdict = "waiting" THEN @ + Bytes[t] ELSE @,
           !.status[t]    = verdict,
           !.deadline[t]  = now + WaitTimeout,
           !.decidedAt[t] = IF verdict = "waiting" THEN @ ELSE now]

\* The part of request_slot that follows its _advance_locked.
Enter(q, t, now) ==
    LET verdict == Verdict(q, t)
    IN  [q EXCEPT
           !.waiting      = IF verdict = "waiting" THEN Append(@, t) ELSE @,
           !.active       = IF verdict = "admitted" THEN @ + 1 ELSE @,
           !.bytes        = IF verdict = "waiting" THEN @ + Bytes[t] ELSE @,
           !.status[t]    = verdict,
           !.deadline[t]  = now + WaitTimeout,
           !.decidedAt[t] = IF verdict = "waiting" THEN @ ELSE now]

\* Mutant of GiveBack: the slot goes back without a mark on the ticket.
GiveBackUnmarked(q, t) == [q EXCEPT !.active = @ - 1]

\* The part of _release_ticket that precedes its _advance_locked.
GiveBack(q, t) == [q EXCEPT !.released[t] = TRUE, !.active = @ - 1]

-----------------------------------------------------------------------------
(***************************************************************************)
(* wait() calls.  A parked thread sits in Condition.wait until it is       *)
(* notified or its time-out elapses.                                       *)
(***************************************************************************)
NoCall == [parked |-> FALSE, until |-> Forever, notified |-> FALSE]

\* When the Condition.wait of t's owner elapses by itself.
WakeAt(t, until) ==
    IF until = Forever \/ queue.deadline[t] < until THEN queue.deadline[t] ELSE until

\* Mutant of NotifyAll: notify() where the code calls notify_all().
NotifyOne(calls) ==
    IF \E t \in Tickets : calls[t].parked
    THEN [calls EXCEPT ![CHOOSE t \in Tickets : calls[t].parked].notified = TRUE]
    ELSE calls

NotifyAll(calls) ==
    [t \in Tickets |-> [calls[t] EXCEPT !.notified = calls[t].parked]]

\* The notify_all that _advance_locked issues for each ticket it admits.
AfterAdvance(calls, q, now) ==
    IF AdmittedBy(q, now) = {} THEN calls ELSE NotifyAll(calls)

\* The clock may move between two readings of it under one hold of the lock.
LaterReadings == {clock, clock + 1} \cap 0..Horizon

-----------------------------------------------------------------------------
Init ==
    /\ clock = 0
    /\ queue = EmptyQueue
    /\ call = [t \in Tickets |-> NoCall]

\* request_slot.  Requests stop early enough for every deadline to be reached
\* within Horizon.
RequestSlot(t) ==
    /\ queue.status[t] = "unborn"
    /\ clock + WaitTimeout <= Horizon
    /\ queue' = Enter(Advance(queue, clock), t, clock)
    /\ call' = AfterAdvance(call, queue, clock)
    /\ UNCHANGED clock

\* One pass of _wait_for_ticket's loop that ends in Condition.wait.
Park(t, until) ==
    /\ queue.status[t] = "waiting"
    /\ LET next == Advance(queue, clock)
       IN  /\ next.status[t] = "waiting"
           /\ WakeAt(t, until) > clock
           /\ queue' = next
           /\ call' = [AfterAdvance(call, queue, clock) EXCEPT
                         ![t] = [parked |-> TRUE, until |-> until, notified |-> FALSE]]
    /\ UNCHANGED clock

\* The last pass: the ticket is decided, or the poll interval is over and the
\* line is advanced once more at a fresh reading of the clock.
Return(t, until) ==
    \E later \in LaterReadings :
        LET first == IF queue.status[t] = "waiting" THEN Advance(queue, clock) ELSE queue
            last  == IF first.status[t] = "waiting" THEN Advance(first, later) ELSE first
            woken == AfterAdvance(AfterAdvance(call, queue, clock), first, later)
        IN  /\ first.status[t] = "waiting" => WakeAt(t, until) <= clock
            /\ first.status[t] # "waiting" => later = clock
            /\ queue' = last
            /\ clock' = later
            /\ call' = [IF queue.status[t] = "waiting" THEN woken ELSE call
                          EXCEPT ![t] = NoCall]

\* ticket.wait(poll_seconds).
Wait(t, poll) ==
    LET until == IF poll = Forever THEN Forever ELSE clock + poll
    IN  /\ queue.status[t] # "unborn"
        /\ ~call[t].parked
        /\ Park(t, until) \/ Return(t, until)

MayResume(t) == call[t].notified \/ WakeAt(t, call[t].until) <= clock

\* Condition.wait returns to a parked thread, which goes round its loop.
Resume(t) ==
    /\ call[t].parked
    /\ MayResume(t)
    /\ Park(t, call[t].until) \/ Return(t, call[t].until)

\* ticket.cancel(); on any other ticket it returns False and changes nothing.
\* The clock is read once for the ticket and once more for the line.
Cancel(t) ==
    /\ queue.status[t] = "waiting"
    /\ \E later \in LaterReadings :
         /\ queue' = Advance(Remove(queue, t, "cancelled", clock), later)
         /\ clock' = later
    /\ call' = NotifyAll(call)

\* ticket.release(); False, and no change, unless the ticket holds a slot.
Release(t) ==
    /\ t \in Holders(queue)
    /\ queue' = Advance(GiveBack(queue, t), clock)
    /\ call' = NotifyAll(call)
    /\ UNCHANGED clock

\* InferenceQueue.snapshot() and ticket.snapshot(): reading advances the line.
Snapshot ==
    /\ queue' = Advance(queue, clock)
    /\ call' = AfterAdvance(call, queue, clock)
    /\ UNCHANGED clock

Tick ==
    /\ clock < Horizon
    /\ clock' = clock + 1
    /\ UNCHANGED <<queue, call>>

Next ==
    \/ \E t \in Tickets :
         \/ RequestSlot(t)
         \/ \E poll \in Polls \cup {Forever} : Wait(t, poll)
         \/ Resume(t)
         \/ Cancel(t)
         \/ Release(t)
    \/ Snapshot
    \/ Tick

Spec == Init /\ [][Next]_vars

-----------------------------------------------------------------------------
(***************************************************************************)
(* Properties                                                              *)
(***************************************************************************)

\* The fields of the queue and of the pending wait() calls keep their types.
TypeOK ==
    /\ clock \in 0..Horizon
    /\ DOMAIN queue = DOMAIN EmptyQueue
    /\ queue.waiting \in Seq(Tickets)
    /\ queue.active \in Nat
    /\ queue.status \in [Tickets -> Status]
    /\ queue.deadline \in [Tickets -> Nat]
    /\ queue.decidedAt \in [Tickets -> Nat]
    /\ queue.released \in [Tickets -> BOOLEAN]
    /\ call \in [Tickets -> [parked : BOOLEAN, until : Nat \cup {Forever},
                             notified : BOOLEAN]]

\* The counter _active_requests is exactly the number of tickets that were
\* admitted and not yet released, and never exceeds the limit: the
\* "count is inconsistent" error of _release_ticket cannot be raised.
SlotsAccounted(q) ==
    /\ q.active = Cardinality(Holders(q))
    /\ q.active <= MaxActive

\* The line holds each waiting ticket once and no other.
LineIsWaiting(q) ==
    /\ \A i, j \in 1..Len(q.waiting) : q.waiting[i] = q.waiting[j] => i = j
    /\ \A t \in Tickets : q.status[t] = "waiting" <=> t \in InLine(q)

\* Deadlines never decrease along the line.  _advance_locked looks only at
\* heads, and it is this order that makes that enough.
DeadlinesInOrder(q) ==
    \A i, j \in 1..Len(q.waiting) :
        i < j => q.deadline[q.waiting[i]] <= q.deadline[q.waiting[j]]

\* No slot is idle while somebody waits, whatever sequence of releases,
\* cancellations and time-outs led here.
WorkConserving(q) == q.waiting # <<>> => q.active = MaxActive

\* Nobody is admitted from the line at or past the deadline, and nobody is
\* timed out before it.
DeadlinesHonoured(q) ==
    \A t \in Tickets :
        /\ q.status[t] = "admitted" /\ WaitTimeout > 0 =>
              q.decidedAt[t] < q.deadline[t]
        /\ q.status[t] = "timed_out" => q.deadline[t] <= q.decidedAt[t]

\* Nobody in line arrived in the future, so that a newcomer's deadline is the
\* latest of the line.
ArrivalsPast(q, now) ==
    \A t \in Tickets : q.status[t] = "waiting" => q.deadline[t] <= now + WaitTimeout

\* Only a ticket that was admitted can have been released.
ReleasedWereAdmitted(q) ==
    \A t \in Tickets : q.released[t] => q.status[t] = "admitted"

\* _queued_bytes is the sum of the bodies held in the line, and both bounds of
\* the line hold: a decided ticket never leaves bytes behind.
BytesFit(q) ==
    /\ q.bytes = BytesOf(InLine(q))
    /\ q.bytes \in 0..MaxQueuedBytes
    /\ Len(q.waiting) <= MaxWaiting

\* SlotsAccounted of the current queue.
SlotInvariant == SlotsAccounted(queue)

\* LineIsWaiting, DeadlinesInOrder and WorkConserving of the current queue.
LineInvariant ==
    /\ LineIsWaiting(queue)
    /\ DeadlinesInOrder(queue)
    /\ WorkConserving(queue)

\* DeadlinesHonoured of the current queue.
DeadlineInvariant == DeadlinesHonoured(queue)

\* BytesFit of the current queue: what _queued_bytes counts and what it bounds.
BytesAccounted == BytesFit(queue)

\* What every operation of the queue preserves; the proofs start from it.
QueueInvariant ==
    /\ TypeOK
    /\ SlotInvariant
    /\ LineInvariant
    /\ DeadlineInvariant
    /\ BytesAccounted
    /\ ArrivalsPast(queue, clock)
    /\ ReleasedWereAdmitted(queue)

\* A thread parked in Condition.wait has been notified if somebody else's
\* operation admitted or cancelled its ticket.
NoLostWakeup ==
    \A t \in Tickets :
        call[t].parked /\ queue.status[t] \in {"admitted", "cancelled"} =>
            call[t].notified

\* wait() without a poll interval returns a decision, never "waiting": by the
\* time its deadline lets it out of the loop, advancing the line decides the
\* ticket wherever it stands.  The non-streaming branch of /generate answers
\* 503 for anything but "admitted".
BlockingWaitDecides ==
    \A t \in Tickets :
        queue.status[t] = "waiting" /\ WakeAt(t, Forever) <= clock =>
            Advance(queue, clock).status[t] = "timed_out"

\* First come, first served, in the terms of AdmissionLine.
Line == INSTANCE AdmissionLine WITH
            Clients <- Tickets,
            Slots   <- MaxActive,
            line    <- queue.waiting,
            holders <- Holders(queue),
            seen    <- {t \in Tickets : queue.status[t] # "unborn"}

\* Every step of the queue is a step of AdmissionLine: nobody overtakes, every
\* slot that comes free goes to the head of the line in the same step, and a
\* newcomer gets a slot only when nobody is waiting.
ImplementsAdmissionLine == Line!Spec

=============================================================================
