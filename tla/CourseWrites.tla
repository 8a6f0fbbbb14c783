----------------------------- MODULE CourseWrites -----------------------------
(***************************************************************************)
(* rocky-backend: concurrent requests that edit one course document, and   *)
(* the audit outbox that is stored in it (route_handlers/courses.py and    *)
(* route_handlers/audit.py).                                               *)
(*                                                                         *)
(* Every request is a thread or a process of its own.  It reads the course *)
(* (seen), decides on that copy, and stores the edit with a compare-and-   *)
(* set.  Edits of groups store their audit events in the same write; a     *)
(* later flush copies these to api_history and clears them.  Other edits   *)
(* write their event to api_history after the edit.  Between any two calls *)
(* of the store another request may run, or this one may die.              *)
(***************************************************************************)
EXTENDS CoursePolicy

CONSTANTS
    Requests,      \* requests that edit the course, each once
    Auditors,      \* readers of the audit log, over and over
    Edits,         \* what the requests may ask for
    FirstCourse,   \* the course as it is found
    JoinAttempts,  \* attempts of a self-join (3 in the code)
    FlushRounds    \* attempts of a flush (3 in the code)

ASSUME ProcessesAssumption == Requests \cap Auditors = {}
ASSUME AttemptsAssumption == JoinAttempts \in Nat \ {0} /\ FlushRounds \in Nat \ {0}

VARIABLES
    course,    \* the stored course document, NoCourse once deleted
    history,   \* api_history: the ids of its audit events, in order of insertion
    edit,      \* what each request asks for
    pc,        \* where each process stands
    seen,      \* the copy of the course that a request works on
    attempt,   \* which attempt of a self-join this is
    flush      \* each process's call of flush_course_audit:
               \*   batch   the events that it read from the outbox
               \*   copied  how many of them it has copied
               \*   round   which attempt this is
               \*   back    where the call returns to

vars == <<course, history, edit, pc, seen, attempt, flush>>

Processes == Requests \cup Auditors
Deletion == [kind |-> "deleteCourse"]
Places == {"idle", "reread", "save", "revoke", "record", "flush", "copy", "clear",
           "recheck", "drop", "dropKeys", "done"}

\* Event ids are ObjectIds: those that one edit stages, and the one of an edit
\* that is recorded afterwards.
StagedEvents(r, n) == [i \in 1..n |-> <<r, i>>]
LateEvent(r) == <<r, 0>>

-----------------------------------------------------------------------------
(***************************************************************************)
(* What the constants stand for.                                           *)
(***************************************************************************)
Fields == {"active", "staff", "roster", "linked", "handout", "staffLimit", "groups", "pending"}

IsCourse(c) ==
    /\ c = [f \in Fields |-> c[f]]
    /\ c.roster \in [DOMAIN c.roster -> Nat] /\ DOMAIN c.roster \subseteq Students
    /\ c.handout \in Nat
    /\ c.groups \in [DOMAIN c.groups -> Group]
    /\ c.pending \in Seq(Requests \X Nat)

\* What the requests' parsers let through.
IsEdit(e) ==
    /\ e.kind \in EditKinds
    /\ e.kind = "join" => \E s \in Students : e.who = {s}
    /\ e.kind \in {"assign", "enrol"} => e.who \subseteq Students
    /\ e.kind \in {"memberLimit", "handout"} \/ SetsLimit(e) => e.limit \in Nat
    /\ e.kind \in {"settings", "manage"} => e.open \in BOOLEAN
    /\ e.kind = "manage" => e.active \in BOOLEAN
    /\ SetsMax(e) => e.max \in Nat

ASSUME EditsAssumption == \A e \in Edits : e = Deletion \/ IsEdit(e)
ASSUME FirstCourseAssumption ==
    FirstCourse # NoCourse => /\ IsCourse(FirstCourse)
                              /\ Sound(FirstCourse)
                              /\ Len(FirstCourse.pending) <= MaxPending
ASSUME FirstOutboxAssumption == FirstCourse # NoCourse => FirstCourse.pending = <<>>

\* uuid4 gives a new group an id that no group had.
ASSUME GroupIdsAssumption ==
    FirstCourse # NoCourse =>
        /\ DOMAIN FirstCourse.groups \subseteq Groups
        /\ \A e \in Edits : e.kind = "createGroup" => ~HasGroup(FirstCourse, e.group)

-----------------------------------------------------------------------------
Goto(p, place) == pc' = [pc EXCEPT ![p] = place]
Forget(r) == seen' = [seen EXCEPT ![r] = NoCourse]

NoFlush == [batch |-> <<>>, copied |-> 0, round |-> 0, back |-> "done"]

Init ==
    /\ course = FirstCourse
    /\ history = <<>>
    /\ edit \in [Requests -> Edits]
    /\ \A r, q \in Requests :      \* uuid4 gives two new groups two ids
          r # q /\ edit[r].kind = "createGroup" /\ edit[q].kind = "createGroup"
              => edit[r].group # edit[q].group
    /\ pc = [p \in Processes |-> "idle"]
    /\ seen = [r \in Requests |-> NoCourse]
    /\ attempt = [r \in Requests |-> 1]
    /\ flush = [p \in Processes |-> NoFlush]

-----------------------------------------------------------------------------
(***************************************************************************)
(* flush_course_audit, called by the processes that go to "flush".         *)
(***************************************************************************)
CallFlush(p, return) ==
    /\ Goto(p, "flush")
    /\ flush' = [flush EXCEPT ![p] = [NoFlush EXCEPT !.round = 1, !.back = return]]

\* A flush that returns False stops a deletion; the others do not look.
Return(p, delivered) ==
    /\ Goto(p, IF flush[p].back = "recheck" /\ ~delivered THEN "done" ELSE flush[p].back)
    /\ flush' = [flush EXCEPT ![p] = NoFlush]

\* courses.find_one: nothing pending is success.
FlushRead(p) ==
    /\ pc[p] = "flush"
    /\ IF course = NoCourse \/ course.pending = <<>>
       THEN Return(p, TRUE)
       ELSE /\ flush' = [flush EXCEPT ![p].batch = course.pending, ![p].copied = 0]
            /\ Goto(p, "copy")
    /\ UNCHANGED <<course, history, edit, seen, attempt>>

NextEvent(p) == flush[p].batch[flush[p].copied + 1]

\* api_history.insert_one refuses an _id that it has already.
Insert(event) ==
    history' = IF Contains(history, event) THEN history ELSE Append(history, event)

Copied(p) ==
    /\ flush' = [flush EXCEPT ![p].copied = @ + 1]
    /\ Goto(p, IF flush'[p].copied = Len(flush[p].batch) THEN "clear" ELSE "copy")

\* One event of the batch is inserted, or found to be there.
Copy(p) ==
    /\ pc[p] = "copy"
    /\ Insert(NextEvent(p))
    /\ Copied(p)
    /\ UNCHANGED <<course, edit, seen, attempt>>

\* Mutant of Clear: whatever is pending is cleared.
ClearAll(p) ==
    /\ pc[p] = "clear"
    /\ course' = IF course = NoCourse THEN course ELSE [course EXCEPT !.pending = <<>>]
    /\ Return(p, TRUE)
    /\ UNCHANGED <<history, edit, seen, attempt>>

Unchanged(p) == course # NoCourse /\ course.pending = flush[p].batch

\* The outbox is cleared if it is still what was copied; otherwise the flush
\* starts again, a few times.
Clear(p) ==
    /\ pc[p] = "clear"
    /\ IF Unchanged(p)
       THEN course' = [course EXCEPT !.pending = <<>>] /\ Return(p, TRUE)
       ELSE /\ UNCHANGED course
            /\ IF flush[p].round < FlushRounds
               THEN /\ Goto(p, "flush")
                    /\ flush' = [flush EXCEPT ![p] =
                          [NoFlush EXCEPT !.round = flush[p].round + 1, !.back = flush[p].back]]
               ELSE Return(p, FALSE)
    /\ UNCHANGED <<history, edit, seen, attempt>>

\* A call of the store raises, with or without having taken effect: the flush
\* gives up.
FlushFails(p) ==
    /\ \/ /\ pc[p] \in {"flush", "copy", "clear"}
          /\ UNCHANGED <<course, history>>
       \/ /\ pc[p] = "copy"
          /\ Insert(NextEvent(p))
          /\ UNCHANGED course
       \/ /\ pc[p] = "clear"
          /\ Unchanged(p)
          /\ course' = [course EXCEPT !.pending = <<>>]
          /\ UNCHANGED history
    /\ Return(p, FALSE)
    /\ UNCHANGED <<edit, seen, attempt>>

Flush(p) == FlushRead(p) \/ Copy(p) \/ Clear(p) \/ FlushFails(p)

-----------------------------------------------------------------------------
(***************************************************************************)
(* The edits.                                                              *)
(***************************************************************************)
NewEvents(r, c) == StagedEvents(r, EventCount(c, edit[r]))

\* The document that the request wants to store in place of c.
Update(r, c) == [Edited(c, edit[r]) EXCEPT !.pending = @ \o NewEvents(r, c)]

\* Mutant of Decide: the backlog has no limit.
DecideUnbounded(r) ==
    IF Allowed(course, edit[r])
    THEN seen' = [seen EXCEPT ![r] = course] /\ Goto(r, "save")
    ELSE UNCHANGED seen /\ Goto(r, "done")

\* The request decides on the course it just read: it may be refused, by its
\* own conditions or (AuditBacklogFull) by those of the outbox.
Decide(r) ==
    IF Allowed(course, edit[r]) /\ Len(Update(r, course).pending) <= MaxPending
    THEN seen' = [seen EXCEPT ![r] = course] /\ Goto(r, "save")
    ELSE UNCHANGED seen /\ Goto(r, "done")

\* get_course_record; the routes of staged edits flush what is pending and read
\* again (_group_course_record).
Read(r) ==
    /\ pc[r] = "idle" /\ edit[r] # Deletion
    /\ IF Staged(edit[r]) /\ course # NoCourse /\ course.pending # <<>>
       THEN CallFlush(r, "reread") /\ UNCHANGED seen
       ELSE Decide(r) /\ UNCHANGED flush
    /\ UNCHANGED <<course, history, edit, attempt>>

ReadAgain(r) ==
    /\ pc[r] = "reread"
    /\ Decide(r)
    /\ UNCHANGED <<course, history, edit, attempt, flush>>

\* What follows a stored edit.
AfterSave(r) ==
    CASE edit[r].kind \in {"unenrol", "deleteGroup"} -> "revoke"
      [] edit[r].kind = "leaveGroup" ->
            IF edit[r].who \cap seen[r].groups[edit[r].group].members # {}
            THEN "revoke" ELSE "record"
      [] edit[r].kind = "reconcile" -> "done"
      [] OTHER -> "record"

\* save_course_changes.  A conflict is an error to the client, except that a
\* self-join reads and decides again.
Save(r) ==
    /\ pc[r] = "save"
    /\ LET before == seen[r]
           after == Update(r, before)
       IN IF Matches(course, before, after)
          THEN /\ course' = Written(course, before, after)
               /\ IF Staged(edit[r]) /\ edit[r].kind # "deleteGroup"
                  THEN CallFlush(r, "done")
                  ELSE Goto(r, AfterSave(r)) /\ UNCHANGED flush
               /\ UNCHANGED attempt
          ELSE /\ IF edit[r].kind = "join" /\ attempt[r] < JoinAttempts
                  THEN Goto(r, "idle") /\ attempt' = [attempt EXCEPT ![r] = @ + 1]
                  ELSE Goto(r, "done") /\ UNCHANGED attempt
               /\ UNCHANGED <<course, flush>>
    /\ Forget(r)
    /\ UNCHANGED <<history, edit>>

\* _revoke_course_owner_keys: CourseKeys says what happens to the keys.
Revoke(r) ==
    /\ pc[r] = "revoke"
    /\ IF Staged(edit[r]) THEN CallFlush(r, "done")
                          ELSE Goto(r, "record") /\ UNCHANGED flush
    /\ UNCHANGED <<course, history, edit, seen, attempt>>

\* record_audit_event of the edits that are not staged.
Record(r) ==
    /\ pc[r] = "record"
    /\ history' = Append(history, LateEvent(r))
    /\ Goto(r, "done")
    /\ UNCHANGED <<course, edit, seen, attempt, flush>>

-----------------------------------------------------------------------------
(***************************************************************************)
(* delete_course.                                                          *)
(***************************************************************************)
ReadToDelete(r) ==
    /\ pc[r] = "idle" /\ edit[r] = Deletion
    /\ IF course = NoCourse THEN Goto(r, "done") /\ UNCHANGED flush
                            ELSE CallFlush(r, "recheck")
    /\ UNCHANGED <<course, history, edit, seen, attempt>>

\* The course is read again, and must have nothing pending.
Recheck(r) ==
    /\ pc[r] = "recheck"
    /\ Goto(r, IF course = NoCourse \/ course.pending # <<>> THEN "done" ELSE "drop")
    /\ UNCHANGED <<course, history, edit, seen, attempt, flush>>

\* delete_many, of a course whose outbox is what the recheck saw.
Drop(r) ==
    /\ pc[r] = "drop"
    /\ IF course # NoCourse /\ course.pending = <<>>
       THEN course' = NoCourse /\ Goto(r, "dropKeys")
       ELSE Goto(r, "done") /\ UNCHANGED course
    /\ UNCHANGED <<history, edit, seen, attempt, flush>>

\* delete_course_api_keys, in CourseKeys.
DropKeys(r) ==
    /\ pc[r] = "dropKeys"
    /\ Goto(r, "record")
    /\ UNCHANGED <<course, history, edit, seen, attempt, flush>>

-----------------------------------------------------------------------------
\* The thread of a request dies: an exception that no handler catches, or the
\* end of its process.
Crash(r) ==
    /\ pc[r] \notin {"idle", "done"}
    /\ Goto(r, "done")
    /\ Forget(r)
    /\ flush' = [flush EXCEPT ![r] = NoFlush]
    /\ UNCHANGED <<course, history, edit, attempt>>

\* Mutant of Audit: the routes read what is there.
AuditWithoutFlush(a) ==
    /\ pc[a] \in {"idle", "done"}
    /\ Goto(a, "done")
    /\ UNCHANGED <<course, history, edit, seen, attempt, flush>>

\* The audit-log and course-history routes flush before they read.
Audit(a) ==
    /\ pc[a] \in {"idle", "done"}
    /\ CallFlush(a, "done")
    /\ UNCHANGED <<course, history, edit, seen, attempt>>

Request(r) ==
    \/ Read(r) \/ ReadAgain(r) \/ Save(r) \/ Revoke(r) \/ Record(r)
    \/ ReadToDelete(r) \/ Recheck(r) \/ Drop(r) \/ DropKeys(r) \/ Crash(r)

Next ==
    \/ \E r \in Requests : Request(r)
    \/ \E a \in Auditors : Audit(a)
    \/ \E p \in Processes : Flush(p)

Spec == Init /\ [][Next]_vars

\* Someone keeps reading the audit log, and no insert fails for ever that is
\* tried again and again.
FairSpec ==
    /\ Spec
    /\ \A a \in Auditors :
          /\ WF_vars(Audit(a) \/ Flush(a))
          /\ SF_vars(FlushRead(a))
          /\ \A e \in Requests \X (1..MaxPending) : SF_vars(pc[a] = "copy" /\ NextEvent(a) = e /\ Copy(a))

-----------------------------------------------------------------------------
(***************************************************************************)
(* Properties                                                              *)
(***************************************************************************)
\* However the edits of a course interleave, its groups stay within their size, on
\* the roster and under the cap: two students cannot both take the last seat, and a
\* join that was decided before a removal cannot bring the student back.
GroupsSound == course # NoCourse => Sound(course)

\* The document cannot grow without end while the log refuses its events: an edit
\* that would overfill the outbox is refused, on the copy that it is stored from.
OutboxBounded == course # NoCourse => Len(course.pending) <= MaxPending

\* A stored edit is what it would have been if the route had run alone at the
\* moment of its save: no decision is stale, no concurrent edit is lost.
EditsAreAtomic ==
    [][\A r \in Requests :
          pc[r] = "save" /\ pc'[r] # pc[r] /\ course' # course =>
              Allowed(course, edit[r]) /\ course' = Update(r, course)]_vars

\* The outbox from its first event on that is not in the log.
Undelivered ==
    IF course = NoCourse THEN <<>>
    ELSE LET copied == {i \in 1..Len(course.pending) : Contains(history, course.pending[i])}
         IN  SubSeq(course.pending, Cardinality(copied) + 1, Len(course.pending))

\* The outbox keeps the promise of the audit log: each event of a stored edit
\* is delivered, in order, never twice, and none is left when the course goes.
Log == INSTANCE AuditLog WITH Events <- Requests \X (Nat \ {0}),
                              log <- history,
                              due <- Undelivered,
                              gone <- course = NoCourse
ImplementsAuditLog == Log!Spec

\* Every event that is stored with a course reaches the log, although its
\* request may have died and the store may have failed: again and again there is
\* nothing left to deliver.
EventsAreDelivered == []<>(Undelivered = <<>>)

=============================================================================
