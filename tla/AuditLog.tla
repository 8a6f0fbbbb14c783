------------------------------- MODULE AuditLog -------------------------------
(***************************************************************************)
(* What the membership audit of a course promises, whoever edits the       *)
(* course, whatever crashes and however often the audit store fails: the   *)
(* log gets every event of a committed edit once, in the order in which    *)
(* the edits were committed, and a course goes only when all of its events *)
(* are in the log.  Others write to the same log.                          *)
(***************************************************************************)
EXTENDS Naturals, Sequences

CONSTANT Events

VARIABLES
    log,    \* what is in the log, in order
    due,    \* the events of committed edits that are not there yet, in order
    gone    \* whether the course was deleted

logVars == <<log, due, gone>>

Logged(event) == \E i \in 1..Len(log) : log[i] = event

Init == log = <<>> /\ due = <<>> /\ gone \in BOOLEAN

\* An edit takes effect together with its events.
Commit ==
    /\ ~gone
    /\ Len(due') > Len(due)
    /\ \A i \in 1..Len(due) : due'[i] = due[i]
    /\ \A i \in 1..Len(due') : due'[i] \in Events /\ ~Logged(due'[i])
    /\ \A i, j \in 1..Len(due') : due'[i] = due'[j] => i = j
    /\ UNCHANGED <<log, gone>>

\* The next event enters the log.
Deliver ==
    /\ due # <<>>
    /\ log' = Append(log, Head(due))
    /\ due' = Tail(due)
    /\ UNCHANGED gone

\* Something else is logged.
Note ==
    /\ Len(log') = Len(log) + 1
    /\ log' = Append(log, log'[Len(log')])
    /\ log'[Len(log')] \notin Events
    /\ UNCHANGED <<due, gone>>

\* The course is deleted.
Delete ==
    /\ ~gone
    /\ due = <<>>
    /\ gone' = TRUE
    /\ UNCHANGED <<log, due>>

Next == Commit \/ Deliver \/ Note \/ Delete

Spec == Init /\ [][Next]_logVars

=============================================================================
