------------------------------ MODULE Telemetry ------------------------------
(***************************************************************************)
(* api-rocky/telemetry.py and telemetry_projection.py: the permanent       *)
(* record of each request to the public API (telemetry_interactions), the  *)
(* counters over all of them (telemetry_current), the projection that      *)
(* derives fields of the latter, and the purge of old records.             *)
(*                                                                         *)
(* A record and the counters are documents of two collections, written by  *)
(* two calls of the store.  Any call may raise, with or without having     *)
(* taken effect; TelemetryStore swallows that.  A process that dies is one *)
(* that takes no further step.                                             *)
(***************************************************************************)
EXTENDS Integers, FiniteSets

CONSTANTS
    Requests,     \* requests to the public API
    Outcomes,     \* those of the four outcomes that are told apart
    Projectors,   \* runs of refresh_current
    Horizon       \* bound on the clock

ASSUME RequestsAssumption == IsFiniteSet(Requests)
ASSUME OutcomesAssumption ==
    "completed" \in Outcomes /\ Outcomes \subseteq {"completed", "rejected", "failed", "timed_out"}
ASSUME HorizonAssumption == Horizon \in Nat

VARIABLES
    record,      \* telemetry_interactions: the record of each request, or Absent
    current,     \* telemetry_current: its counters and updated_at
    handle,      \* the dict that record_received returned to each request
    due,         \* the counter that a call of the store has still to update
    clock,
    projection,  \* where each projection stands, and what it has read
    received,    \* history: the requests that the counters count as received
    settled      \* history: and those that they count as terminal

telemetryVars == <<record, current, handle, due, clock, projection, received, settled>>

Never == -1
Deliveries == {"pending", "completed", "client_disconnected"}
Absent == [state |-> "absent"]
Record(state, outcome, delivery, at) ==
    [state |-> state, outcome |-> outcome, delivery |-> delivery, at |-> at]

\* How a call of the store ends: it returns, it raises without effect, or it
\* raises although it took effect.
Calls == {"done", "lost", "unknown"}
TookEffect(call) == call # "lost"

IsOpen(r) == record[r].state = "received"

TelemetryInit ==
    /\ record = [r \in Requests |-> Absent]
    /\ current = [received |-> 0, terminal |-> 0, active |-> 0, revision |-> 0,
                  updated |-> Never]
    /\ handle = [r \in Requests |-> [persisted |-> FALSE, counted |-> FALSE]]
    /\ due = [r \in Requests |-> "new"]
    /\ clock = 0
    /\ projection = [p \in Projectors |-> [place |-> "idle"]]
    /\ received = {}
    /\ settled = {}

-----------------------------------------------------------------------------
(***************************************************************************)
(* TelemetryStore.  A request makes one call after the other.              *)
(***************************************************************************)
\* record_received inserts the record.
RecordReceived(r, call) ==
    /\ due[r] = "new"
    /\ record' = [record EXCEPT ![r] =
          IF TookEffect(call) THEN Record("received", "none", "none", clock) ELSE @]
    /\ handle' = [handle EXCEPT ![r].persisted = call = "done"]
    /\ due' = [due EXCEPT ![r] = IF call = "done" THEN "received" ELSE "none"]
    /\ UNCHANGED <<current, clock, projection, received, settled>>

\* Then it counts the request.
CountReceived(r, call) ==
    /\ due[r] = "received"
    /\ IF TookEffect(call)
       THEN /\ current' = [current EXCEPT !.received = @ + 1, !.active = @ + 1,
                                          !.revision = @ + 1]
            /\ received' = received \cup {r}
       ELSE UNCHANGED <<current, received>>
    /\ handle' = [handle EXCEPT ![r].counted = call = "done"]
    /\ due' = [due EXCEPT ![r] = "none"]
    /\ UNCHANGED <<record, clock, projection, settled>>

\* Mutant of Matched: a record that is terminal already is written again.
MatchedTerminal(r) == handle[r].persisted /\ record[r] # Absent

\* The filter of the updates that an open record admits.
Matched(r) == handle[r].persisted /\ IsOpen(r)

\* Whether record_terminal, or update_interaction, answers True.
Persists(r, call) == Matched(r) /\ call = "done"

\* Mutant of Counts: a request that was not counted as received is counted.
CountsAlways(r, call) == Persists(r, call)

\* Whether record_terminal goes on to the counters.
Counts(r, call) == Persists(r, call) /\ handle[r].counted

\* record_terminal closes the record if it is still open.
RecordTerminal(r, outcome, delivery, call) ==
    /\ due[r] = "none"
    /\ record' = [record EXCEPT ![r] =
          IF Matched(r) /\ TookEffect(call)
          THEN Record("terminal", outcome, delivery, @.at) ELSE @]
    /\ due' = [due EXCEPT ![r] = IF Counts(r, call) THEN "terminal" ELSE @]
    /\ UNCHANGED <<current, handle, clock, projection, received, settled>>

\* Then it counts the outcome; that this fails is not told to the caller.
CountTerminal(r, call) ==
    /\ due[r] = "terminal"
    /\ IF TookEffect(call)
       THEN /\ current' = [current EXCEPT !.terminal = @ + 1, !.active = @ - 1,
                                          !.revision = @ + 1]
            /\ settled' = settled \cup {r}
       ELSE UNCHANGED <<current, settled>>
    /\ due' = [due EXCEPT ![r] = "none"]
    /\ UNCHANGED <<record, handle, clock, projection, received>>

\* record_delivery, of a completed interaction only.
RecordDelivery(r, status, call) ==
    /\ due[r] = "none"
    /\ record' = [record EXCEPT ![r] =
          IF handle[r].persisted /\ @.state = "terminal" /\ @.outcome = "completed" /\ TookEffect(call)
          THEN [@ EXCEPT !.delivery = status] ELSE @]
    /\ UNCHANGED <<current, handle, due, clock, projection, received, settled>>

-----------------------------------------------------------------------------
(***************************************************************************)
(* refresh_current, in a process of its own, and manage.py purge-requests. *)
(* The derived fields that are left out (users, latency, unresolved        *)
(* requests) are written together with active_requests.                    *)
(***************************************************************************)
RefreshStart(p) ==
    /\ projection[p].place = "idle"
    /\ projection' = [projection EXCEPT ![p] = [place |-> "read", at |-> clock]]
    /\ UNCHANGED <<record, current, handle, due, clock, received, settled>>

\* current.find_one; an update of a later time is left alone.
RefreshRead(p) ==
    /\ projection[p].place = "read"
    /\ projection' = [projection EXCEPT ![p] =
          IF current.updated > @.at THEN [place |-> "idle"]
          ELSE [place |-> "write", at |-> @.at, updated |-> current.updated,
                revision |-> current.revision,
                active |-> current.received - current.terminal]]
    /\ UNCHANGED <<record, current, handle, due, clock, received, settled>>

\* Mutant of Fresh: the revision is not compared.
FreshTime(p) ==
    IF projection[p].updated = Never THEN current.updated = Never
    ELSE current.updated # Never /\ current.updated <= projection[p].at

\* The query of update_one: no counter has moved, and no later projection has
\* written, since the read.
Fresh(p) ==
    /\ current.revision = projection[p].revision
    /\ IF projection[p].updated = Never THEN current.updated = Never
       ELSE current.updated # Never /\ current.updated <= projection[p].at

\* The conditional update; a projection that lost a race gives way.
RefreshWrite(p, call) ==
    /\ projection[p].place = "write"
    /\ current' = IF Fresh(p) /\ TookEffect(call)
                  THEN [current EXCEPT !.active = projection[p].active,
                                       !.updated = projection[p].at]
                  ELSE current
    /\ projection' = [projection EXCEPT ![p] = [place |-> "idle"]]
    /\ UNCHANGED <<record, handle, due, clock, received, settled>>

\* RequestRetention.run deletes records of an earlier day, closed or not.
Purge(r) ==
    /\ record[r] # Absent
    /\ record[r].at < clock
    /\ record' = [record EXCEPT ![r] = Absent]
    /\ UNCHANGED <<current, handle, due, clock, projection, received, settled>>

Tick ==
    /\ clock < Horizon
    /\ clock' = clock + 1
    /\ UNCHANGED <<record, current, handle, due, projection, received, settled>>

\* What happens to the telemetry besides the calls of the requests.
Maintenance ==
    \/ \E p \in Projectors :
          RefreshStart(p) \/ RefreshRead(p) \/ \E call \in Calls : RefreshWrite(p, call)
    \/ \E r \in Requests : Purge(r)
    \/ Tick

-----------------------------------------------------------------------------
\* Here a request may make its calls in any order that begins with
\* record_received; Responses says in which order it does.
TelemetryNext ==
    \/ \E r \in Requests, call \in Calls :
          \/ RecordReceived(r, call) \/ CountReceived(r, call)
          \/ \E outcome \in Outcomes, delivery \in {"none", "pending"} :
                RecordTerminal(r, outcome, delivery, call)
          \/ CountTerminal(r, call)
          \/ \E status \in Deliveries \ {"pending"} : RecordDelivery(r, status, call)
    \/ Maintenance

TelemetrySpec == TelemetryInit /\ [][TelemetryNext]_telemetryVars

-----------------------------------------------------------------------------
(***************************************************************************)
(* Properties                                                              *)
(***************************************************************************)
Records ==
    {Absent} \cup [state : {"received", "terminal"}, outcome : Outcomes \cup {"none"},
                   delivery : Deliveries \cup {"none"}, at : 0..Horizon]

Counters ==
    [received : Nat, terminal : Nat, active : Nat, revision : Nat,
     updated : 0..Horizon \cup {Never}]
Projections ==
    [place : {"idle"}] \cup [place : {"read"}, at : 0..Horizon]
    \cup [place : {"write"}, at : 0..Horizon, updated : 0..Horizon \cup {Never},
          revision : Nat, active : Nat]

\* The collections and the requests hold values of their types; no counter is
\* negative, as refresh_current demands.
TelemetryTypeOK ==
    /\ record \in [Requests -> Records]
    /\ current \in Counters
    /\ handle \in [Requests -> [persisted : BOOLEAN, counted : BOOLEAN]]
    /\ due \in [Requests -> {"new", "received", "none", "terminal"}]
    /\ clock \in 0..Horizon
    /\ projection \in [Projectors -> Projections]
    /\ received \subseteq Requests /\ settled \subseteq Requests

\* The counters count every request at most once, and none as terminal that
\* they did not count as received: refresh_current never finds more terminal
\* than received interactions, and no projection undoes a count.
CountersAgree ==
    /\ settled \subseteq received
    /\ current.received = Cardinality(received)
    /\ current.terminal = Cardinality(settled)
    /\ current.active = current.received - current.terminal

\* active_requests never loses a request that is counted and still open,
\* whatever calls fail and whichever of the two documents is behind.
OpenAreActive ==
    Cardinality({r \in received : IsOpen(r)}) <= current.active

\* What record_terminal has written once stays: a second attempt, with another
\* outcome, of a caller who was told that the first one failed changes nothing.
OutcomeIsFinal ==
    [][\A r \in Requests :
          record[r].state = "terminal" /\ record'[r] # Absent =>
              record'[r].state = "terminal" /\ record'[r].outcome = record[r].outcome]_telemetryVars

\* A projection that started earlier never overwrites a later one.
RefreshedForward == [][current'.updated >= current.updated]_telemetryVars

\* A request that is counted was told so, or nobody will settle it; one that is
\* settled is closed.
CountedInOrder ==
    \A r \in Requests :
        /\ due[r] = "new" =>
              r \notin received /\ ~handle[r].persisted /\ record[r] = Absent
        /\ due[r] = "received" =>
              r \notin received /\ ~handle[r].counted /\ handle[r].persisted
        /\ handle[r].counted => r \in received /\ handle[r].persisted
        /\ due[r] = "terminal" => handle[r].counted /\ ~IsOpen(r) /\ r \notin settled
        /\ r \in settled => handle[r].counted /\ ~IsOpen(r)

\* What a projection will write while no counter moves is right.
ReadsAgree ==
    \A p \in Projectors :
        /\ projection[p].place # "idle" => projection[p].at <= clock
        /\ projection[p].place = "write" =>
              /\ projection[p].revision <= current.revision
              /\ projection[p].revision = current.revision =>
                    projection[p].active = current.active

\* What every step of the telemetry preserves; the proofs start from it.
TelemetryInvariant ==
    TelemetryTypeOK /\ CountedInOrder /\ CountersAgree /\ ReadsAgree /\ OpenAreActive

=============================================================================
