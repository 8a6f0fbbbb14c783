--------------------------- MODULE ResponsesProofs ---------------------------
(***************************************************************************)
(* Proofs about Telemetry and about its caller, Responses.                 *)
(*                                                                         *)
(* First the telemetry alone, for every number of requests and projections *)
(* and every failure of the store.  The handlers of Responses use it only  *)
(* as Telemetry lets a request use it, so what is shown of the records and *)
(* the counters holds of them.  On that rests the invariant of what a      *)
(* request has stored, recorded and answered at each of its steps, and     *)
(* what Responses promises follows.                                        *)
(***************************************************************************)
EXTENDS Responses, FiniteSetTheorems, TLAPS

-----------------------------------------------------------------------------
LEMMA ReceivedSize ==
    ASSUME TelemetryTypeOK
    PROVE  /\ IsFiniteSet(received) /\ Cardinality(received) \in Nat
           /\ IsFiniteSet(settled) /\ Cardinality(settled) \in Nat
BY RequestsAssumption, FS_Subset, FS_CardinalityType DEF TelemetryTypeOK

LEMMA DisjointParts ==
    ASSUME NEW S, IsFiniteSet(S), NEW T \in SUBSET S, NEW U \in SUBSET S, T \cap U = {}
    PROVE  Cardinality(U) <= Cardinality(S) - Cardinality(T)
<1>1. IsFiniteSet(T) /\ IsFiniteSet(U) /\ T \cup U \in SUBSET S
  BY FS_Subset
<1>2. Cardinality(T \cup U) = Cardinality(T) + Cardinality(U) - Cardinality({})
  BY <1>1, FS_Union
<1>3. Cardinality(T \cup U) <= Cardinality(S) /\ IsFiniteSet(T \cup U)
  BY <1>1, FS_Subset
<1>4. /\ Cardinality(T) \in Nat /\ Cardinality(U) \in Nat /\ Cardinality(S) \in Nat
      /\ Cardinality(T \cup U) \in Nat
  BY <1>1, <1>3, FS_CardinalityType
<1> QED BY <1>2, <1>3, <1>4, FS_EmptySet

(* A counted request that is still open is not among the settled ones, so  *)
(* the counters cover it.                                                  *)
LEMMA OpenCovered ==
    TelemetryTypeOK /\ CountedInOrder /\ CountersAgree => OpenAreActive
<1> SUFFICES ASSUME TelemetryTypeOK, CountedInOrder, CountersAgree PROVE OpenAreActive
  OBVIOUS
<1> DEFINE Open == {r \in received : IsOpen(r)}
<1>1. Open \in SUBSET received /\ settled \in SUBSET received /\ settled \cap Open = {}
  BY DEF CountedInOrder, CountersAgree, TelemetryTypeOK
<1>2. Cardinality(Open) <= Cardinality(received) - Cardinality(settled)
  BY <1>1, ReceivedSize, DisjointParts
<1> QED BY <1>2 DEF OpenAreActive, CountersAgree

LEMMA InvariantFromParts ==
    TelemetryTypeOK' /\ CountedInOrder' /\ CountersAgree' /\ ReadsAgree' => TelemetryInvariant'
<1>1. TelemetryTypeOK' /\ CountedInOrder' /\ CountersAgree' => OpenAreActive'
  BY OpenCovered, PTL
<1> QED BY <1>1 DEF TelemetryInvariant

(* What the two counts do to the counters.                                 *)
LEMMA Counted ==
    ASSUME TelemetryTypeOK
    PROVE  /\ current' = [current EXCEPT !.received = @ + 1, !.active = @ + 1, !.revision = @ + 1]
              => /\ current'.received = current.received + 1
                 /\ current'.active = current.active + 1
                 /\ current'.revision = current.revision + 1
                 /\ current'.terminal = current.terminal /\ current'.updated = current.updated
                 /\ current' \in Counters
           /\ current' = [current EXCEPT !.terminal = @ + 1, !.active = @ - 1, !.revision = @ + 1]
              => /\ current'.terminal = current.terminal + 1
                 /\ current'.active = current.active - 1
                 /\ current'.revision = current.revision + 1
                 /\ current'.received = current.received /\ current'.updated = current.updated
                 /\ current.active - 1 \in Nat => current' \in Counters
<1>1. current \in Counters
  BY DEF TelemetryTypeOK
<1>2. \A f \in {"received", "terminal", "active", "revision"} : current[f] \in Nat
  BY <1>1 DEF Counters
<1>3. current = [received |-> current.received, terminal |-> current.terminal,
                 active |-> current.active, revision |-> current.revision,
                 updated |-> current.updated]
  BY <1>1 DEF Counters
<1>4. current.updated \in 0..Horizon \cup {Never}
  BY <1>1 DEF Counters
<1>5. ASSUME current' = [current EXCEPT !.received = @ + 1, !.active = @ + 1,
                                        !.revision = @ + 1]
      PROVE  current' = [received |-> current.received + 1, terminal |-> current.terminal,
                         active |-> current.active + 1, revision |-> current.revision + 1,
                         updated |-> current.updated]
  BY <1>3, <1>5
<1>6. ASSUME current' = [current EXCEPT !.terminal = @ + 1, !.active = @ - 1,
                                        !.revision = @ + 1]
      PROVE  current' = [received |-> current.received, terminal |-> current.terminal + 1,
                         active |-> current.active - 1, revision |-> current.revision + 1,
                         updated |-> current.updated]
  BY <1>3, <1>6
<1>7. /\ current.received \in Nat /\ current.terminal \in Nat /\ current.active \in Nat
      /\ current.revision \in Nat
  BY <1>2
<1>8. ASSUME current' = [current EXCEPT !.received = @ + 1, !.active = @ + 1,
                                        !.revision = @ + 1]
      PROVE  current' \in Counters
  <2>1. /\ current.received + 1 \in Nat /\ current.active + 1 \in Nat
        /\ current.revision + 1 \in Nat
    BY <1>7
  <2> QED BY <1>4, <1>5, <1>7, <1>8, <2>1 DEF Counters
<1>9. ASSUME current.active - 1 \in Nat,
             current' = [current EXCEPT !.terminal = @ + 1, !.active = @ - 1,
                                        !.revision = @ + 1]
      PROVE  current' \in Counters
  <2>1. current.terminal + 1 \in Nat /\ current.revision + 1 \in Nat
    BY <1>7
  <2> QED BY <1>4, <1>6, <1>7, <1>9, <2>1 DEF Counters
<1> QED BY <1>5, <1>6, <1>8, <1>9

(* What a call leaves alone that moves neither a counter nor a projection. *)
LEMMA CountersKept ==
    ASSUME CountersAgree, UNCHANGED <<current, received, settled>>
    PROVE  CountersAgree'
BY DEF CountersAgree

LEMMA ReadsKept ==
    ASSUME ReadsAgree, UNCHANGED <<current, projection, clock>>
    PROVE  ReadsAgree'
BY DEF ReadsAgree

LEMMA InitTelemetryInvariant == TelemetryInit => TelemetryInvariant
<1> SUFFICES ASSUME TelemetryInit PROVE TelemetryInvariant
  OBVIOUS
<1> USE DEF TelemetryInit
<1>1. TelemetryTypeOK
  <2>1. record \in [Requests -> Records]
    BY DEF Records
  <2>2. projection \in [Projectors -> Projections]
    BY DEF Projections
  <2>3. current \in Counters
    BY DEF Counters
  <2> QED BY <2>1, <2>2, <2>3, HorizonAssumption DEF TelemetryTypeOK
<1>2. CountedInOrder
  BY DEF CountedInOrder
<1>3. CountersAgree
  BY FS_EmptySet DEF CountersAgree
<1>4. ReadsAgree
  BY DEF ReadsAgree
<1> QED BY <1>1, <1>2, <1>3, <1>4, OpenCovered DEF TelemetryInvariant

-----------------------------------------------------------------------------
LEMMA RecordReceivedStep ==
    ASSUME TelemetryInvariant, NEW r \in Requests, NEW call \in Calls, RecordReceived(r, call)
    PROVE  TelemetryInvariant'
<1> USE DEF TelemetryInvariant
<1>1. /\ due[r] = "new"
      /\ record' \in {record, [record EXCEPT ![r] = Record("received", "none", "none", clock)]}
      /\ \/ handle' = [handle EXCEPT ![r].persisted = TRUE]
         \/ handle' = [handle EXCEPT ![r].persisted = FALSE] /\ due' = [due EXCEPT ![r] = "none"]
      /\ due' \in {[due EXCEPT ![r] = "received"], [due EXCEPT ![r] = "none"]}
      /\ UNCHANGED <<current, clock, projection, received, settled>>
  <2>1. [record EXCEPT ![r] = record[r]] = record
    BY DEF TelemetryTypeOK
  <2>2. CASE call = "done"
    BY <2>1, <2>2 DEF RecordReceived
  <2>3. CASE call # "done"
    BY <2>1, <2>3 DEF RecordReceived
  <2> QED BY <2>2, <2>3
<1>2. r \notin received /\ r \notin settled
  BY <1>1 DEF CountedInOrder, CountersAgree
<1>3. TelemetryTypeOK'
  <2>1. Record("received", "none", "none", clock) \in Records
    BY DEF Record, Records, TelemetryTypeOK
  <2>2. record' \in [Requests -> Records]
    BY <1>1, <2>1 DEF TelemetryTypeOK
  <2>3. handle' \in [Requests -> [persisted : BOOLEAN, counted : BOOLEAN]]
    <3>1. handle[r] \in [persisted : BOOLEAN, counted : BOOLEAN]
      BY DEF TelemetryTypeOK
    <3>2. /\ [handle[r] EXCEPT !.persisted = TRUE] \in [persisted : BOOLEAN, counted : BOOLEAN]
          /\ [handle[r] EXCEPT !.persisted = FALSE] \in [persisted : BOOLEAN, counted : BOOLEAN]
      BY <3>1
    <3> QED BY <1>1, <3>2 DEF TelemetryTypeOK
  <2>4. due' \in [Requests -> {"new", "received", "none", "terminal"}]
    BY <1>1 DEF TelemetryTypeOK
  <2> QED BY <1>1, <2>2, <2>3, <2>4 DEF TelemetryTypeOK
<1>4. CountedInOrder'
  <2>1. ~handle[r].counted
    BY <1>2 DEF CountedInOrder
  <2>2. ~handle'[r].counted /\ due'[r] \in {"received", "none"}
    BY <1>1, <2>1 DEF TelemetryTypeOK
  <2>4. due'[r] = "received" => handle'[r].persisted
    BY <1>1 DEF TelemetryTypeOK
  <2>3. \A q \in Requests : q # r =>
           handle'[q] = handle[q] /\ due'[q] = due[q] /\ record'[q] = record[q]
    BY <1>1 DEF TelemetryTypeOK
  <2> QED BY <1>1, <1>2, <2>2, <2>3, <2>4 DEF CountedInOrder, IsOpen
<1>5. CountersAgree' /\ ReadsAgree'
  BY <1>1, CountersKept, ReadsKept
<1> QED BY <1>3, <1>4, <1>5, InvariantFromParts

LEMMA CountReceivedStep ==
    ASSUME TelemetryInvariant, NEW r \in Requests, NEW call \in Calls, CountReceived(r, call)
    PROVE  TelemetryInvariant'
<1> USE DEF TelemetryInvariant
<1>1. /\ due[r] = "received"
      /\ \/ call = "done" /\ handle' = [handle EXCEPT ![r].counted = TRUE]
         \/ call # "done" /\ handle' = [handle EXCEPT ![r].counted = FALSE]
      /\ due' = [due EXCEPT ![r] = "none"]
      /\ UNCHANGED <<record, clock, projection, settled>>
      /\ IF TookEffect(call)
         THEN /\ current' = [current EXCEPT !.received = @ + 1, !.active = @ + 1, !.revision = @ + 1]
              /\ received' = received \cup {r}
         ELSE UNCHANGED <<current, received>>
  <2>1. CASE call = "done"
    BY <2>1 DEF CountReceived
  <2>2. CASE call # "done"
    BY <2>2 DEF CountReceived
  <2> QED BY <2>1, <2>2
<1>2. r \notin received /\ r \notin settled /\ ~handle[r].counted
  BY <1>1 DEF CountedInOrder, CountersAgree
<1>3. \/ UNCHANGED <<current, received>>
      \/ /\ current'.received = current.received + 1 /\ current'.active = current.active + 1
         /\ current'.revision = current.revision + 1 /\ current'.terminal = current.terminal
         /\ current'.updated = current.updated
         /\ received' = received \cup {r}
         /\ current' \in Counters
  <2>1. CASE TookEffect(call)
    BY <1>1, <2>1, Counted
  <2>2. CASE ~TookEffect(call)
    BY <1>1, <2>2
  <2> QED BY <2>1, <2>2
<1>4. TelemetryTypeOK'
  <2>1. handle' \in [Requests -> [persisted : BOOLEAN, counted : BOOLEAN]]
    BY <1>1 DEF TelemetryTypeOK
  <2>2. due' \in [Requests -> {"new", "received", "none", "terminal"}]
    BY <1>1 DEF TelemetryTypeOK
  <2>3. received' \subseteq Requests
    BY <1>3 DEF TelemetryTypeOK
  <2> QED BY <1>1, <1>3, <2>1, <2>2, <2>3 DEF TelemetryTypeOK
<1>5. CountedInOrder'
  <2>1. handle'[r].counted \in BOOLEAN /\ (handle'[r].counted => call = "done") /\ due'[r] = "none" /\ handle'[r].persisted = handle[r].persisted
    BY <1>1 DEF TelemetryTypeOK
  <2>2. \A q \in Requests : q # r => handle'[q] = handle[q] /\ due'[q] = due[q]
    BY <1>1 DEF TelemetryTypeOK
  <2>3. \A q \in Requests : q # r => (q \in received' <=> q \in received)
    BY <1>3
  <2>4. call = "done" => r \in received'
    BY <1>1 DEF TookEffect
  <2>5. handle[r].persisted
    BY <1>1 DEF CountedInOrder
  <2> QED BY <1>1, <1>2, <2>1, <2>2, <2>3, <2>4, <2>5 DEF CountedInOrder, IsOpen
<1>6. CountersAgree'
  <2>1. CASE UNCHANGED <<current, received>>
    BY <1>1, <2>1, CountersKept
  <2>2. CASE /\ current'.received = current.received + 1 /\ current'.active = current.active + 1
             /\ current'.terminal = current.terminal /\ received' = received \cup {r}
    <3>1. Cardinality(received') = Cardinality(received) + 1
      BY <1>2, <2>2, ReceivedSize, FS_AddElement
    <3> QED BY <1>1, <2>2, <3>1, ReceivedSize DEF CountersAgree
  <2> QED BY <1>3, <2>1, <2>2
<1>7. ReadsAgree'
  BY <1>1, <1>3 DEF ReadsAgree, TelemetryTypeOK, Counters, Projections
<1> QED BY <1>4, <1>5, <1>6, <1>7, InvariantFromParts

LEMMA RecordTerminalStep ==
    ASSUME TelemetryInvariant, NEW r \in Requests, NEW call \in Calls,
           NEW outcome \in Outcomes, NEW delivery \in {"none", "pending"},
           RecordTerminal(r, outcome, delivery, call)
    PROVE  TelemetryInvariant'
<1> USE DEF TelemetryInvariant
<1>1. /\ due[r] = "none"
      /\ UNCHANGED <<current, handle, clock, projection, received, settled>>
      /\ record' = record \/
            (IsOpen(r) /\ record' = [record EXCEPT ![r] = Record("terminal", outcome, delivery, record[r].at)])
      /\ due' = due \/
            (handle[r].counted /\ IsOpen(r) /\ due' = [due EXCEPT ![r] = "terminal"]
             /\ record' = [record EXCEPT ![r] = Record("terminal", outcome, delivery, record[r].at)])
  <2>1. [record EXCEPT ![r] = record[r]] = record /\ [due EXCEPT ![r] = due[r]] = due
    BY DEF TelemetryTypeOK
  <2> QED BY <2>1 DEF RecordTerminal, Matched, Counts, Persists, TookEffect, Calls
<1>2. TelemetryTypeOK'
  <2>1. IsOpen(r) => Record("terminal", outcome, delivery, record[r].at) \in Records
    <3>1. ASSUME IsOpen(r) PROVE record[r].at \in 0..Horizon
      <4>1. record[r] \in Records /\ record[r].state = "received"
        BY <3>1 DEF TelemetryTypeOK, IsOpen
      <4> QED BY <4>1 DEF Records, Absent
    <3> QED BY <3>1 DEF Record, Records, Deliveries
  <2>2. record' \in [Requests -> Records]
    BY <1>1, <2>1 DEF TelemetryTypeOK
  <2>3. due' \in [Requests -> {"new", "received", "none", "terminal"}]
    BY <1>1 DEF TelemetryTypeOK
  <2> QED BY <1>1, <2>2, <2>3 DEF TelemetryTypeOK
<1>3. CountedInOrder'
  <2>1. \A q \in Requests : q # r => due'[q] = due[q] /\ record'[q] = record[q]
    BY <1>1 DEF TelemetryTypeOK
  <2>2. IsOpen(r) => r \notin settled
    BY DEF CountedInOrder
  <2>3. record' # record => ~IsOpen(r)'
    BY <1>1 DEF TelemetryTypeOK, IsOpen, Record
  <2>4. due' # due => due'[r] = "terminal" /\ ~IsOpen(r)' /\ handle[r].counted /\ r \notin settled
    BY <1>1, <2>2 DEF TelemetryTypeOK, IsOpen, Record
  <2>5. record' = record => (IsOpen(r)' <=> IsOpen(r))
    BY DEF IsOpen
  <2> QED BY <1>1, <2>1, <2>3, <2>4, <2>5 DEF CountedInOrder, IsOpen
<1>4. CountersAgree' /\ ReadsAgree'
  BY <1>1, CountersKept, ReadsKept
<1> QED BY <1>2, <1>3, <1>4, InvariantFromParts

LEMMA CountTerminalStep ==
    ASSUME TelemetryInvariant, NEW r \in Requests, NEW call \in Calls, CountTerminal(r, call)
    PROVE  TelemetryInvariant'
<1> USE DEF TelemetryInvariant
<1>1. /\ due[r] = "terminal"
      /\ due' = [due EXCEPT ![r] = "none"]
      /\ UNCHANGED <<record, handle, clock, projection, received>>
      /\ IF TookEffect(call)
         THEN /\ current' = [current EXCEPT !.terminal = @ + 1, !.active = @ - 1, !.revision = @ + 1]
              /\ settled' = settled \cup {r}
         ELSE UNCHANGED <<current, settled>>
  BY DEF CountTerminal
<1>2. r \in received /\ r \notin settled /\ handle[r].counted /\ ~IsOpen(r)
  BY <1>1 DEF CountedInOrder
<1>3. current.active - 1 \in Nat
  <2>1. Cardinality(settled \cup {r}) = Cardinality(settled) + 1
    BY <1>2, ReceivedSize, FS_AddElement
  <2>2. Cardinality(settled \cup {r}) <= Cardinality(received)
    BY <1>2, ReceivedSize, FS_Subset DEF CountersAgree
  <2> QED BY <2>1, <2>2, ReceivedSize DEF CountersAgree
<1>4. \/ UNCHANGED <<current, settled>>
      \/ /\ current'.received = current.received /\ current'.active = current.active - 1
         /\ current'.revision = current.revision + 1 /\ current'.terminal = current.terminal + 1
         /\ current'.updated = current.updated
         /\ settled' = settled \cup {r}
         /\ current' \in Counters
  <2>1. CASE TookEffect(call)
    BY <1>1, <1>3, <2>1, Counted
  <2>2. CASE ~TookEffect(call)
    BY <1>1, <2>2
  <2> QED BY <2>1, <2>2
<1>5. TelemetryTypeOK'
  <2>1. due' \in [Requests -> {"new", "received", "none", "terminal"}]
    BY <1>1 DEF TelemetryTypeOK
  <2>2. settled' \subseteq Requests
    BY <1>4 DEF TelemetryTypeOK
  <2> QED BY <1>1, <1>4, <2>1, <2>2 DEF TelemetryTypeOK
<1>6. CountedInOrder'
  <2>1. due'[r] = "none" /\ \A q \in Requests : q # r => due'[q] = due[q]
    BY <1>1 DEF TelemetryTypeOK
  <2>2. \A q \in Requests : q # r => (q \in settled' <=> q \in settled)
    BY <1>4
  <2> QED BY <1>1, <1>2, <2>1, <2>2 DEF CountedInOrder, IsOpen
<1>7. CountersAgree'
  <2>1. CASE UNCHANGED <<current, settled>>
    BY <1>1, <2>1, CountersKept
  <2>2. CASE /\ current'.received = current.received /\ current'.active = current.active - 1
             /\ current'.terminal = current.terminal + 1 /\ settled' = settled \cup {r}
    <3>1. Cardinality(settled') = Cardinality(settled) + 1
      BY <1>2, <2>2, ReceivedSize, FS_AddElement
    <3> QED BY <1>1, <1>2, <2>2, <3>1, ReceivedSize DEF CountersAgree
  <2> QED BY <1>4, <2>1, <2>2
<1>8. ReadsAgree'
  BY <1>1, <1>4 DEF ReadsAgree, TelemetryTypeOK, Counters, Projections
<1> QED BY <1>5, <1>6, <1>7, <1>8, InvariantFromParts

LEMMA RecordDeliveryStep ==
    ASSUME TelemetryInvariant, NEW r \in Requests, NEW call \in Calls,
           NEW status \in Deliveries, RecordDelivery(r, status, call)
    PROVE  TelemetryInvariant'
<1> USE DEF TelemetryInvariant
<1>1. /\ UNCHANGED <<current, handle, due, clock, projection, received, settled>>
      /\ record' = record \/
            (record[r].state = "terminal" /\ record' = [record EXCEPT ![r].delivery = status])
  <2>1. [record EXCEPT ![r] = record[r]] = record
    BY DEF TelemetryTypeOK
  <2> QED BY <2>1 DEF RecordDelivery
<1>2. record[r].state = "terminal" =>
         /\ [record[r] EXCEPT !.delivery = status] \in Records
         /\ [record[r] EXCEPT !.delivery = status].state = "terminal"
  <2>1. record[r] \in Records
    BY DEF TelemetryTypeOK
  <2> QED BY <2>1 DEF Records, Absent
<1>3. TelemetryTypeOK'
  <2>1. record' \in [Requests -> Records]
    BY <1>1, <1>2 DEF TelemetryTypeOK
  <2> QED BY <1>1, <2>1 DEF TelemetryTypeOK
<1>4. \A q \in Requests :
         (IsOpen(q)' <=> IsOpen(q)) /\ (record[q] = Absent => record'[q] = Absent)
  BY <1>1, <1>2 DEF IsOpen, TelemetryTypeOK, Absent
<1>5. CountedInOrder' /\ CountersAgree' /\ ReadsAgree'
  BY <1>1, <1>4, CountersKept, ReadsKept DEF CountedInOrder
<1> QED BY <1>3, <1>5, InvariantFromParts

-----------------------------------------------------------------------------
LEMMA RefreshReadStep ==
    ASSUME TelemetryInvariant, NEW p \in Projectors, RefreshStart(p) \/ RefreshRead(p)
    PROVE  TelemetryInvariant'
<1> USE DEF TelemetryInvariant
<1>1. /\ UNCHANGED <<record, current, handle, due, clock, received, settled>>
      /\ \/ projection' = [projection EXCEPT ![p] = [place |-> "idle"]]
         \/ projection' = [projection EXCEPT ![p] = [place |-> "read", at |-> clock]]
         \/ /\ projection[p].place = "read"
            /\ projection' = [projection EXCEPT ![p] =
                 [place |-> "write", at |-> projection[p].at, updated |-> current.updated,
                  revision |-> current.revision,
                  active |-> current.received - current.terminal]]
  BY DEF RefreshStart, RefreshRead, TelemetryTypeOK
<1>2. current.received - current.terminal = current.active /\ current.active \in Nat
      /\ current.revision \in Nat /\ current.updated \in 0..Horizon \cup {Never}
  BY DEF CountersAgree, TelemetryTypeOK, Counters
<1>3. projection[p].place = "read" => projection[p].at \in 0..Horizon
  <2>1. projection[p] \in Projections
    BY DEF TelemetryTypeOK
  <2> QED BY <2>1 DEF Projections
<1>4. TelemetryTypeOK'
  <2>1. projection' \in [Projectors -> Projections]
    BY <1>1, <1>2, <1>3 DEF TelemetryTypeOK, Projections
  <2> QED BY <1>1, <2>1 DEF TelemetryTypeOK
<1>5. ReadsAgree'
  <2>1. \A o \in Projectors : o # p => projection'[o] = projection[o]
    BY <1>1 DEF TelemetryTypeOK
  <2>2. projection[p].place = "read" => projection[p].at <= clock
    BY DEF ReadsAgree
  <2>3. \/ projection'[p] = [place |-> "idle"]
        \/ projection'[p] = [place |-> "read", at |-> clock]
        \/ /\ projection[p].place = "read"
           /\ projection'[p] = [place |-> "write", at |-> projection[p].at,
                 updated |-> current.updated, revision |-> current.revision,
                 active |-> current.received - current.terminal]
    BY <1>1 DEF TelemetryTypeOK
  <2>4. /\ projection'[p].place # "idle" => projection'[p].at <= clock
        /\ projection'[p].place = "write" =>
              projection'[p].revision = current.revision /\ projection'[p].active = current.active
    BY <1>2, <2>2, <2>3 DEF TelemetryTypeOK
  <2> QED BY <1>1, <1>2, <2>1, <2>4 DEF ReadsAgree
<1>6. CountedInOrder' /\ CountersAgree'
  BY <1>1, CountersKept DEF CountedInOrder, IsOpen
<1> QED BY <1>4, <1>5, <1>6, InvariantFromParts

LEMMA RefreshWriteStep ==
    ASSUME TelemetryInvariant, NEW p \in Projectors, NEW call \in Calls, RefreshWrite(p, call)
    PROVE  TelemetryInvariant'
<1> USE DEF TelemetryInvariant
<1>1. /\ projection[p].place = "write"
      /\ projection' = [projection EXCEPT ![p] = [place |-> "idle"]]
      /\ UNCHANGED <<record, handle, due, clock, received, settled>>
      /\ current' = current \/
            (Fresh(p) /\ current' = [current EXCEPT !.active = projection[p].active,
                                                   !.updated = projection[p].at])
  BY DEF RefreshWrite
<1>2. projection[p].at \in 0..Horizon
  <2>1. projection[p] \in Projections
    BY DEF TelemetryTypeOK
  <2> QED BY <1>1, <2>1 DEF Projections
<1>3. Fresh(p) => projection[p].active = current.active
  BY <1>1 DEF Fresh, ReadsAgree
<1>4. /\ current'.received = current.received /\ current'.terminal = current.terminal
      /\ current'.active = current.active /\ current'.revision = current.revision
      /\ current' \in Counters
  <2>1. current \in Counters
    BY DEF TelemetryTypeOK
  <2> QED BY <1>1, <1>2, <1>3, <2>1 DEF Counters
<1>5. TelemetryTypeOK'
  <2>1. projection' \in [Projectors -> Projections]
    BY <1>1 DEF TelemetryTypeOK, Projections
  <2> QED BY <1>1, <1>4, <2>1 DEF TelemetryTypeOK
<1>6. CountedInOrder' /\ CountersAgree'
  BY <1>1, <1>4 DEF CountedInOrder, IsOpen, CountersAgree
<1>7. ReadsAgree'
  BY <1>1, <1>4 DEF ReadsAgree, TelemetryTypeOK, Counters, Projections
<1> QED BY <1>5, <1>6, <1>7, InvariantFromParts

LEMMA PurgeStep ==
    ASSUME TelemetryInvariant, NEW r \in Requests, Purge(r)
    PROVE  TelemetryInvariant'
<1> USE DEF TelemetryInvariant
<1>1. /\ record' = [record EXCEPT ![r] = Absent]
      /\ UNCHANGED <<current, handle, due, clock, projection, received, settled>>
  BY DEF Purge
<1>2. TelemetryTypeOK'
  <2>1. record' \in [Requests -> Records]
    BY <1>1 DEF TelemetryTypeOK, Records
  <2> QED BY <1>1, <2>1 DEF TelemetryTypeOK
<1>3. \A q \in Requests :
         (IsOpen(q)' => IsOpen(q)) /\ (record[q] = Absent => record'[q] = Absent)
  BY <1>1 DEF IsOpen, TelemetryTypeOK, Absent
<1>4. CountedInOrder' /\ CountersAgree' /\ ReadsAgree'
  BY <1>1, <1>3, CountersKept, ReadsKept DEF CountedInOrder
<1> QED BY <1>2, <1>4, InvariantFromParts

LEMMA TickStep ==
    ASSUME TelemetryInvariant, Tick
    PROVE  TelemetryInvariant'
<1> USE DEF TelemetryInvariant
<1>1. /\ clock < Horizon /\ clock' = clock + 1
      /\ UNCHANGED <<record, current, handle, due, projection, received, settled>>
  BY DEF Tick
<1>2. TelemetryTypeOK'
  BY <1>1, HorizonAssumption DEF TelemetryTypeOK
<1>3. CountedInOrder' /\ CountersAgree'
  BY <1>1, CountersKept DEF CountedInOrder, IsOpen
<1>4. ReadsAgree'
  <2>1. \A p \in Projectors : projection[p].place # "idle" => projection[p].at \in 0..Horizon
    <3>1. \A p \in Projectors : projection[p] \in Projections
      BY DEF TelemetryTypeOK
    <3> QED BY <3>1 DEF Projections
  <2> QED BY <1>1, <2>1, HorizonAssumption DEF ReadsAgree, TelemetryTypeOK, Counters, Projections
<1> QED BY <1>2, <1>3, <1>4, InvariantFromParts

LEMMA StutterStep ==
    ASSUME TelemetryInvariant, UNCHANGED telemetryVars
    PROVE  TelemetryInvariant'
<1> USE DEF telemetryVars, TelemetryInvariant
<1>1. TelemetryTypeOK' /\ CountedInOrder' /\ CountersAgree' /\ ReadsAgree'
  BY CountersKept, ReadsKept DEF TelemetryTypeOK, CountedInOrder, IsOpen
<1> QED BY <1>1, InvariantFromParts

LEMMA NextTelemetryInvariant ==
    TelemetryInvariant /\ [TelemetryNext]_telemetryVars => TelemetryInvariant'
<1> SUFFICES ASSUME TelemetryInvariant, [TelemetryNext]_telemetryVars PROVE TelemetryInvariant'
  OBVIOUS
<1>1. ASSUME NEW r \in Requests, NEW call \in Calls,
             \/ RecordReceived(r, call) \/ CountReceived(r, call)
             \/ \E outcome \in Outcomes, delivery \in {"none", "pending"} :
                   RecordTerminal(r, outcome, delivery, call)
             \/ CountTerminal(r, call)
             \/ \E status \in Deliveries \ {"pending"} : RecordDelivery(r, status, call)
      PROVE  TelemetryInvariant'
  BY <1>1, RecordReceivedStep, CountReceivedStep, RecordTerminalStep, CountTerminalStep,
     RecordDeliveryStep
<1>2. ASSUME Maintenance PROVE TelemetryInvariant'
  BY <1>2, RefreshReadStep, RefreshWriteStep, PurgeStep, TickStep DEF Maintenance
<1> QED BY <1>1, <1>2, StutterStep DEF TelemetryNext

-----------------------------------------------------------------------------
(* The invariant of the telemetry, for any number of requests and          *)
(* projections, whatever calls of the store fail.                          *)
THEOREM TelemetryCorrect == TelemetrySpec => []TelemetryInvariant
BY InitTelemetryInvariant, NextTelemetryInvariant, PTL DEF TelemetrySpec

(* The collections keep their types, and no counter becomes negative.      *)
THEOREM TelemetryTypeCorrect == TelemetrySpec => []TelemetryTypeOK
<1>1. TelemetryInvariant => TelemetryTypeOK
  BY DEF TelemetryInvariant
<1> QED BY <1>1, TelemetryCorrect, PTL

(* Every request is counted at most once, and none as settled that was not *)
(* counted as received.                                                    *)
THEOREM CountersAlwaysAgree == TelemetrySpec => []CountersAgree
<1>1. TelemetryInvariant => CountersAgree
  BY DEF TelemetryInvariant
<1> QED BY <1>1, TelemetryCorrect, PTL

(* active_requests covers every request that is counted and open.          *)
THEOREM ActiveCoversOpen == TelemetrySpec => []OpenAreActive
<1>1. TelemetryInvariant => OpenAreActive
  BY DEF TelemetryInvariant
<1> QED BY <1>1, TelemetryCorrect, PTL

(* The first terminal outcome of a record is its last.                     *)
THEOREM OutcomesAreFinal == TelemetrySpec => OutcomeIsFinal
<1> DEFINE Final == \A r \in Requests :
               record[r].state = "terminal" /\ record'[r] # Absent =>
                   record'[r].state = "terminal" /\ record'[r].outcome = record[r].outcome
<1>1. TelemetryInvariant /\ [TelemetryNext]_telemetryVars => [Final]_telemetryVars
  <2> SUFFICES ASSUME TelemetryInvariant, TelemetryNext, NEW r \in Requests,
                      record[r].state = "terminal", record'[r] # Absent
               PROVE  record'[r].state = "terminal" /\ record'[r].outcome = record[r].outcome
    OBVIOUS
  <2>1. record \in [Requests -> Records] /\ ~IsOpen(r)
    BY DEF TelemetryInvariant, TelemetryTypeOK, IsOpen
  <2>2. ASSUME NEW q \in Requests, NEW call \in Calls, RecordReceived(q, call)
        PROVE  record'[r] = record[r]
    <3>1. q # r
      BY <2>2 DEF RecordReceived, TelemetryInvariant, CountedInOrder, Absent
    <3> QED BY <2>1, <2>2, <3>1 DEF RecordReceived
  <2>3. ASSUME NEW q \in Requests, NEW call \in Calls, NEW outcome, NEW delivery,
               RecordTerminal(q, outcome, delivery, call)
        PROVE  record'[r] = record[r]
    BY <2>1, <2>3 DEF RecordTerminal, Matched
  <2>4. ASSUME NEW q \in Requests, NEW call \in Calls, NEW status, RecordDelivery(q, status, call)
        PROVE  record'[r].state = record[r].state /\ record'[r].outcome = record[r].outcome
    <3>1. record[r] \in [state : {"received", "terminal"}, outcome : Outcomes \cup {"none"},
                         delivery : Deliveries \cup {"none"}, at : 0..Horizon]
      BY <2>1 DEF Records, Absent
    <3>2. record'[r] \in {record[r], [record[r] EXCEPT !.delivery = status]}
      BY <2>1, <2>4 DEF RecordDelivery
    <3> QED BY <3>1, <3>2
  <2>5. ASSUME NEW q \in Requests, Purge(q)
        PROVE  record'[r] = record[r]
    BY <2>1, <2>5 DEF Purge
  <2> QED BY <2>2, <2>3, <2>4, <2>5
          DEF TelemetryNext, Maintenance, CountReceived, CountTerminal, RefreshStart,
              RefreshRead, RefreshWrite, Tick
<1> QED BY <1>1, TelemetryCorrect, PTL DEF TelemetrySpec, OutcomeIsFinal

(* A projection that started earlier never overwrites a later one.         *)
THEOREM RefreshesGoForward == TelemetrySpec => RefreshedForward
<1> DEFINE Forward == current'.updated >= current.updated
<1>1. TelemetryInvariant /\ [TelemetryNext]_telemetryVars => [Forward]_telemetryVars
  <2> SUFFICES ASSUME TelemetryInvariant, TelemetryNext PROVE Forward
    OBVIOUS
  <2>1. current \in Counters /\ projection \in [Projectors -> Projections] /\ TelemetryTypeOK
    BY DEF TelemetryInvariant, TelemetryTypeOK
  <2>2. current.updated \in 0..Horizon \cup {Never}
    BY <2>1 DEF Counters
  <2>3. ASSUME NEW r \in Requests, NEW call \in Calls, CountReceived(r, call) \/ CountTerminal(r, call)
        PROVE  current'.updated = current.updated
    <3>1. CASE TookEffect(call)
      BY <2>1, <2>3, <3>1, Counted DEF CountReceived, CountTerminal
    <3>2. CASE ~TookEffect(call)
      BY <2>3, <3>2 DEF CountReceived, CountTerminal
    <3> QED BY <3>1, <3>2
  <2>4. ASSUME NEW p \in Projectors, NEW call \in Calls, RefreshWrite(p, call)
        PROVE  Forward
    <3>1. projection[p].place = "write" /\ projection[p] \in Projections
      BY <2>1, <2>4 DEF RefreshWrite
    <3>2. projection[p].at \in 0..Horizon
      BY <3>1 DEF Projections
    <3>3. Fresh(p) => current.updated <= projection[p].at
      BY <2>2, <3>2, HorizonAssumption DEF Fresh, Never
    <3>4. \/ current'.updated = current.updated
          \/ Fresh(p) /\ current'.updated = projection[p].at
      BY <2>1, <2>4 DEF RefreshWrite, Counters
    <3> QED BY <2>2, <3>2, <3>3, <3>4, HorizonAssumption DEF Never
  <2>5. UNCHANGED current => Forward
    BY <2>2, HorizonAssumption DEF Never
  <2> QED BY <2>2, <2>3, <2>4, <2>5, HorizonAssumption
          DEF TelemetryNext, Maintenance, RecordReceived, RecordTerminal, RecordDelivery,
              RefreshStart, RefreshRead, Purge, Tick, Never
<1> QED BY <1>1, TelemetryCorrect, PTL DEF TelemetrySpec, RefreshedForward

-----------------------------------------------------------------------------
(***************************************************************************)
(* The handlers of Responses.                                              *)
(***************************************************************************)
(* A call that only stores, and every other step of a handler that makes   *)
(* none of the calls of the telemetry.                                     *)
LEMMA StoresLeaveTelemetry ==
    ASSUME NEW r, NEW call, NEW store, NEW field, NEW value, Stores(r, store, field, value, call)
    PROVE  UNCHANGED telemetryVars
BY DEF Stores, telemetryVars

LEMMA HandlerLeavesTelemetry ==
    ASSUME NEW r \in Requests, NEW call \in Calls, NEW text, NEW incomplete, NEW got,
           \/ Admit(r) \/ Reject(r) \/ LookupFails(r) \/ ModelFails(r) \/ StreamOpens(r)
           \/ ModelAnswers(r, text, incomplete) \/ Enrich(r, call) \/ TouchUser(r, call)
           \/ TouchReply(r, call) \/ TouchCopy(r, call) \/ Answer(r, got) \/ LastFrame(r, got)
           \/ GraniteFails(r) \/ GraniteCompletes(r, incomplete) \/ ClientLeaves(r)
           \/ Delta(r, text)
    PROVE  UNCHANGED telemetryVars
BY DEF Admit, Reject, LookupFails, ModelFails, StreamOpens, ModelAnswers, Enrich, TouchUser,
       TouchReply, TouchCopy, Answer, LastFrame, GraniteFails, GraniteCompletes, ClientLeaves,
       Delta

LEMMA StoringLeavesTelemetry ==
    ASSUME NEW r \in Requests, NEW call \in Calls,
           \/ SaveUser(r, call) \/ MarkModelFailed(r, call) \/ UserSent(r, call)
           \/ SaveReply(r, call) \/ SaveContext(r, call) \/ DropContext(r, call)
           \/ FailUser(r, call) \/ FailReply(r, call) \/ CopyReply(r, call)
    PROVE  UNCHANGED telemetryVars
BY StoresLeaveTelemetry
   DEF SaveUser, MarkModelFailed, UserSent, SaveReply, SaveContext, DropContext, FailUser,
       FailReply, CopyReply

(* The other steps make exactly one call of the telemetry.                 *)
LEMMA CallsAreTelemetry ==
    ASSUME NEW r \in Requests, NEW call \in Calls, NEW outcome \in Outcomes,
           \/ Begin(r, call) \/ CountBegin(r, call) \/ Finish(r, call)
           \/ Fail(r, outcome, call) \/ Close(r, call) \/ CountOutcome(r, call)
    PROVE  TelemetryNext
<1>1. CASE Begin(r, call)
  BY <1>1 DEF Begin, TelemetryNext
<1>2. CASE CountBegin(r, call)
  BY <1>2 DEF CountBegin, TelemetryNext
<1>3. CASE Finish(r, call)
  <2>1. (IF handler[r].incomplete THEN "failed" ELSE "completed") \in Outcomes
    BY FailedAssumption, OutcomesAssumption
  <2>2. (IF Streaming(r) THEN "pending" ELSE "none") \in {"none", "pending"}
    OBVIOUS
  <2>3. RecordTerminal(r, IF handler[r].incomplete THEN "failed" ELSE "completed",
                       IF Streaming(r) THEN "pending" ELSE "none", call)
    BY <1>3 DEF Finish
  <2> QED BY <2>1, <2>2, <2>3 DEF TelemetryNext
<1>4. CASE Fail(r, outcome, call)
  BY <1>4 DEF Fail, TelemetryNext
<1>5. CASE Close(r, call)
  <2>1. (IF handler[r].emitted THEN "completed" ELSE "client_disconnected")
           \in Deliveries \ {"pending"}
    BY DEF Deliveries
  <2>2. RecordDelivery(r, IF handler[r].emitted THEN "completed" ELSE "client_disconnected", call)
    BY <1>5 DEF Close
  <2> QED BY <2>1, <2>2 DEF TelemetryNext
<1>6. CASE CountOutcome(r, call)
  BY <1>6 DEF CountOutcome, TelemetryNext
<1> QED BY <1>1, <1>2, <1>3, <1>4, <1>5, <1>6

LEMMA HandleIsTelemetry ==
    ASSUME NEW r \in Requests, Handle(r)
    PROVE  TelemetryNext \/ UNCHANGED telemetryVars
BY HandlerLeavesTelemetry, StoringLeavesTelemetry, CallsAreTelemetry, OutcomesAssumption
   DEF Handle, Calls

LEMMA ResponsesStep ==
    [ResponsesNext]_responseVars => [TelemetryNext]_telemetryVars
<1> SUFFICES ASSUME [ResponsesNext]_responseVars PROVE [TelemetryNext]_telemetryVars
  OBVIOUS
<1>1. ASSUME NEW r \in Requests,
             \/ Ends(r) \/ ClientLeaves(r) \/ \E text \in {"blank", "some"} : Delta(r, text)
      PROVE  UNCHANGED telemetryVars
  BY <1>1, HandlerLeavesTelemetry DEF Ends, Calls
<1>2. ASSUME Maintenance PROVE TelemetryNext
  BY <1>2 DEF TelemetryNext
<1>3. UNCHANGED responseVars => UNCHANGED telemetryVars
  BY DEF responseVars
<1> QED BY <1>1, <1>2, <1>3, HandleIsTelemetry DEF ResponsesNext

-----------------------------------------------------------------------------
(* The handlers of the responses implement Telemetry.                      *)
THEOREM ResponsesImplementTelemetry == ResponsesSpec => TelemetrySpec
<1>1. ResponsesInit => TelemetryInit
  BY DEF ResponsesInit
<1> QED BY <1>1, ResponsesStep, PTL DEF ResponsesSpec, TelemetrySpec

(* So, whatever the handlers do, every request is counted at most once and *)
(* none as settled that was not counted as received ...                    *)
THEOREM ResponsesKeepCounters == ResponsesSpec => []CountersAgree
BY ResponsesImplementTelemetry, CountersAlwaysAgree, PTL

(* ... and a handler that tries to record a failure, after the call that   *)
(* recorded its success had seemed to fail, does not overwrite it.         *)
THEOREM ResponsesKeepOutcomes == ResponsesSpec => OutcomeIsFinal
BY ResponsesImplementTelemetry, OutcomesAreFinal, PTL

-----------------------------------------------------------------------------
(***************************************************************************)
(* The invariant of one request.                                           *)
(***************************************************************************)
Handlers ==
    [place : Places, user : BOOLEAN, reply : BOOLEAN, context : BOOLEAN,
     text : {"none", "blank", "some"}, incomplete : BOOLEAN, recorded : BOOLEAN,
     emitted : BOOLEAN, answer : {"error", "completed", "incomplete"}]
Documents ==
    [user : {"none", "pending", "sent", "failed"}, reply : {"none", "sent", "failed"},
     copy : BOOLEAN, context : BOOLEAN]

HandlersTypes ==
    /\ asked \in [Requests -> Asks]
    /\ handler \in [Requests -> Handlers]
    /\ docs \in [Requests -> Documents]
    /\ granite \in [Requests -> {"idle", "open", "closed"}]
    /\ client \in [Requests -> {"waiting", "gone", "error", "completed", "incomplete"}]
    /\ failed \in [Requests -> SUBSET {"audit", "chat", "context", "lookup"}]

Before(r) == handler[r].place \in Bookkeeping \cup {"saveUser", "touchUser", "call"}
Ended(r) == handler[r].place \in {"suffix", "answer", "close", "done"}

\* A model that must not be called without a record has one; a stream that is
\* being answered has an open connection.
Logged(r) ==
    /\ Before(r) => granite[r] = "idle"
    /\ handler[r].place \in {"stream", "suffix", "errorFrame", "close"} => Streaming(r)
    /\ Before(r) /\ Strict(r) =>
          /\ "audit" \notin failed[r]
          /\ handler[r].place # "begin" => handle[r].persisted

\* On the way to the terminal record, what the answer needs has been stored.
Storing(r) ==
    LET place == handler[r].place IN
    /\ place \in {"userSent", "saveReply", "touchReply", "saveContext", "finish"} =>
          handler[r].text = "some" \/ handler[r].incomplete
    /\ place \in {"saveUser", "touchUser", "userSent", "saveReply", "touchReply"} => Chats(r)
    /\ place = "saveContext" => asked[r].keeps = "context"
    /\ place \in {"saveReply", "touchReply"} =>
          docs[r].user = Verdict(r) /\ handler[r].text = "some"
    /\ place = "touchReply" => docs[r].reply = Verdict(r)
    /\ place = "finish" =>
          /\ Chats(r) => /\ docs[r].user = Verdict(r)
                         /\ handler[r].text = "some" => docs[r].reply = Verdict(r)
          /\ asked[r].keeps = "context" => docs[r].context

Kept(r) ==
    /\ Chats(r) => docs[r].user = "sent" /\ docs[r].reply = "sent"
    /\ asked[r].keeps = "context" => docs[r].context

\* A handler that means to answer with a success has stored and recorded it, and
\* the client is told nothing else.
Answered(r) ==
    /\ handler[r].answer # "error" =>
          /\ Ended(r)
          /\ handler[r].answer = "incomplete" <=> handler[r].incomplete
          /\ ~handler[r].incomplete => Kept(r)
          /\ Strict(r) /\ record[r] # Absent =>
                /\ record[r].state = "terminal"
                /\ record[r].outcome = IF handler[r].incomplete THEN "failed" ELSE "completed"
    /\ handler[r].place = "suffix" => handler[r].recorded
    /\ handler[r].recorded =>
          \/ Ended(r) \/ handler[r].place = "errorFrame"
          \/ handler[r].place \in {"dropContext", "failUser", "failReply"} /\ ~Streaming(r)
    /\ handler[r].place = "errorFrame" => handler[r].answer = "error"
    /\ client[r] \notin {"waiting", "gone"} =>
          handler[r].place \in {"close", "done"} /\ client[r] = handler[r].answer

\* While the chat and the context store answer, the handler knows what is in
\* them, and takes it back when it fails.
Calm(r) == failed[r] \cap {"chat", "context"} = {}
Withdrawn(r) == docs[r].user \in {"none", "failed"} /\ docs[r].reply # "sent" /\ ~docs[r].context
Unanswered(r) ==
    /\ docs[r].reply = "none" /\ ~docs[r].context
    /\ ~handler[r].reply /\ ~handler[r].context

Consistent(r) ==
    LET place == handler[r].place IN
    Calm(r) =>
        /\ place \in Bookkeeping \cup {"saveUser", "touchUser"} => Unanswered(r) /\ ~handler[r].user
        /\ place \in Bookkeeping \cup {"saveUser"} => docs[r].user = "none"
        /\ place \in {"call", "stream", "userSent", "saveContext"} =>
              /\ Unanswered(r)
              /\ (handler[r].user <=> Chats(r))
              /\ ~Chats(r) => docs[r].user = "none"
        /\ place = "modelFailed" => Unanswered(r)
        /\ place \in {"saveReply", "touchReply"} =>
              handler[r].user /\ ~docs[r].context /\ ~handler[r].context
        /\ place = "saveReply" => docs[r].reply = "none"
        /\ place = "finish" =>
              /\ (handler[r].user <=> Chats(r)) /\ (handler[r].context <=> docs[r].context)
              /\ docs[r].reply # "none" => handler[r].reply /\ docs[r].reply = Verdict(r)
              /\ docs[r].context => ~Chats(r)
              /\ ~Chats(r) => docs[r].user = "none" /\ docs[r].reply = "none"
        /\ place = "dropContext" =>
              ~handler[r].user /\ docs[r].user = "none" /\ docs[r].reply = "none"
        /\ place = "failUser" =>
              handler[r].user /\ ~docs[r].context /\ (docs[r].reply = "sent" => handler[r].reply)
        /\ place = "failReply" => docs[r].user = "failed" /\ ~docs[r].context
        /\ place \in {"fail", "copyReply", "touchCopy", "errorFrame"} => Withdrawn(r)
        /\ Ended(r) /\ handler[r].answer = "error" => Withdrawn(r)
        /\ Ended(r) /\ handler[r].answer = "incomplete" => "sent" \notin {docs[r].user, docs[r].reply}

\* While nothing raises, an open record waits for its outcome, or there is none any
\* more.
Truthful(r) ==
    failed[r] = {} /\ record[r] # Absent =>
        IF Ended(r) \/ handler[r].place = "errorFrame"
        THEN /\ record[r].state = "terminal"
             /\ handler[r].answer = "completed" <=> record[r].outcome = "completed"
             /\ record[r].delivery = "client_disconnected" =>
                   client[r] = "gone" /\ handler[r].place = "done"
             /\ handler[r].place = "close" /\ handler[r].answer = "completed" =>
                   handler[r].emitted \/ client[r] = "gone"
        ELSE IsOpen(r) /\ handle[r].persisted /\ ~handler[r].recorded

RequestInvariant(r) == Logged(r) /\ Storing(r) /\ Answered(r) /\ Consistent(r) /\ Truthful(r)

ResponsesInvariant ==
    TelemetryInvariant /\ HandlersTypes /\ \A r \in Requests : RequestInvariant(r)

-----------------------------------------------------------------------------
(***************************************************************************)
(* A step of one request.                                                  *)
(***************************************************************************)
Local(r) ==
    <<asked[r], handler[r], docs[r], granite[r], client[r], failed[r], record[r], handle[r]>>

\* What a step of r must do.
Keeps(r) ==
    HandlersTypes' /\ RequestInvariant(r)' /\ \A q \in Requests \ {r} : UNCHANGED Local(q)

LEMMA GotoKeepsTypes ==
    ASSUME HandlersTypes, NEW r \in Requests, NEW place \in Places, Goto(r, place)
    PROVE  handler' \in [Requests -> Handlers]
<1>1. handler \in [Requests -> Handlers] /\ handler[r] \in Handlers
  BY DEF HandlersTypes
<1>2. [handler[r] EXCEPT !.place = place] \in Handlers
  BY <1>1 DEF Handlers
<1>3. handler' = [handler EXCEPT ![r] = [handler[r] EXCEPT !.place = place]]
  BY DEF Goto
<1> QED BY <1>1, <1>2, <1>3

LEMMA DocsKeepTypes ==
    ASSUME HandlersTypes, NEW r \in Requests, NEW b \in BOOLEAN,
           \/ docs' = docs \/ docs' = [docs EXCEPT ![r].reply = "failed"]
           \/ docs' = [docs EXCEPT ![r].copy = b] \/ docs' = [docs EXCEPT ![r].context = b]
    PROVE  docs' \in [Requests -> Documents]
<1>1. docs \in [Requests -> Documents] /\ docs[r] \in Documents
  BY DEF HandlersTypes
<1>2. /\ [docs[r] EXCEPT !.copy = b] \in Documents
      /\ [docs[r] EXCEPT !.reply = "failed"] \in Documents
      /\ [docs[r] EXCEPT !.context = b] \in Documents
  BY <1>1 DEF Documents
<1>3. \/ docs' = docs
      \/ docs' = [docs EXCEPT ![r] = [docs[r] EXCEPT !.reply = "failed"]]
      \/ docs' = [docs EXCEPT ![r] = [docs[r] EXCEPT !.copy = b]]
      \/ docs' = [docs EXCEPT ![r] = [docs[r] EXCEPT !.context = b]]
  OBVIOUS
<1> QED BY <1>1, <1>2, <1>3

LEMMA OtherRequests ==
    ASSUME NEW r, RequestInvariant(r), UNCHANGED Local(r)
    PROVE  RequestInvariant(r)'
<1> USE DEF Local, RequestInvariant, Ended, Chats, Strict, Streaming, Verdict
<1>1. Logged(r)' /\ Storing(r)' /\ Answered(r)'
  BY DEF Logged, Before, Storing, Kept, Answered
<1>2. Consistent(r)'
  BY DEF Consistent, Calm, Withdrawn, Unanswered
<1>3. Truthful(r)'
  BY DEF Truthful, IsOpen
<1> QED BY <1>1, <1>2, <1>3

LEMMA BeforeTheModel ==
    ASSUME TelemetryInvariant, HandlersTypes, NEW r \in Requests, RequestInvariant(r)
    PROVE  /\ \A call \in Calls : Begin(r, call) => Keeps(r)
           /\ \A call \in Calls : CountBegin(r, call) => Keeps(r)
           /\ \A call \in Calls : Enrich(r, call) => Keeps(r)
           /\ Admit(r) => Keeps(r)
           /\ Reject(r) => Keeps(r)
           /\ LookupFails(r) => Keeps(r)
           /\ \A call \in Calls : SaveUser(r, call) => Keeps(r)
           /\ \A call \in Calls : TouchUser(r, call) => Keeps(r)
<1>1. /\ record \in [Requests -> Records]
      /\ handle \in [Requests -> [persisted : BOOLEAN, counted : BOOLEAN]]
      /\ CountedInOrder
  BY DEF TelemetryInvariant, TelemetryTypeOK
<1>2. ASSUME NEW call \in Calls, Begin(r, call) PROVE Keeps(r)
  <2>1. handler' \in [Requests -> Handlers]
    <3>1. (IF call = "done" THEN "begin" ELSE IF Strict(r) THEN "answer" ELSE "request") \in Places
      BY DEF Places, Bookkeeping
    <3> QED BY <1>2, <3>1, GotoKeepsTypes DEF Begin
  <2>2. docs' \in [Requests -> Documents]
    BY <1>2 DEF Begin, HandlersTypes
  <2>3. HandlersTypes'
    BY <1>2, <2>1, <2>2 DEF Begin, RecordReceived, Noted, HandlersTypes
  <2>4. \A q \in Requests \ {r} : UNCHANGED Local(q)
    BY <1>1, <1>2 DEF Begin, RecordReceived, Goto, Noted, HandlersTypes, Local
  <2>5. Logged(r) /\ Storing(r) /\ Answered(r) /\ Consistent(r) /\ Truthful(r)
    BY DEF RequestInvariant
  <2>6. RequestInvariant(r)'
    <3>1. Logged(r)'
      BY <1>1, <1>2, <2>5 DEF Begin, RecordReceived, Record, Goto, Noted, TookEffect,
         HandlersTypes, Handlers, Documents, Records, CountedInOrder, Asks, Logged, Before,
         Bookkeeping, Streaming, Strict
    <3>2. Storing(r)'
      BY <1>1, <1>2, <2>5 DEF Begin, RecordReceived, Record, Goto, Noted, TookEffect,
         HandlersTypes, Handlers, Documents, Records, CountedInOrder, Asks, Storing, Chats,
         Verdict
    <3>3. Answered(r)'
      BY <1>1, <1>2, <2>5 DEF Begin, RecordReceived, Record, Goto, Noted, TookEffect,
         HandlersTypes, Handlers, Documents, Records, CountedInOrder, Asks, Answered, Storing,
         Ended, Kept, Chats, Strict, Verdict, Streaming
    <3>4. Consistent(r)'
      BY <1>1, <1>2, <2>5 DEF Begin, RecordReceived, Record, Goto, Noted, TookEffect,
         HandlersTypes, Handlers, Documents, Records, CountedInOrder, Asks, Consistent, Storing,
         Answered, Calm, Withdrawn, Unanswered, Ended, Bookkeeping, Chats, Verdict, Streaming
    <3>5. Truthful(r)'
      <4>1. CASE call # "done"
        BY <1>2, <4>1 DEF Begin, Noted, HandlersTypes, Truthful
      <4>2. CASE call = "done"
        <5>1. /\ record' = [record EXCEPT ![r] = Record("received", "none", "none", clock)]
              /\ handle' = [handle EXCEPT ![r].persisted = TRUE]
              /\ handler' = [handler EXCEPT ![r].place = "begin"]
          BY <1>2, <4>2 DEF Begin, RecordReceived, TookEffect, Goto
        <5>2. record'[r].state = "received" /\ handle'[r].persisted
          BY <1>1, <5>1 DEF Record
        <5>3. handler'[r].place = "begin" /\ handler'[r].recorded = handler[r].recorded
          BY <5>1 DEF HandlersTypes, Handlers
        <5>4. ~handler[r].recorded
          BY <1>2, <2>5 DEF Begin, Answered, Ended
        <5> QED BY <5>2, <5>3, <5>4 DEF Truthful, Ended, IsOpen
      <4> QED BY <4>1, <4>2
    <3> QED BY <3>1, <3>2, <3>3, <3>4, <3>5 DEF RequestInvariant
  <2> QED BY <2>3, <2>4, <2>6 DEF Keeps
<1>3. ASSUME NEW call \in Calls, CountBegin(r, call) PROVE Keeps(r)
  <2>1. handler' \in [Requests -> Handlers]
    <3>1. "request" \in Places
      BY DEF Places, Bookkeeping
    <3> QED BY <1>3, <3>1, GotoKeepsTypes DEF CountBegin
  <2>2. docs' \in [Requests -> Documents]
    BY <1>3 DEF CountBegin, HandlersTypes
  <2>3. HandlersTypes'
    BY <1>3, <2>1, <2>2 DEF CountBegin, CountReceived, HandlersTypes
  <2>4. \A q \in Requests \ {r} : UNCHANGED Local(q)
    BY <1>1, <1>3 DEF CountBegin, CountReceived, Goto, HandlersTypes, Local
  <2>5. Logged(r) /\ Storing(r) /\ Answered(r) /\ Consistent(r) /\ Truthful(r)
    BY DEF RequestInvariant
  <2>6. RequestInvariant(r)'
    <3>1. Logged(r)'
      BY <1>1, <1>3, <2>5 DEF CountBegin, CountReceived, Goto, TookEffect, HandlersTypes,
         Handlers, Documents, Records, CountedInOrder, Asks, Logged, Before, Bookkeeping,
         Streaming, Strict
    <3>2. Storing(r)'
      BY <1>1, <1>3, <2>5 DEF CountBegin, CountReceived, Goto, TookEffect, HandlersTypes,
         Handlers, Documents, Records, CountedInOrder, Asks, Storing, Chats, Verdict
    <3>3. Answered(r)'
      BY <1>1, <1>3, <2>5 DEF CountBegin, CountReceived, Goto, TookEffect, HandlersTypes,
         Handlers, Documents, Records, CountedInOrder, Asks, Answered, Storing, Ended, Kept,
         Chats, Strict, Verdict, Streaming
    <3>4. Consistent(r)'
      BY <1>1, <1>3, <2>5 DEF CountBegin, CountReceived, Goto, TookEffect, HandlersTypes,
         Handlers, Documents, Records, CountedInOrder, Asks, Consistent, Storing, Answered, Calm,
         Withdrawn, Unanswered, Ended, Bookkeeping, Chats, Verdict, Streaming
    <3>5. Truthful(r)'
      BY <1>1, <1>3, <2>5 DEF CountBegin, CountReceived, Goto, TookEffect, HandlersTypes,
         Handlers, Documents, Records, CountedInOrder, Asks, Truthful, Answered, Ended, Strict,
         IsOpen
    <3> QED BY <3>1, <3>2, <3>3, <3>4, <3>5 DEF RequestInvariant
  <2> QED BY <2>3, <2>4, <2>6 DEF Keeps
<1>4. ASSUME NEW call \in Calls, Enrich(r, call) PROVE Keeps(r)
  <2>1. handler' \in [Requests -> Handlers]
    <3>1. (IF Refuses(r, call) THEN "fail" ELSE AfterEnrich(r)) \in Places
      BY <1>4 DEF Enrich, Places, Bookkeeping, At, AfterEnrich
    <3> QED BY <1>4, <3>1, GotoKeepsTypes DEF Enrich
  <2>2. docs' \in [Requests -> Documents]
    BY <1>4 DEF Enrich, HandlersTypes
  <2>3. HandlersTypes'
    BY <1>4, <2>1, <2>2 DEF Enrich, Noted, HandlersTypes
  <2>4. \A q \in Requests \ {r} : UNCHANGED Local(q)
    BY <1>1, <1>4 DEF Enrich, Goto, Noted, telemetryVars, HandlersTypes, Local
  <2>5. Logged(r) /\ Storing(r) /\ Answered(r) /\ Consistent(r) /\ Truthful(r)
    BY DEF RequestInvariant
  <2>6. RequestInvariant(r)'
    <3>1. Logged(r)'
      BY <1>1, <1>4, <2>5 DEF Enrich, Refuses, Persists, Matched, AfterEnrich, At, Goto, Noted,
         telemetryVars, HandlersTypes, Handlers, Documents, Asks, Logged, Before, Bookkeeping,
         Streaming, Strict
    <3>2. Storing(r)'
      BY <1>1, <1>4, <2>5 DEF Enrich, Refuses, Persists, Matched, AfterEnrich, At, Goto, Noted,
         telemetryVars, HandlersTypes, Handlers, Documents, Asks, Storing, Chats, Verdict
    <3>3. Answered(r)'
      BY <1>1, <1>4, <2>5 DEF Enrich, Refuses, Persists, Matched, AfterEnrich, At, Goto, Noted,
         telemetryVars, HandlersTypes, Handlers, Documents, Asks, Answered, Storing, Ended, Kept,
         Chats, Strict, Verdict, Streaming
    <3>4. Consistent(r)'
      BY <1>1, <1>4, <2>5 DEF Enrich, Refuses, Persists, Matched, AfterEnrich, At, Goto, Noted,
         telemetryVars, HandlersTypes, Handlers, Documents, Asks, Consistent, Storing, Answered,
         Calm, Withdrawn, Unanswered, Ended, Bookkeeping, Chats, Verdict, Streaming
    <3>5. Truthful(r)'
      BY <1>1, <1>4, <2>5 DEF Enrich, Refuses, Persists, Matched, AfterEnrich, At, Goto, Noted,
         telemetryVars, HandlersTypes, Handlers, Documents, Asks, Truthful, Answered, Ended,
         Strict, IsOpen
    <3> QED BY <3>1, <3>2, <3>3, <3>4, <3>5 DEF RequestInvariant
  <2> QED BY <2>3, <2>4, <2>6 DEF Keeps
<1>5. ASSUME Admit(r) PROVE Keeps(r)
  <2>1. handler' \in [Requests -> Handlers]
    <3>1. "input" \in Places
      BY DEF Places, Bookkeeping
    <3> QED BY <1>5, <3>1, GotoKeepsTypes DEF Admit
  <2>2. docs' \in [Requests -> Documents]
    BY <1>5 DEF Admit, HandlersTypes
  <2>3. HandlersTypes'
    BY <1>5, <2>1, <2>2 DEF Admit, HandlersTypes
  <2>4. \A q \in Requests \ {r} : UNCHANGED Local(q)
    BY <1>1, <1>5 DEF Admit, Goto, telemetryVars, HandlersTypes, Local
  <2>5. Logged(r) /\ Storing(r) /\ Answered(r) /\ Consistent(r) /\ Truthful(r)
    BY DEF RequestInvariant
  <2>6. RequestInvariant(r)'
    BY <1>1, <1>5 DEF Admit, At, Goto, telemetryVars, HandlersTypes, Handlers, Documents,
       RequestInvariant, Before, Ended, Logged, Storing, Kept, Answered, Calm, Withdrawn,
       Unanswered, Consistent, Truthful, Verdict, Streaming, Chats, Strict, IsOpen, Asks,
       Bookkeeping
  <2> QED BY <2>3, <2>4, <2>6 DEF Keeps
<1>6. ASSUME Reject(r) PROVE Keeps(r)
  <2>1. handler' \in [Requests -> Handlers]
    <3>1. "fail" \in Places
      BY DEF Places, Bookkeeping
    <3> QED BY <1>6, <3>1, GotoKeepsTypes DEF Reject
  <2>2. docs' \in [Requests -> Documents]
    BY <1>6 DEF Reject, HandlersTypes
  <2>3. HandlersTypes'
    BY <1>6, <2>1, <2>2 DEF Reject, HandlersTypes
  <2>4. \A q \in Requests \ {r} : UNCHANGED Local(q)
    BY <1>1, <1>6 DEF Reject, Goto, telemetryVars, HandlersTypes, Local
  <2>5. Logged(r) /\ Storing(r) /\ Answered(r) /\ Consistent(r) /\ Truthful(r)
    BY DEF RequestInvariant
  <2>6. RequestInvariant(r)'
    BY <1>1, <1>6 DEF Reject, At, Goto, telemetryVars, HandlersTypes, Handlers, Documents,
       RequestInvariant, Before, Ended, Logged, Storing, Kept, Answered, Calm, Withdrawn,
       Unanswered, Consistent, Truthful, Verdict, Streaming, Chats, Strict, IsOpen, Asks,
       Bookkeeping
  <2> QED BY <2>3, <2>4, <2>6 DEF Keeps
<1>7. ASSUME LookupFails(r) PROVE Keeps(r)
  <2>1. handler' \in [Requests -> Handlers]
    <3>1. (IF handler[r].place = "input" THEN "fail" ELSE "answer") \in Places
      BY DEF Places, Bookkeeping
    <3> QED BY <1>7, <3>1, GotoKeepsTypes DEF LookupFails
  <2>2. docs' \in [Requests -> Documents]
    BY <1>7 DEF LookupFails, HandlersTypes
  <2>3. HandlersTypes'
    BY <1>7, <2>1, <2>2 DEF LookupFails, Noted, HandlersTypes
  <2>4. \A q \in Requests \ {r} : UNCHANGED Local(q)
    BY <1>1, <1>7 DEF LookupFails, Goto, Noted, telemetryVars, HandlersTypes, Local
  <2>5. Logged(r) /\ Storing(r) /\ Answered(r) /\ Consistent(r) /\ Truthful(r)
    BY DEF RequestInvariant
  <2>6. RequestInvariant(r)'
    BY <1>1, <1>7 DEF LookupFails, At, Goto, Noted, telemetryVars, HandlersTypes, Handlers,
       Documents, RequestInvariant, Before, Ended, Logged, Storing, Kept, Answered, Calm,
       Withdrawn, Unanswered, Consistent, Truthful, Verdict, Streaming, Chats, Strict, IsOpen,
       Asks, Bookkeeping
  <2> QED BY <2>3, <2>4, <2>6 DEF Keeps
<1>8. ASSUME NEW call \in Calls, SaveUser(r, call) PROVE Keeps(r)
  <2>1. handler' \in [Requests -> Handlers]
    <3>1. (IF call = "done" THEN "touchUser" ELSE "fail") \in Places
      BY DEF Places, Bookkeeping
    <3> QED BY <1>8, <3>1, GotoKeepsTypes DEF SaveUser
  <2>2. docs' \in [Requests -> Documents]
    BY <1>8 DEF SaveUser, Stores, HandlersTypes, Documents
  <2>3. HandlersTypes'
    BY <1>8, <2>1, <2>2 DEF SaveUser, Stores, Noted, HandlersTypes
  <2>4. \A q \in Requests \ {r} : UNCHANGED Local(q)
    BY <1>1, <1>8 DEF SaveUser, Goto, Noted, Stores, telemetryVars, HandlersTypes, Local
  <2>5. Logged(r) /\ Storing(r) /\ Answered(r) /\ Consistent(r) /\ Truthful(r)
    BY DEF RequestInvariant
  <2>6. RequestInvariant(r)'
    <3>1. Logged(r)'
      BY <1>1, <1>8, <2>5 DEF SaveUser, At, Goto, Noted, Stores, TookEffect, telemetryVars,
         HandlersTypes, Handlers, Documents, Asks, Logged, Before, Bookkeeping, Streaming, Strict
    <3>2. Storing(r)'
      BY <1>1, <1>8, <2>5 DEF SaveUser, At, Goto, Noted, Stores, TookEffect, telemetryVars,
         HandlersTypes, Handlers, Documents, Asks, Storing, Chats, Verdict
    <3>3. Answered(r)'
      BY <1>1, <1>8, <2>5 DEF SaveUser, At, Goto, Noted, Stores, TookEffect, telemetryVars,
         HandlersTypes, Handlers, Documents, Asks, Answered, Storing, Ended, Kept, Chats, Strict,
         Verdict, Streaming
    <3>4. Consistent(r)'
      <4>1. CASE call # "done"
        BY <1>8, <4>1 DEF SaveUser, Stores, Noted, HandlersTypes, Consistent, Calm
      <4>2. CASE call = "done"
        <5>2. /\ asked'[r] = asked[r] /\ granite'[r] = granite[r] /\ failed'[r] = failed[r]
              /\ handler'[r].place = "touchUser"
              /\ handler'[r].user = handler[r].user /\ handler'[r].reply = handler[r].reply
              /\ handler'[r].context = handler[r].context /\ handler'[r].answer = handler[r].answer
              /\ handler'[r].incomplete = handler[r].incomplete
              /\ handler'[r].recorded = handler[r].recorded
              /\ docs'[r].user = "pending" /\ docs'[r].reply = docs[r].reply
              /\ docs'[r].context = docs[r].context
          BY <1>8, <4>2 DEF SaveUser, Stores, Noted, TookEffect, Goto, HandlersTypes, Handlers,
             Documents
        <5>3. handler[r] \in Handlers /\ docs[r] \in Documents /\ handler[r].place = "saveUser"
          BY <1>8 DEF SaveUser, At, HandlersTypes
        <5> QED BY <2>5, <5>2, <5>3
             DEF Consistent, Storing, Answered, Calm, Withdrawn, Unanswered, Ended, Chats,
                 Verdict, Streaming, Handlers, Documents, Bookkeeping
      <4> QED BY <4>1, <4>2
    <3>5. Truthful(r)'
      BY <1>1, <1>8, <2>5 DEF SaveUser, At, Goto, Noted, Stores, TookEffect, telemetryVars,
         HandlersTypes, Handlers, Documents, Asks, Truthful, Answered, Ended, Strict, IsOpen
    <3> QED BY <3>1, <3>2, <3>3, <3>4, <3>5 DEF RequestInvariant
  <2> QED BY <2>3, <2>4, <2>6 DEF Keeps
<1>9. ASSUME NEW call \in Calls, TouchUser(r, call) PROVE Keeps(r)
  <2>1. handler' \in [Requests -> Handlers]
    <3> DEFINE place == (IF call = "done" THEN "call" ELSE "fail")
               new == [handler[r] EXCEPT !.user = call = "done",
                                        !.place = place]
    <3>1. place \in Places
      BY DEF Places, Bookkeeping
    <3> HIDE DEF place
    <3>2. handler[r] \in Handlers
      BY DEF HandlersTypes
    <3>3. new \in Handlers
      BY <3>1, <3>2 DEF Handlers
    <3>4. handler' = [handler EXCEPT ![r] = new]
      BY <1>9 DEF TouchUser, HandlersTypes, Handlers, place
    <3> QED BY <3>3, <3>4 DEF HandlersTypes
  <2>2. docs' \in [Requests -> Documents]
    BY <1>9 DEF TouchUser, HandlersTypes
  <2>3. HandlersTypes'
    BY <1>9, <2>1, <2>2 DEF TouchUser, Noted, HandlersTypes
  <2>4. \A q \in Requests \ {r} : UNCHANGED Local(q)
    BY <1>1, <1>9 DEF TouchUser, Noted, telemetryVars, HandlersTypes, Local
  <2>5. Logged(r) /\ Storing(r) /\ Answered(r) /\ Consistent(r) /\ Truthful(r)
    BY DEF RequestInvariant
  <2>6. RequestInvariant(r)'
    <3>1. Logged(r)'
      BY <1>1, <1>9, <2>5 DEF TouchUser, At, Noted, telemetryVars, HandlersTypes, Handlers,
         Documents, Asks, Logged, Before, Bookkeeping, Streaming, Strict
    <3>2. Storing(r)'
      BY <1>1, <1>9, <2>5 DEF TouchUser, At, Noted, telemetryVars, HandlersTypes, Handlers,
         Documents, Asks, Storing, Chats, Verdict
    <3>3. Answered(r)'
      BY <1>1, <1>9, <2>5 DEF TouchUser, At, Noted, telemetryVars, HandlersTypes, Handlers,
         Documents, Asks, Answered, Storing, Ended, Kept, Chats, Strict, Verdict, Streaming
    <3>4. Consistent(r)'
      <4>1. CASE call # "done"
        BY <1>9, <4>1 DEF TouchUser, Noted, HandlersTypes, Consistent, Calm
      <4>2. CASE call = "done"
        <5>1. handler' = [handler EXCEPT ![r].user = TRUE, ![r].place = "call"]
          BY <1>9, <4>2 DEF TouchUser
        <5>2. /\ asked'[r] = asked[r] /\ granite'[r] = granite[r] /\ failed'[r] = failed[r]
              /\ handler'[r].place = "call"
              /\ handler'[r].user = TRUE /\ handler'[r].reply = handler[r].reply
              /\ handler'[r].context = handler[r].context /\ handler'[r].answer = handler[r].answer
              /\ handler'[r].incomplete = handler[r].incomplete
              /\ handler'[r].recorded = handler[r].recorded
              /\ docs'[r].user = docs[r].user /\ docs'[r].reply = docs[r].reply
              /\ docs'[r].context = docs[r].context
          BY <5>1, <1>9, <4>2 DEF TouchUser, Noted, HandlersTypes, Handlers, Documents
        <5>3. handler[r] \in Handlers /\ docs[r] \in Documents /\ handler[r].place = "touchUser"
          BY <1>9 DEF TouchUser, At, HandlersTypes
        <5> QED BY <2>5, <5>2, <5>3
             DEF Consistent, Storing, Answered, Calm, Withdrawn, Unanswered, Ended, Chats,
                 Verdict, Streaming, Handlers, Documents, Bookkeeping
      <4> QED BY <4>1, <4>2
    <3>5. Truthful(r)'
      BY <1>1, <1>9, <2>5 DEF TouchUser, At, Noted, telemetryVars, HandlersTypes, Handlers,
         Documents, Asks, Truthful, Answered, Ended, Strict, IsOpen
    <3> QED BY <3>1, <3>2, <3>3, <3>4, <3>5 DEF RequestInvariant
  <2> QED BY <2>3, <2>4, <2>6 DEF Keeps
<1> QED BY <1>2, <1>3, <1>4, <1>5, <1>6, <1>7, <1>8, <1>9

LEMMA TheModel ==
    ASSUME TelemetryInvariant, HandlersTypes, NEW r \in Requests, RequestInvariant(r)
    PROVE  /\ ModelFails(r) => Keeps(r)
           /\ \A call \in Calls : MarkModelFailed(r, call) => Keeps(r)
           /\ \A text \in {"blank", "some"}, incomplete \in BOOLEAN :
                 ModelAnswers(r, text, incomplete) => Keeps(r)
           /\ StreamOpens(r) => Keeps(r)
           /\ \A text \in {"blank", "some"} : Delta(r, text) => Keeps(r)
           /\ \A incomplete \in BOOLEAN : GraniteCompletes(r, incomplete) => Keeps(r)
           /\ GraniteFails(r) => Keeps(r)
           /\ ClientLeaves(r) => Keeps(r)
<1>1. /\ record \in [Requests -> Records]
      /\ handle \in [Requests -> [persisted : BOOLEAN, counted : BOOLEAN]]
      /\ CountedInOrder
  BY DEF TelemetryInvariant, TelemetryTypeOK
<1>2. ASSUME ModelFails(r) PROVE Keeps(r)
  <2>1. handler' \in [Requests -> Handlers]
    <3>1. (IF handler[r].user THEN "modelFailed" ELSE "fail") \in Places
      BY DEF Places, Bookkeeping
    <3> QED BY <1>2, <3>1, GotoKeepsTypes DEF ModelFails
  <2>2. docs' \in [Requests -> Documents]
    BY <1>2 DEF ModelFails, HandlersTypes
  <2>3. HandlersTypes'
    BY <1>2, <2>1, <2>2 DEF ModelFails, HandlersTypes
  <2>4. \A q \in Requests \ {r} : UNCHANGED Local(q)
    BY <1>1, <1>2 DEF ModelFails, Goto, telemetryVars, HandlersTypes, Local
  <2>5. Logged(r) /\ Storing(r) /\ Answered(r) /\ Consistent(r) /\ Truthful(r)
    BY DEF RequestInvariant
  <2>6. RequestInvariant(r)'
    BY <1>1, <1>2 DEF ModelFails, At, Goto, telemetryVars, HandlersTypes, Handlers, Documents,
       RequestInvariant, Before, Ended, Logged, Storing, Kept, Answered, Calm, Withdrawn,
       Unanswered, Consistent, Truthful, Verdict, Streaming, Chats, Strict, IsOpen, Asks,
       Bookkeeping
  <2> QED BY <2>3, <2>4, <2>6 DEF Keeps
<1>3. ASSUME NEW call \in Calls, MarkModelFailed(r, call) PROVE Keeps(r)
  <2>1. handler' \in [Requests -> Handlers]
    <3>1. (IF call = "done" THEN "fail" ELSE "failUser") \in Places
      BY DEF Places, Bookkeeping
    <3> QED BY <1>3, <3>1, GotoKeepsTypes DEF MarkModelFailed
  <2>2. docs' \in [Requests -> Documents]
    BY <1>3 DEF MarkModelFailed, Stores, HandlersTypes, Documents
  <2>3. HandlersTypes'
    BY <1>3, <2>1, <2>2 DEF MarkModelFailed, Stores, Noted, HandlersTypes
  <2>4. \A q \in Requests \ {r} : UNCHANGED Local(q)
    BY <1>1, <1>3 DEF MarkModelFailed, Goto, Noted, Stores, telemetryVars, HandlersTypes, Local
  <2>5. Logged(r) /\ Storing(r) /\ Answered(r) /\ Consistent(r) /\ Truthful(r)
    BY DEF RequestInvariant
  <2>6. RequestInvariant(r)'
    BY <1>1, <1>3 DEF MarkModelFailed, At, Goto, Noted, Stores, TookEffect, telemetryVars,
       HandlersTypes, Handlers, Documents, RequestInvariant, Before, Ended, Logged, Storing,
       Kept, Answered, Calm, Withdrawn, Unanswered, Consistent, Truthful, Verdict, Streaming,
       Chats, Strict, IsOpen, Asks, Bookkeeping
  <2> QED BY <2>3, <2>4, <2>6 DEF Keeps
<1>4. ASSUME NEW text \in {"blank", "some"}, NEW incomplete \in BOOLEAN, ModelAnswers(r, text, incomplete)
      PROVE  Keeps(r)
  <2>1. handler' \in [Requests -> Handlers]
    <3> DEFINE place == FirstKept(r)
               new == [handler[r] EXCEPT !.text = text,
                                        !.incomplete = incomplete,
                                        !.place = place]
    <3>1. place \in Places
      BY DEF Places, Bookkeeping, FirstKept, HandlersTypes, Asks
    <3> HIDE DEF place
    <3>2. handler[r] \in Handlers
      BY DEF HandlersTypes
    <3>3. new \in Handlers
      BY <3>1, <3>2 DEF Handlers
    <3>4. handler' = [handler EXCEPT ![r] = new]
      BY <1>4 DEF ModelAnswers, HandlersTypes, Handlers, place
    <3> QED BY <3>3, <3>4 DEF HandlersTypes
  <2>2. docs' \in [Requests -> Documents]
    BY <1>4 DEF ModelAnswers, HandlersTypes
  <2>3. HandlersTypes'
    BY <1>4, <2>1, <2>2 DEF ModelAnswers, HandlersTypes
  <2>4. \A q \in Requests \ {r} : UNCHANGED Local(q)
    BY <1>1, <1>4 DEF ModelAnswers, telemetryVars, HandlersTypes, Local
  <2>5. Logged(r) /\ Storing(r) /\ Answered(r) /\ Consistent(r) /\ Truthful(r)
    BY DEF RequestInvariant
  <2>6. RequestInvariant(r)'
    BY <1>1, <1>4 DEF ModelAnswers, FirstKept, At, telemetryVars, HandlersTypes, Handlers,
       Documents, RequestInvariant, Before, Ended, Logged, Storing, Kept, Answered, Calm,
       Withdrawn, Unanswered, Consistent, Truthful, Verdict, Streaming, Chats, Strict, IsOpen,
       Asks, Bookkeeping
  <2> QED BY <2>3, <2>4, <2>6 DEF Keeps
<1>5. ASSUME StreamOpens(r) PROVE Keeps(r)
  <2>1. handler' \in [Requests -> Handlers]
    <3>1. "stream" \in Places
      BY DEF Places, Bookkeeping
    <3> QED BY <1>5, <3>1, GotoKeepsTypes DEF StreamOpens
  <2>2. docs' \in [Requests -> Documents]
    BY <1>5 DEF StreamOpens, HandlersTypes
  <2>3. HandlersTypes'
    BY <1>5, <2>1, <2>2 DEF StreamOpens, HandlersTypes
  <2>4. \A q \in Requests \ {r} : UNCHANGED Local(q)
    BY <1>1, <1>5 DEF StreamOpens, Goto, telemetryVars, HandlersTypes, Local
  <2>5. Logged(r) /\ Storing(r) /\ Answered(r) /\ Consistent(r) /\ Truthful(r)
    BY DEF RequestInvariant
  <2>6. RequestInvariant(r)'
    BY <1>1, <1>5 DEF StreamOpens, At, Goto, telemetryVars, HandlersTypes, Handlers, Documents,
       RequestInvariant, Before, Ended, Logged, Storing, Kept, Answered, Calm, Withdrawn,
       Unanswered, Consistent, Truthful, Verdict, Streaming, Chats, Strict, IsOpen, Asks,
       Bookkeeping
  <2> QED BY <2>3, <2>4, <2>6 DEF Keeps
<1>6. ASSUME NEW text \in {"blank", "some"}, Delta(r, text) PROVE Keeps(r)
  <2>1. handler' \in [Requests -> Handlers]
    BY <1>6 DEF Delta, HandlersTypes, Handlers
  <2>2. docs' \in [Requests -> Documents]
    BY <1>6 DEF Delta, HandlersTypes
  <2>3. HandlersTypes'
    BY <1>6, <2>1, <2>2 DEF Delta, HandlersTypes
  <2>4. \A q \in Requests \ {r} : UNCHANGED Local(q)
    BY <1>1, <1>6 DEF Delta, telemetryVars, HandlersTypes, Local
  <2>5. Logged(r) /\ Storing(r) /\ Answered(r) /\ Consistent(r) /\ Truthful(r)
    BY DEF RequestInvariant
  <2>6. RequestInvariant(r)'
    BY <1>1, <1>6 DEF Delta, At, telemetryVars, HandlersTypes, Handlers, Documents,
       RequestInvariant, Before, Ended, Logged, Storing, Kept, Answered, Calm, Withdrawn,
       Unanswered, Consistent, Truthful, Verdict, Streaming, Chats, Strict, IsOpen, Asks,
       Bookkeeping
  <2> QED BY <2>3, <2>4, <2>6 DEF Keeps
<1>7. ASSUME NEW incomplete \in BOOLEAN, GraniteCompletes(r, incomplete) PROVE Keeps(r)
  <2>1. handler' \in [Requests -> Handlers]
    <3> DEFINE place == (IF Acceptable(r, incomplete) THEN FirstKept(r) ELSE Repair(r))
               new == [handler[r] EXCEPT !.incomplete = incomplete,
                                        !.place = place]
    <3>1. place \in Places
      BY DEF Places, Bookkeeping, FirstKept, Repair, AfterRepair, HandlersTypes, Asks
    <3> HIDE DEF place
    <3>2. handler[r] \in Handlers
      BY DEF HandlersTypes
    <3>3. new \in Handlers
      BY <3>1, <3>2 DEF Handlers
    <3>4. handler' = [handler EXCEPT ![r] = new]
      BY <1>7 DEF GraniteCompletes, HandlersTypes, Handlers, place
    <3> QED BY <3>3, <3>4 DEF HandlersTypes
  <2>2. docs' \in [Requests -> Documents]
    BY <1>7 DEF GraniteCompletes, HandlersTypes
  <2>3. HandlersTypes'
    BY <1>7, <2>1, <2>2 DEF GraniteCompletes, HandlersTypes
  <2>4. \A q \in Requests \ {r} : UNCHANGED Local(q)
    BY <1>1, <1>7 DEF GraniteCompletes, telemetryVars, HandlersTypes, Local
  <2>5. Logged(r) /\ Storing(r) /\ Answered(r) /\ Consistent(r) /\ Truthful(r)
    BY DEF RequestInvariant
  <2>6. RequestInvariant(r)'
    <3>1. Logged(r)'
      BY <1>1, <1>7, <2>5 DEF GraniteCompletes, Acceptable, FirstKept, Repair, AfterRepair, At,
         telemetryVars, HandlersTypes, Handlers, Documents, Asks, Logged, Before, Bookkeeping,
         Streaming, Strict
    <3>2. Storing(r)'
      BY <1>1, <1>7, <2>5 DEF GraniteCompletes, Acceptable, FirstKept, Repair, AfterRepair, At,
         telemetryVars, HandlersTypes, Handlers, Documents, Asks, Storing, Chats, Verdict
    <3>3. Answered(r)'
      BY <1>1, <1>7, <2>5 DEF GraniteCompletes, Acceptable, FirstKept, Repair, AfterRepair, At,
         telemetryVars, HandlersTypes, Handlers, Documents, Asks, Answered, Storing, Ended, Kept,
         Chats, Strict, Verdict, Streaming
    <3>4. Consistent(r)'
      BY <1>1, <1>7, <2>5 DEF GraniteCompletes, Acceptable, FirstKept, Repair, AfterRepair, At,
         telemetryVars, HandlersTypes, Handlers, Documents, Asks, Consistent, Storing, Answered,
         Calm, Withdrawn, Unanswered, Ended, Bookkeeping, Chats, Verdict, Streaming
    <3>5. Truthful(r)'
      BY <1>1, <1>7, <2>5 DEF GraniteCompletes, Acceptable, FirstKept, Repair, AfterRepair, At,
         telemetryVars, HandlersTypes, Handlers, Documents, Asks, Truthful, Answered, Ended,
         Strict, IsOpen
    <3> QED BY <3>1, <3>2, <3>3, <3>4, <3>5 DEF RequestInvariant
  <2> QED BY <2>3, <2>4, <2>6 DEF Keeps
<1>8. ASSUME GraniteFails(r) PROVE Keeps(r)
  <2>1. handler' \in [Requests -> Handlers]
    <3>1. Repair(r) \in Places
      BY DEF Places, Bookkeeping, Repair, AfterRepair
    <3> QED BY <1>8, <3>1, GotoKeepsTypes DEF GraniteFails
  <2>2. docs' \in [Requests -> Documents]
    BY <1>8 DEF GraniteFails, HandlersTypes
  <2>3. HandlersTypes'
    BY <1>8, <2>1, <2>2 DEF GraniteFails, HandlersTypes
  <2>4. \A q \in Requests \ {r} : UNCHANGED Local(q)
    BY <1>1, <1>8 DEF GraniteFails, Goto, telemetryVars, HandlersTypes, Local
  <2>5. Logged(r) /\ Storing(r) /\ Answered(r) /\ Consistent(r) /\ Truthful(r)
    BY DEF RequestInvariant
  <2>6. RequestInvariant(r)'
    BY <1>1, <1>8 DEF GraniteFails, Repair, AfterRepair, At, Goto, telemetryVars, HandlersTypes,
       Handlers, Documents, RequestInvariant, Before, Ended, Logged, Storing, Kept, Answered,
       Calm, Withdrawn, Unanswered, Consistent, Truthful, Verdict, Streaming, Chats, Strict,
       IsOpen, Asks, Bookkeeping
  <2> QED BY <2>3, <2>4, <2>6 DEF Keeps
<1>9. ASSUME ClientLeaves(r) PROVE Keeps(r)
  <2>1. handler' \in [Requests -> Handlers]
    <3>1. (IF handler[r].recorded THEN "close" ELSE Repair(r)) \in Places
      BY DEF Places, Bookkeeping, Repair, AfterRepair
    <3> QED BY <1>9, <3>1, GotoKeepsTypes DEF ClientLeaves
  <2>2. docs' \in [Requests -> Documents]
    BY <1>9 DEF ClientLeaves, HandlersTypes
  <2>3. HandlersTypes'
    BY <1>9, <2>1, <2>2 DEF ClientLeaves, HandlersTypes
  <2>4. \A q \in Requests \ {r} : UNCHANGED Local(q)
    BY <1>1, <1>9 DEF ClientLeaves, Goto, telemetryVars, HandlersTypes, Local
  <2>5. Logged(r) /\ Storing(r) /\ Answered(r) /\ Consistent(r) /\ Truthful(r)
    BY DEF RequestInvariant
  <2>6. RequestInvariant(r)'
    <3>1. Logged(r)'
      BY <1>1, <1>9, <2>5 DEF ClientLeaves, Repair, AfterRepair, At, Goto, telemetryVars,
         HandlersTypes, Handlers, Documents, Asks, Logged, Before, Bookkeeping, Streaming, Strict
    <3>2. Storing(r)'
      BY <1>1, <1>9, <2>5 DEF ClientLeaves, Repair, AfterRepair, At, Goto, telemetryVars,
         HandlersTypes, Handlers, Documents, Asks, Storing, Chats, Verdict
    <3>3. Answered(r)'
      BY <1>1, <1>9, <2>5 DEF ClientLeaves, Repair, AfterRepair, At, Goto, telemetryVars,
         HandlersTypes, Handlers, Documents, Asks, Answered, Storing, Ended, Kept, Chats, Strict,
         Verdict, Streaming
    <3>4. Consistent(r)'
      BY <1>1, <1>9, <2>5 DEF ClientLeaves, Repair, AfterRepair, At, Goto, telemetryVars,
         HandlersTypes, Handlers, Documents, Asks, Consistent, Storing, Answered, Calm,
         Withdrawn, Unanswered, Ended, Bookkeeping, Chats, Verdict, Streaming
    <3>5. Truthful(r)'
      BY <1>1, <1>9, <2>5 DEF ClientLeaves, Repair, AfterRepair, At, Goto, telemetryVars,
         HandlersTypes, Handlers, Documents, Asks, Truthful, Answered, Ended, Strict, IsOpen
    <3> QED BY <3>1, <3>2, <3>3, <3>4, <3>5 DEF RequestInvariant
  <2> QED BY <2>3, <2>4, <2>6 DEF Keeps
<1> QED BY <1>2, <1>3, <1>4, <1>5, <1>6, <1>7, <1>8, <1>9

LEMMA StoringTheOutcome ==
    ASSUME TelemetryInvariant, HandlersTypes, NEW r \in Requests, RequestInvariant(r)
    PROVE  /\ \A call \in Calls : UserSent(r, call) => Keeps(r)
           /\ \A call \in Calls : SaveReply(r, call) => Keeps(r)
           /\ \A call \in Calls : TouchReply(r, call) => Keeps(r)
           /\ \A call \in Calls : SaveContext(r, call) => Keeps(r)
           /\ \A call \in Calls : Finish(r, call) => Keeps(r)
           /\ \A call \in Calls : DropContext(r, call) => Keeps(r)
<1>1. /\ record \in [Requests -> Records]
      /\ handle \in [Requests -> [persisted : BOOLEAN, counted : BOOLEAN]]
      /\ CountedInOrder
  BY DEF TelemetryInvariant, TelemetryTypeOK
<1>2. ASSUME NEW call \in Calls, UserSent(r, call) PROVE Keeps(r)
  <2>1. handler' \in [Requests -> Handlers]
    <3>1. (IF call # "done" THEN Repair(r) ELSE IF handler[r].text = "some" THEN "saveReply" ELSE
    "finish") \in Places
      BY DEF Places, Bookkeeping, Repair, AfterRepair
    <3> QED BY <1>2, <3>1, GotoKeepsTypes DEF UserSent
  <2>2. docs' \in [Requests -> Documents]
    BY <1>2 DEF UserSent, Stores, Verdict, HandlersTypes, Documents
  <2>3. HandlersTypes'
    BY <1>2, <2>1, <2>2 DEF UserSent, Stores, Noted, HandlersTypes
  <2>4. \A q \in Requests \ {r} : UNCHANGED Local(q)
    BY <1>1, <1>2 DEF UserSent, Goto, Noted, Stores, telemetryVars, HandlersTypes, Local
  <2>5. Logged(r) /\ Storing(r) /\ Answered(r) /\ Consistent(r) /\ Truthful(r)
    BY DEF RequestInvariant
  <2>6. RequestInvariant(r)'
    <3>1. Logged(r)'
      BY <1>1, <1>2, <2>5 DEF UserSent, Repair, AfterRepair, At, Goto, Noted, Stores, TookEffect,
         telemetryVars, HandlersTypes, Handlers, Documents, Asks, Logged, Before, Bookkeeping,
         Streaming, Strict
    <3>2. Storing(r)'
      BY <1>1, <1>2, <2>5 DEF UserSent, Repair, AfterRepair, At, Goto, Noted, Stores, TookEffect,
         telemetryVars, HandlersTypes, Handlers, Documents, Asks, Storing, Chats, Verdict
    <3>3. Answered(r)'
      BY <1>1, <1>2, <2>5 DEF UserSent, Repair, AfterRepair, At, Goto, Noted, Stores, TookEffect,
         telemetryVars, HandlersTypes, Handlers, Documents, Asks, Answered, Storing, Ended, Kept,
         Chats, Strict, Verdict, Streaming
    <3>4. Consistent(r)'
      BY <1>1, <1>2, <2>5 DEF UserSent, Repair, AfterRepair, At, Goto, Noted, Stores, TookEffect,
         telemetryVars, HandlersTypes, Handlers, Documents, Asks, Consistent, Storing, Answered,
         Calm, Withdrawn, Unanswered, Ended, Bookkeeping, Chats, Verdict, Streaming
    <3>5. Truthful(r)'
      BY <1>1, <1>2, <2>5 DEF UserSent, Repair, AfterRepair, At, Goto, Noted, Stores, TookEffect,
         telemetryVars, HandlersTypes, Handlers, Documents, Asks, Truthful, Answered, Ended,
         Strict, IsOpen
    <3> QED BY <3>1, <3>2, <3>3, <3>4, <3>5 DEF RequestInvariant
  <2> QED BY <2>3, <2>4, <2>6 DEF Keeps
<1>3. ASSUME NEW call \in Calls, SaveReply(r, call) PROVE Keeps(r)
  <2>1. handler' \in [Requests -> Handlers]
    <3>1. (IF call = "done" THEN "touchReply" ELSE Repair(r)) \in Places
      BY DEF Places, Bookkeeping, Repair, AfterRepair
    <3> QED BY <1>3, <3>1, GotoKeepsTypes DEF SaveReply
  <2>2. docs' \in [Requests -> Documents]
    BY <1>3 DEF SaveReply, Stores, Verdict, HandlersTypes, Documents
  <2>3. HandlersTypes'
    BY <1>3, <2>1, <2>2 DEF SaveReply, Stores, Noted, HandlersTypes
  <2>4. \A q \in Requests \ {r} : UNCHANGED Local(q)
    BY <1>1, <1>3 DEF SaveReply, Goto, Noted, Stores, telemetryVars, HandlersTypes, Local
  <2>5. Logged(r) /\ Storing(r) /\ Answered(r) /\ Consistent(r) /\ Truthful(r)
    BY DEF RequestInvariant
  <2>6. RequestInvariant(r)'
    <3>1. Logged(r)'
      BY <1>1, <1>3, <2>5 DEF SaveReply, Repair, AfterRepair, At, Goto, Noted, Stores,
         TookEffect, telemetryVars, HandlersTypes, Handlers, Documents, Asks, Logged, Before,
         Bookkeeping, Streaming, Strict
    <3>2. Storing(r)'
      BY <1>1, <1>3, <2>5 DEF SaveReply, Repair, AfterRepair, At, Goto, Noted, Stores,
         TookEffect, telemetryVars, HandlersTypes, Handlers, Documents, Asks, Storing, Chats,
         Verdict
    <3>3. Answered(r)'
      BY <1>1, <1>3, <2>5 DEF SaveReply, Repair, AfterRepair, At, Goto, Noted, Stores,
         TookEffect, telemetryVars, HandlersTypes, Handlers, Documents, Asks, Answered, Storing,
         Ended, Kept, Chats, Strict, Verdict, Streaming
    <3>4. Consistent(r)'
      <4>1. CASE call # "done"
        BY <1>3, <4>1 DEF SaveReply, Stores, Noted, HandlersTypes, Consistent, Calm
      <4>2. CASE call = "done"
        <5>2. /\ asked'[r] = asked[r] /\ granite'[r] = granite[r] /\ failed'[r] = failed[r]
              /\ handler'[r].place = "touchReply"
              /\ handler'[r].user = handler[r].user /\ handler'[r].reply = handler[r].reply
              /\ handler'[r].context = handler[r].context /\ handler'[r].answer = handler[r].answer
              /\ handler'[r].incomplete = handler[r].incomplete
              /\ handler'[r].recorded = handler[r].recorded
              /\ docs'[r].user = docs[r].user /\ docs'[r].reply = Verdict(r)
              /\ docs'[r].context = docs[r].context
          BY <1>3, <4>2 DEF SaveReply, Stores, Noted, TookEffect, Goto, HandlersTypes, Handlers,
             Documents
        <5>3. handler[r] \in Handlers /\ docs[r] \in Documents /\ handler[r].place = "saveReply"
          BY <1>3 DEF SaveReply, At, HandlersTypes
        <5> QED BY <2>5, <5>2, <5>3
             DEF Consistent, Storing, Answered, Calm, Withdrawn, Unanswered, Ended, Chats,
                 Verdict, Streaming, Handlers, Documents, Bookkeeping
      <4> QED BY <4>1, <4>2
    <3>5. Truthful(r)'
      BY <1>1, <1>3, <2>5 DEF SaveReply, Repair, AfterRepair, At, Goto, Noted, Stores,
         TookEffect, telemetryVars, HandlersTypes, Handlers, Documents, Asks, Truthful, Answered,
         Ended, Strict, IsOpen
    <3> QED BY <3>1, <3>2, <3>3, <3>4, <3>5 DEF RequestInvariant
  <2> QED BY <2>3, <2>4, <2>6 DEF Keeps
<1>4. ASSUME NEW call \in Calls, TouchReply(r, call) PROVE Keeps(r)
  <2>1. handler' \in [Requests -> Handlers]
    <3> DEFINE place == (IF call = "done" THEN "finish" ELSE Repair(r))
               new == [handler[r] EXCEPT !.reply = call = "done",
                                        !.place = place]
    <3>1. place \in Places
      BY DEF Places, Bookkeeping, Repair, AfterRepair
    <3> HIDE DEF place
    <3>2. handler[r] \in Handlers
      BY DEF HandlersTypes
    <3>3. new \in Handlers
      BY <3>1, <3>2 DEF Handlers
    <3>4. handler' = [handler EXCEPT ![r] = new]
      BY <1>4 DEF TouchReply, HandlersTypes, Handlers, place
    <3> QED BY <3>3, <3>4 DEF HandlersTypes
  <2>2. docs' \in [Requests -> Documents]
    BY <1>4 DEF TouchReply, HandlersTypes
  <2>3. HandlersTypes'
    BY <1>4, <2>1, <2>2 DEF TouchReply, Noted, HandlersTypes
  <2>4. \A q \in Requests \ {r} : UNCHANGED Local(q)
    BY <1>1, <1>4 DEF TouchReply, Noted, telemetryVars, HandlersTypes, Local
  <2>5. Logged(r) /\ Storing(r) /\ Answered(r) /\ Consistent(r) /\ Truthful(r)
    BY DEF RequestInvariant
  <2>6. RequestInvariant(r)'
    <3>1. Logged(r)'
      BY <1>1, <1>4, <2>5 DEF TouchReply, Repair, AfterRepair, At, Noted, telemetryVars,
         HandlersTypes, Handlers, Documents, Asks, Logged, Before, Bookkeeping, Streaming, Strict
    <3>2. Storing(r)'
      BY <1>1, <1>4, <2>5 DEF TouchReply, Repair, AfterRepair, At, Noted, telemetryVars,
         HandlersTypes, Handlers, Documents, Asks, Storing, Chats, Verdict
    <3>3. Answered(r)'
      BY <1>1, <1>4, <2>5 DEF TouchReply, Repair, AfterRepair, At, Noted, telemetryVars,
         HandlersTypes, Handlers, Documents, Asks, Answered, Storing, Ended, Kept, Chats, Strict,
         Verdict, Streaming
    <3>4. Consistent(r)'
      <4>1. CASE call # "done"
        BY <1>4, <4>1 DEF TouchReply, Noted, HandlersTypes, Consistent, Calm
      <4>2. CASE call = "done"
        <5>1. handler' = [handler EXCEPT ![r].reply = TRUE, ![r].place = "finish"]
          BY <1>4, <4>2 DEF TouchReply
        <5>2. /\ asked'[r] = asked[r] /\ granite'[r] = granite[r] /\ failed'[r] = failed[r]
              /\ handler'[r].place = "finish"
              /\ handler'[r].user = handler[r].user /\ handler'[r].reply = TRUE
              /\ handler'[r].context = handler[r].context /\ handler'[r].answer = handler[r].answer
              /\ handler'[r].incomplete = handler[r].incomplete
              /\ handler'[r].recorded = handler[r].recorded
              /\ docs'[r].user = docs[r].user /\ docs'[r].reply = docs[r].reply
              /\ docs'[r].context = docs[r].context
          BY <5>1, <1>4, <4>2 DEF TouchReply, Noted, HandlersTypes, Handlers, Documents
        <5>3. handler[r] \in Handlers /\ docs[r] \in Documents /\ handler[r].place = "touchReply"
          BY <1>4 DEF TouchReply, At, HandlersTypes
        <5> QED BY <2>5, <5>2, <5>3
             DEF Consistent, Storing, Answered, Calm, Withdrawn, Unanswered, Ended, Chats,
                 Verdict, Streaming, Handlers, Documents, Bookkeeping
      <4> QED BY <4>1, <4>2
    <3>5. Truthful(r)'
      BY <1>1, <1>4, <2>5 DEF TouchReply, Repair, AfterRepair, At, Noted, telemetryVars,
         HandlersTypes, Handlers, Documents, Asks, Truthful, Answered, Ended, Strict, IsOpen
    <3> QED BY <3>1, <3>2, <3>3, <3>4, <3>5 DEF RequestInvariant
  <2> QED BY <2>3, <2>4, <2>6 DEF Keeps
<1>5. ASSUME NEW call \in Calls, SaveContext(r, call) PROVE Keeps(r)
  <2>1. handler' \in [Requests -> Handlers]
    <3> DEFINE place == (IF call = "done" THEN "finish" ELSE Repair(r))
               new == [handler[r] EXCEPT !.context = call = "done",
                                        !.place = place]
    <3>1. place \in Places
      BY DEF Places, Bookkeeping, Repair, AfterRepair
    <3> HIDE DEF place
    <3>2. handler[r] \in Handlers
      BY DEF HandlersTypes
    <3>3. new \in Handlers
      BY <3>1, <3>2 DEF Handlers
    <3>4. handler' = [handler EXCEPT ![r] = new]
      BY <1>5 DEF SaveContext, HandlersTypes, Handlers, place
    <3> QED BY <3>3, <3>4 DEF HandlersTypes
  <2>2. docs' \in [Requests -> Documents]
    <3>1. docs' = docs \/ docs' = [docs EXCEPT ![r].context = TRUE]
      BY <1>5 DEF SaveContext, Stores
    <3> QED BY <3>1, DocsKeepTypes
  <2>3. HandlersTypes'
    BY <1>5, <2>1, <2>2 DEF SaveContext, Stores, Noted, HandlersTypes
  <2>4. \A q \in Requests \ {r} : UNCHANGED Local(q)
    BY <1>1, <1>5 DEF SaveContext, Noted, Stores, telemetryVars, HandlersTypes, Local
  <2>5. Logged(r) /\ Storing(r) /\ Answered(r) /\ Consistent(r) /\ Truthful(r)
    BY DEF RequestInvariant
  <2>6. RequestInvariant(r)'
    <3>1. Logged(r)'
      BY <1>1, <1>5, <2>5 DEF SaveContext, Repair, AfterRepair, At, Noted, Stores, TookEffect,
         telemetryVars, HandlersTypes, Handlers, Documents, Asks, Logged, Before, Bookkeeping,
         Streaming, Strict
    <3>2. Storing(r)'
      BY <1>1, <1>5, <2>5 DEF SaveContext, Repair, AfterRepair, At, Noted, Stores, TookEffect,
         telemetryVars, HandlersTypes, Handlers, Documents, Asks, Storing, Chats, Verdict
    <3>3. Answered(r)'
      BY <1>1, <1>5, <2>5 DEF SaveContext, Repair, AfterRepair, At, Noted, Stores, TookEffect,
         telemetryVars, HandlersTypes, Handlers, Documents, Asks, Answered, Storing, Ended, Kept,
         Chats, Strict, Verdict, Streaming
    <3>4. Consistent(r)'
      <4>1. CASE call # "done"
        BY <1>5, <4>1 DEF SaveContext, Stores, Noted, HandlersTypes, Consistent, Calm
      <4>2. CASE call = "done"
        <5>1. handler' = [handler EXCEPT ![r].context = TRUE, ![r].place = "finish"]
          BY <1>5, <4>2 DEF SaveContext
        <5>2. /\ asked'[r] = asked[r] /\ granite'[r] = granite[r] /\ failed'[r] = failed[r]
              /\ handler'[r].place = "finish"
              /\ handler'[r].user = handler[r].user /\ handler'[r].reply = handler[r].reply
              /\ handler'[r].context = TRUE /\ handler'[r].answer = handler[r].answer
              /\ handler'[r].incomplete = handler[r].incomplete
              /\ handler'[r].recorded = handler[r].recorded
              /\ docs'[r].user = docs[r].user /\ docs'[r].reply = docs[r].reply
              /\ docs'[r].context = TRUE
          BY <5>1, <1>5, <4>2 DEF SaveContext, Stores, Noted, TookEffect, HandlersTypes,
             Handlers, Documents
        <5>3. handler[r] \in Handlers /\ docs[r] \in Documents /\ handler[r].place = "saveContext"
          BY <1>5 DEF SaveContext, At, HandlersTypes
        <5> QED BY <2>5, <5>2, <5>3
             DEF Consistent, Storing, Answered, Calm, Withdrawn, Unanswered, Ended, Chats,
                 Verdict, Streaming, Handlers, Documents, Bookkeeping
      <4> QED BY <4>1, <4>2
    <3>5. Truthful(r)'
      BY <1>1, <1>5, <2>5 DEF SaveContext, Repair, AfterRepair, At, Noted, Stores, TookEffect,
         telemetryVars, HandlersTypes, Handlers, Documents, Asks, Truthful, Answered, Ended,
         Strict, IsOpen
    <3> QED BY <3>1, <3>2, <3>3, <3>4, <3>5 DEF RequestInvariant
  <2> QED BY <2>3, <2>4, <2>6 DEF Keeps
<1>6. ASSUME NEW call \in Calls, Finish(r, call) PROVE Keeps(r)
  <2>1. handler' \in [Requests -> Handlers]
    <3> DEFINE place == (IF Refuses(r, call)
         THEN IF handler[r].context THEN "dropContext"
              ELSE IF handler[r].user THEN "failUser"
              ELSE IF Streaming(r) THEN "fail" ELSE "answer"
         ELSE IF Streaming(r) THEN "suffix" ELSE "answer")
               new == [handler[r] EXCEPT !.recorded = ~Streaming(r) \/ ~Refuses(r, call),
                                        !.answer = IF Refuses(r, call) THEN "error"
                   ELSE IF handler[r].incomplete THEN "incomplete" ELSE "completed",
                                      !.place = place]
    <3>1. place \in Places
      BY DEF Places, Bookkeeping
    <3> HIDE DEF place
    <3>2. handler[r] \in Handlers
      BY DEF HandlersTypes
    <3>3. new \in Handlers
      BY <3>1, <3>2 DEF Handlers
    <3>4. handler' = [handler EXCEPT ![r] = new]
      BY <1>6 DEF Finish, HandlersTypes, Handlers, place
    <3> QED BY <3>3, <3>4 DEF HandlersTypes
  <2>2. docs' \in [Requests -> Documents]
    BY <1>6 DEF Finish, HandlersTypes
  <2>3. HandlersTypes'
    BY <1>6, <2>1, <2>2 DEF Finish, RecordTerminal, Noted, HandlersTypes
  <2>4. \A q \in Requests \ {r} : UNCHANGED Local(q)
    BY <1>1, <1>6 DEF Finish, RecordTerminal, Noted, HandlersTypes, Local
  <2>5. Logged(r) /\ Storing(r) /\ Answered(r) /\ Consistent(r) /\ Truthful(r)
    BY DEF RequestInvariant
  <2>6. RequestInvariant(r)'
    <3>1. Logged(r)'
      BY <1>1, <1>6, <2>5 DEF Finish, Refuses, Record, RecordTerminal, Matched, Persists, Counts,
         At, Noted, TookEffect, HandlersTypes, Handlers, Documents, Records, CountedInOrder,
         Asks, Logged, Before, Bookkeeping, Streaming, Strict
    <3>2. Storing(r)'
      BY <1>1, <1>6, <2>5 DEF Finish, At, Noted, TookEffect, HandlersTypes, Handlers, Documents,
         Asks, Storing, Chats, Verdict
    <3>3. Answered(r)'
      BY <1>1, <1>6, <2>5 DEF Finish, Refuses, Record, RecordTerminal, Matched, Persists, Counts,
         At, Noted, TookEffect, HandlersTypes, Handlers, Documents, Records, CountedInOrder,
         Asks, Answered, Storing, Ended, Kept, Chats, Strict, Verdict, Streaming
    <3>4. Consistent(r)'
      BY <1>1, <1>6, <2>5 DEF Finish, At, Noted, TookEffect, HandlersTypes, Handlers, Documents,
         Asks, Consistent, Storing, Answered, Calm, Withdrawn, Unanswered, Ended, Bookkeeping,
         Chats, Verdict, Streaming
    <3>5. Truthful(r)'
      <4> SUFFICES ASSUME failed'[r] = {}, record'[r] # Absent PROVE Truthful(r)'
        BY DEF Truthful
      <4>1. call = "done" /\ failed[r] = {}
        BY <1>6 DEF Finish, Noted, HandlersTypes
      <4>2. record[r] # Absent
        BY <1>1, <1>6 DEF Finish, RecordTerminal, Matched, IsOpen, Absent
      <4>3. IsOpen(r) /\ handle[r].persisted
        BY <1>6, <2>5, <4>1, <4>2 DEF Finish, At, Truthful, Ended
      <4>4. ~Refuses(r, call)
        BY <4>1, <4>3 DEF Refuses, Persists, Matched
      <4>5. /\ record'[r].state = "terminal"
            /\ record'[r].outcome = IF handler[r].incomplete THEN "failed" ELSE "completed"
            /\ record'[r].delivery \in {"pending", "none"}
        BY <1>1, <1>6, <4>1, <4>3 DEF Finish, RecordTerminal, Record, Matched, TookEffect
      <4>6. /\ handler'[r].place \in {"suffix", "answer"}
            /\ handler'[r].answer = IF handler[r].incomplete THEN "incomplete" ELSE "completed"
        BY <1>6, <4>4 DEF Finish, HandlersTypes, Handlers
      <4> QED BY <4>5, <4>6 DEF Truthful, Ended
    <3> QED BY <3>1, <3>2, <3>3, <3>4, <3>5 DEF RequestInvariant
  <2> QED BY <2>3, <2>4, <2>6 DEF Keeps
<1>7. ASSUME NEW call \in Calls, DropContext(r, call) PROVE Keeps(r)
  <2>1. handler' \in [Requests -> Handlers]
    <3>1. Repair(r) \in Places
      BY DEF Places, Bookkeeping, Repair, AfterRepair
    <3> QED BY <1>7, <3>1, GotoKeepsTypes DEF DropContext
  <2>2. docs' \in [Requests -> Documents]
    <3>1. docs' = docs \/ docs' = [docs EXCEPT ![r].context = FALSE]
      BY <1>7 DEF DropContext, Stores
    <3> QED BY <3>1, DocsKeepTypes
  <2>3. HandlersTypes'
    BY <1>7, <2>1, <2>2 DEF DropContext, Stores, Noted, HandlersTypes
  <2>4. \A q \in Requests \ {r} : UNCHANGED Local(q)
    BY <1>1, <1>7 DEF DropContext, Goto, Noted, Stores, telemetryVars, HandlersTypes, Local
  <2>5. Logged(r) /\ Storing(r) /\ Answered(r) /\ Consistent(r) /\ Truthful(r)
    BY DEF RequestInvariant
  <2>6. RequestInvariant(r)'
    <3>1. Logged(r)'
      BY <1>1, <1>7, <2>5 DEF DropContext, Repair, AfterRepair, At, Goto, Noted, Stores,
         TookEffect, telemetryVars, HandlersTypes, Handlers, Documents, Asks, Logged, Before,
         Bookkeeping, Streaming, Strict
    <3>2. Storing(r)'
      BY <1>1, <1>7, <2>5 DEF DropContext, Repair, AfterRepair, At, Goto, Noted, Stores,
         TookEffect, telemetryVars, HandlersTypes, Handlers, Documents, Asks, Storing, Chats,
         Verdict
    <3>3. Answered(r)'
      BY <1>1, <1>7, <2>5 DEF DropContext, Repair, AfterRepair, At, Goto, Noted, Stores,
         TookEffect, telemetryVars, HandlersTypes, Handlers, Documents, Asks, Answered, Storing,
         Ended, Kept, Chats, Strict, Verdict, Streaming
    <3>4. Consistent(r)'
      <4>1. CASE call # "done"
        BY <1>7, <4>1 DEF DropContext, Stores, Noted, HandlersTypes, Consistent, Calm
      <4>2. CASE call = "done"
        <5>2. /\ asked'[r] = asked[r] /\ granite'[r] = granite[r] /\ failed'[r] = failed[r]
              /\ handler'[r].place = Repair(r)
              /\ handler'[r].user = handler[r].user /\ handler'[r].reply = handler[r].reply
              /\ handler'[r].context = handler[r].context /\ handler'[r].answer = handler[r].answer
              /\ handler'[r].incomplete = handler[r].incomplete
              /\ handler'[r].recorded = handler[r].recorded
              /\ docs'[r].user = docs[r].user /\ docs'[r].reply = docs[r].reply
              /\ docs'[r].context = FALSE
          BY <1>7, <4>2 DEF DropContext, Stores, Noted, TookEffect, Goto, HandlersTypes,
             Handlers, Documents
        <5>3. handler[r] \in Handlers /\ docs[r] \in Documents /\ handler[r].place = "dropContext"
          BY <1>7 DEF DropContext, At, HandlersTypes
        <5> QED BY <2>5, <5>2, <5>3
             DEF Consistent, Storing, Answered, Calm, Withdrawn, Unanswered, Ended, Chats,
                 Verdict, Streaming, Handlers, Documents, Bookkeeping, Repair, AfterRepair
      <4> QED BY <4>1, <4>2
    <3>5. Truthful(r)'
      BY <1>1, <1>7, <2>5 DEF DropContext, Repair, AfterRepair, At, Goto, Noted, Stores,
         TookEffect, telemetryVars, HandlersTypes, Handlers, Documents, Asks, Truthful, Answered,
         Ended, Strict, IsOpen
    <3> QED BY <3>1, <3>2, <3>3, <3>4, <3>5 DEF RequestInvariant
  <2> QED BY <2>3, <2>4, <2>6 DEF Keeps
<1> QED BY <1>2, <1>3, <1>4, <1>5, <1>6, <1>7

LEMMA Failing ==
    ASSUME TelemetryInvariant, HandlersTypes, NEW r \in Requests, RequestInvariant(r)
    PROVE  /\ \A call \in Calls : FailUser(r, call) => Keeps(r)
           /\ \A call \in Calls : FailReply(r, call) => Keeps(r)
           /\ \A call \in Calls : CopyReply(r, call) => Keeps(r)
           /\ \A call \in Calls : TouchCopy(r, call) => Keeps(r)
           /\ \A outcome \in Outcomes \ {"completed"}, call \in Calls :
                 Fail(r, outcome, call) => Keeps(r)
<1>1. /\ record \in [Requests -> Records]
      /\ handle \in [Requests -> [persisted : BOOLEAN, counted : BOOLEAN]]
      /\ CountedInOrder
  BY DEF TelemetryInvariant, TelemetryTypeOK
<1>2. ASSUME NEW call \in Calls, FailUser(r, call) PROVE Keeps(r)
  <2>1. handler' \in [Requests -> Handlers]
    <3>1. AfterFailUser(r, call) \in Places
      BY DEF Places, Bookkeeping, AfterFailUser, AfterRepair
    <3> QED BY <1>2, <3>1, GotoKeepsTypes DEF FailUser
  <2>2. docs' \in [Requests -> Documents]
    BY <1>2 DEF FailUser, Stores, HandlersTypes, Documents
  <2>3. HandlersTypes'
    BY <1>2, <2>1, <2>2 DEF FailUser, Stores, Noted, HandlersTypes
  <2>4. \A q \in Requests \ {r} : UNCHANGED Local(q)
    BY <1>1, <1>2 DEF FailUser, Goto, Noted, Stores, telemetryVars, HandlersTypes, Local
  <2>5. Logged(r) /\ Storing(r) /\ Answered(r) /\ Consistent(r) /\ Truthful(r)
    BY DEF RequestInvariant
  <2>6. RequestInvariant(r)'
    <3>1. Logged(r)'
      BY <1>1, <1>2, <2>5 DEF FailUser, AfterFailUser, AfterRepair, At, Goto, Noted, Stores,
         TookEffect, telemetryVars, HandlersTypes, Handlers, Documents, Asks, Logged, Before,
         Bookkeeping, Streaming, Strict
    <3>2. Storing(r)'
      BY <1>1, <1>2, <2>5 DEF FailUser, AfterFailUser, AfterRepair, At, Goto, Noted, Stores,
         TookEffect, telemetryVars, HandlersTypes, Handlers, Documents, Asks, Storing, Chats,
         Verdict
    <3>3. Answered(r)'
      BY <1>1, <1>2, <2>5 DEF FailUser, AfterFailUser, AfterRepair, At, Goto, Noted, Stores,
         TookEffect, telemetryVars, HandlersTypes, Handlers, Documents, Asks, Answered, Storing,
         Ended, Kept, Chats, Strict, Verdict, Streaming
    <3>4. Consistent(r)'
      <4>1. CASE call # "done"
        BY <1>2, <4>1 DEF FailUser, Stores, Noted, HandlersTypes, Consistent, Calm
      <4>2. CASE call = "done"
        <5>2. /\ asked'[r] = asked[r] /\ granite'[r] = granite[r] /\ failed'[r] = failed[r]
              /\ handler'[r].place = AfterFailUser(r, "done")
              /\ handler'[r].user = handler[r].user /\ handler'[r].reply = handler[r].reply
              /\ handler'[r].context = handler[r].context /\ handler'[r].answer = handler[r].answer
              /\ handler'[r].incomplete = handler[r].incomplete
              /\ handler'[r].recorded = handler[r].recorded
              /\ docs'[r].user = "failed" /\ docs'[r].reply = docs[r].reply
              /\ docs'[r].context = docs[r].context
          BY <1>2, <4>2 DEF FailUser, Stores, Noted, TookEffect, Goto, HandlersTypes, Handlers,
             Documents
        <5>3. handler[r] \in Handlers /\ docs[r] \in Documents /\ handler[r].place = "failUser"
          BY <1>2 DEF FailUser, At, HandlersTypes
        <5> QED BY <2>5, <5>2, <5>3
             DEF Consistent, Storing, Answered, Calm, Withdrawn, Unanswered, Ended, Chats,
                 Verdict, Streaming, Handlers, Documents, Bookkeeping, AfterFailUser, AfterRepair
      <4> QED BY <4>1, <4>2
    <3>5. Truthful(r)'
      BY <1>1, <1>2, <2>5 DEF FailUser, AfterFailUser, AfterRepair, At, Goto, Noted, Stores,
         TookEffect, telemetryVars, HandlersTypes, Handlers, Documents, Asks, Truthful, Answered,
         Ended, Strict, IsOpen
    <3> QED BY <3>1, <3>2, <3>3, <3>4, <3>5 DEF RequestInvariant
  <2> QED BY <2>3, <2>4, <2>6 DEF Keeps
<1>3. ASSUME NEW call \in Calls, FailReply(r, call) PROVE Keeps(r)
  <2>1. handler' \in [Requests -> Handlers]
    <3>1. AfterRepair(r) \in Places
      BY DEF Places, Bookkeeping, AfterRepair
    <3> QED BY <1>3, <3>1, GotoKeepsTypes DEF FailReply
  <2>2. docs' \in [Requests -> Documents]
    <3>1. docs' = docs \/ docs' = [docs EXCEPT ![r].reply = "failed"]
      BY <1>3 DEF FailReply, Stores
    <3> QED BY <3>1, DocsKeepTypes
  <2>3. HandlersTypes'
    BY <1>3, <2>1, <2>2 DEF FailReply, Stores, Noted, HandlersTypes
  <2>4. \A q \in Requests \ {r} : UNCHANGED Local(q)
    BY <1>1, <1>3 DEF FailReply, Goto, Noted, Stores, telemetryVars, HandlersTypes, Local
  <2>5. Logged(r) /\ Storing(r) /\ Answered(r) /\ Consistent(r) /\ Truthful(r)
    BY DEF RequestInvariant
  <2>6. RequestInvariant(r)'
    <3>1. Logged(r)'
      BY <1>1, <1>3, <2>5 DEF FailReply, AfterRepair, At, Goto, Noted, Stores, TookEffect,
         telemetryVars, HandlersTypes, Handlers, Documents, Asks, Logged, Before, Bookkeeping,
         Streaming, Strict
    <3>2. Storing(r)'
      BY <1>1, <1>3, <2>5 DEF FailReply, AfterRepair, At, Goto, Noted, Stores, TookEffect,
         telemetryVars, HandlersTypes, Handlers, Documents, Asks, Storing, Chats, Verdict
    <3>3. Answered(r)'
      BY <1>1, <1>3, <2>5 DEF FailReply, AfterRepair, At, Goto, Noted, Stores, TookEffect,
         telemetryVars, HandlersTypes, Handlers, Documents, Asks, Answered, Storing, Ended, Kept,
         Chats, Strict, Verdict, Streaming
    <3>4. Consistent(r)'
      <4>1. CASE call # "done"
        BY <1>3, <4>1 DEF FailReply, Stores, Noted, HandlersTypes, Consistent, Calm
      <4>2. CASE call = "done"
        <5>2. /\ asked'[r] = asked[r] /\ granite'[r] = granite[r] /\ failed'[r] = failed[r]
              /\ handler'[r].place = AfterRepair(r)
              /\ handler'[r].user = handler[r].user /\ handler'[r].reply = handler[r].reply
              /\ handler'[r].context = handler[r].context /\ handler'[r].answer = handler[r].answer
              /\ handler'[r].incomplete = handler[r].incomplete
              /\ handler'[r].recorded = handler[r].recorded
              /\ docs'[r].user = docs[r].user /\ docs'[r].reply = "failed"
              /\ docs'[r].context = docs[r].context
          BY <1>3, <4>2 DEF FailReply, Stores, Noted, TookEffect, Goto, HandlersTypes, Handlers,
             Documents
        <5>3. handler[r] \in Handlers /\ docs[r] \in Documents /\ handler[r].place = "failReply"
          BY <1>3 DEF FailReply, At, HandlersTypes
        <5> QED BY <2>5, <5>2, <5>3
             DEF Consistent, Storing, Answered, Calm, Withdrawn, Unanswered, Ended, Chats,
                 Verdict, Streaming, Handlers, Documents, Bookkeeping, AfterRepair
      <4> QED BY <4>1, <4>2
    <3>5. Truthful(r)'
      BY <1>1, <1>3, <2>5 DEF FailReply, AfterRepair, At, Goto, Noted, Stores, TookEffect,
         telemetryVars, HandlersTypes, Handlers, Documents, Asks, Truthful, Answered, Ended,
         Strict, IsOpen
    <3> QED BY <3>1, <3>2, <3>3, <3>4, <3>5 DEF RequestInvariant
  <2> QED BY <2>3, <2>4, <2>6 DEF Keeps
<1>4. ASSUME NEW call \in Calls, CopyReply(r, call) PROVE Keeps(r)
  <2>1. handler' \in [Requests -> Handlers]
    <3>1. (IF call = "done" THEN "touchCopy" ELSE "fail") \in Places
      BY DEF Places, Bookkeeping
    <3> QED BY <1>4, <3>1, GotoKeepsTypes DEF CopyReply
  <2>2. docs' \in [Requests -> Documents]
    <3>1. docs' = docs \/ docs' = [docs EXCEPT ![r].copy = TRUE]
      BY <1>4 DEF CopyReply, Stores
    <3> QED BY <3>1, DocsKeepTypes
  <2>3. HandlersTypes'
    BY <1>4, <2>1, <2>2 DEF CopyReply, Stores, Noted, HandlersTypes
  <2>4. \A q \in Requests \ {r} : UNCHANGED Local(q)
    BY <1>1, <1>4 DEF CopyReply, Goto, Noted, Stores, telemetryVars, HandlersTypes, Local
  <2>5. Logged(r) /\ Storing(r) /\ Answered(r) /\ Consistent(r) /\ Truthful(r)
    BY DEF RequestInvariant
  <2>6. RequestInvariant(r)'
    <3>1. Logged(r)'
      BY <1>1, <1>4, <2>5 DEF CopyReply, At, Goto, Noted, Stores, TookEffect, telemetryVars,
         HandlersTypes, Handlers, Documents, Asks, Logged, Before, Bookkeeping, Streaming, Strict
    <3>2. Storing(r)'
      BY <1>1, <1>4, <2>5 DEF CopyReply, At, Goto, Noted, Stores, TookEffect, telemetryVars,
         HandlersTypes, Handlers, Documents, Asks, Storing, Chats, Verdict
    <3>3. Answered(r)'
      BY <1>1, <1>4, <2>5 DEF CopyReply, At, Goto, Noted, Stores, TookEffect, telemetryVars,
         HandlersTypes, Handlers, Documents, Asks, Answered, Storing, Ended, Kept, Chats, Strict,
         Verdict, Streaming
    <3>4. Consistent(r)'
      BY <1>1, <1>4, <2>5 DEF CopyReply, At, Goto, Noted, Stores, TookEffect, telemetryVars,
         HandlersTypes, Handlers, Documents, Asks, Consistent, Storing, Answered, Calm,
         Withdrawn, Unanswered, Ended, Bookkeeping, Chats, Verdict, Streaming
    <3>5. Truthful(r)'
      BY <1>1, <1>4, <2>5 DEF CopyReply, At, Goto, Noted, Stores, TookEffect, telemetryVars,
         HandlersTypes, Handlers, Documents, Asks, Truthful, Answered, Ended, Strict, IsOpen
    <3> QED BY <3>1, <3>2, <3>3, <3>4, <3>5 DEF RequestInvariant
  <2> QED BY <2>3, <2>4, <2>6 DEF Keeps
<1>5. ASSUME NEW call \in Calls, TouchCopy(r, call) PROVE Keeps(r)
  <2>1. handler' \in [Requests -> Handlers]
    <3>1. "fail" \in Places
      BY DEF Places, Bookkeeping
    <3> QED BY <1>5, <3>1, GotoKeepsTypes DEF TouchCopy
  <2>2. docs' \in [Requests -> Documents]
    BY <1>5 DEF TouchCopy, HandlersTypes
  <2>3. HandlersTypes'
    BY <1>5, <2>1, <2>2 DEF TouchCopy, Noted, HandlersTypes
  <2>4. \A q \in Requests \ {r} : UNCHANGED Local(q)
    BY <1>1, <1>5 DEF TouchCopy, Goto, Noted, telemetryVars, HandlersTypes, Local
  <2>5. Logged(r) /\ Storing(r) /\ Answered(r) /\ Consistent(r) /\ Truthful(r)
    BY DEF RequestInvariant
  <2>6. RequestInvariant(r)'
    <3>1. Logged(r)'
      BY <1>1, <1>5, <2>5 DEF TouchCopy, At, Goto, Noted, telemetryVars, HandlersTypes, Handlers,
         Documents, Asks, Logged, Before, Bookkeeping, Streaming, Strict
    <3>2. Storing(r)'
      BY <1>1, <1>5, <2>5 DEF TouchCopy, At, Goto, Noted, telemetryVars, HandlersTypes, Handlers,
         Documents, Asks, Storing, Chats, Verdict
    <3>3. Answered(r)'
      BY <1>1, <1>5, <2>5 DEF TouchCopy, At, Goto, Noted, telemetryVars, HandlersTypes, Handlers,
         Documents, Asks, Answered, Storing, Ended, Kept, Chats, Strict, Verdict, Streaming
    <3>4. Consistent(r)'
      BY <1>1, <1>5, <2>5 DEF TouchCopy, At, Goto, Noted, telemetryVars, HandlersTypes, Handlers,
         Documents, Asks, Consistent, Storing, Answered, Calm, Withdrawn, Unanswered, Ended,
         Bookkeeping, Chats, Verdict, Streaming
    <3>5. Truthful(r)'
      BY <1>1, <1>5, <2>5 DEF TouchCopy, At, Goto, Noted, telemetryVars, HandlersTypes, Handlers,
         Documents, Asks, Truthful, Answered, Ended, Strict, IsOpen
    <3> QED BY <3>1, <3>2, <3>3, <3>4, <3>5 DEF RequestInvariant
  <2> QED BY <2>3, <2>4, <2>6 DEF Keeps
<1>6. ASSUME NEW outcome \in Outcomes \ {"completed"}, NEW call \in Calls, Fail(r, outcome, call)
      PROVE  Keeps(r)
  <2>1. handler' \in [Requests -> Handlers]
    <3> DEFINE place == (IF ~Streaming(r) THEN "answer"
         ELSE IF client[r] = "gone" THEN "close" ELSE "errorFrame")
               new == [handler[r] EXCEPT !.recorded = TRUE,
                                        !.answer = "error",
                                        !.place = place]
    <3>1. place \in Places
      BY DEF Places, Bookkeeping
    <3> HIDE DEF place
    <3>2. handler[r] \in Handlers
      BY DEF HandlersTypes
    <3>3. new \in Handlers
      BY <3>1, <3>2 DEF Handlers
    <3>4. handler' = [handler EXCEPT ![r] = new]
      BY <1>6 DEF Fail, HandlersTypes, Handlers, place
    <3> QED BY <3>3, <3>4 DEF HandlersTypes
  <2>2. docs' \in [Requests -> Documents]
    BY <1>6 DEF Fail, HandlersTypes
  <2>3. HandlersTypes'
    BY <1>6, <2>1, <2>2 DEF Fail, RecordTerminal, Noted, HandlersTypes
  <2>4. \A q \in Requests \ {r} : UNCHANGED Local(q)
    BY <1>1, <1>6 DEF Fail, RecordTerminal, Noted, HandlersTypes, Local
  <2>5. Logged(r) /\ Storing(r) /\ Answered(r) /\ Consistent(r) /\ Truthful(r)
    BY DEF RequestInvariant
  <2>6. RequestInvariant(r)'
    <3>1. Logged(r)'
      BY <1>1, <1>6, <2>5 DEF Fail, Record, RecordTerminal, Matched, Persists, Counts, At, Noted,
         TookEffect, HandlersTypes, Handlers, Documents, Records, CountedInOrder, Asks, Logged,
         Before, Bookkeeping, Streaming, Strict
    <3>2. Storing(r)'
      BY <1>1, <1>6, <2>5 DEF Fail, At, Noted, TookEffect, HandlersTypes, Handlers, Documents,
         Asks, Storing, Chats, Verdict
    <3>3. Answered(r)'
      BY <1>1, <1>6, <2>5 DEF Fail, Record, RecordTerminal, Matched, Persists, Counts, At, Noted,
         TookEffect, HandlersTypes, Handlers, Documents, Records, CountedInOrder, Asks, Answered,
         Storing, Ended, Kept, Chats, Strict, Verdict, Streaming
    <3>4. Consistent(r)'
      BY <1>1, <1>6, <2>5 DEF Fail, At, Noted, TookEffect, HandlersTypes, Handlers, Documents,
         Asks, Consistent, Storing, Answered, Calm, Withdrawn, Unanswered, Ended, Bookkeeping,
         Chats, Verdict, Streaming
    <3>5. Truthful(r)'
      <4> SUFFICES ASSUME failed'[r] = {}, record'[r] # Absent PROVE Truthful(r)'
        BY DEF Truthful
      <4>1. call = "done" /\ failed[r] = {}
        BY <1>6 DEF Fail, Noted, HandlersTypes
      <4>2. record[r] # Absent
        BY <1>1, <1>6 DEF Fail, RecordTerminal, Matched, IsOpen, Absent
      <4>3. IsOpen(r) /\ handle[r].persisted
        BY <1>6, <2>5, <4>1, <4>2 DEF Fail, At, Truthful, Ended
      <4>4. /\ record'[r].state = "terminal" /\ record'[r].outcome # "completed"
            /\ record'[r].delivery = "none"
        BY <1>1, <1>6, <4>1, <4>3 DEF Fail, RecordTerminal, Record, Matched, TookEffect
      <4>5. /\ handler'[r].place \in {"answer", "close", "errorFrame"}
            /\ handler'[r].answer = "error"
        BY <1>6 DEF Fail, HandlersTypes, Handlers
      <4> QED BY <4>4, <4>5 DEF Truthful, Ended
    <3> QED BY <3>1, <3>2, <3>3, <3>4, <3>5 DEF RequestInvariant
  <2> QED BY <2>3, <2>4, <2>6 DEF Keeps
<1> QED BY <1>2, <1>3, <1>4, <1>5, <1>6

LEMMA Answering ==
    ASSUME TelemetryInvariant, HandlersTypes, NEW r \in Requests, RequestInvariant(r)
    PROVE  /\ \A got \in {"error", "completed", "incomplete", "gone"} : Answer(r, got) => Keeps(r)
           /\ \A got \in {"error", "completed", "incomplete", "gone"} :
                 LastFrame(r, got) => Keeps(r)
           /\ \A call \in Calls : Close(r, call) => Keeps(r)
           /\ \A call \in Calls : CountOutcome(r, call) => Keeps(r)
<1>1. /\ record \in [Requests -> Records]
      /\ handle \in [Requests -> [persisted : BOOLEAN, counted : BOOLEAN]]
      /\ CountedInOrder
  BY DEF TelemetryInvariant, TelemetryTypeOK
<1>2. ASSUME NEW got \in {"error", "completed", "incomplete", "gone"}, Answer(r, got)
      PROVE  Keeps(r)
  <2>1. handler' \in [Requests -> Handlers]
    <3>1. "done" \in Places
      BY DEF Places, Bookkeeping
    <3> QED BY <1>2, <3>1, GotoKeepsTypes DEF Answer
  <2>2. docs' \in [Requests -> Documents]
    BY <1>2 DEF Answer, HandlersTypes
  <2>3. HandlersTypes'
    BY <1>2, <2>1, <2>2 DEF Answer, HandlersTypes
  <2>4. \A q \in Requests \ {r} : UNCHANGED Local(q)
    BY <1>1, <1>2 DEF Answer, Goto, telemetryVars, HandlersTypes, Local
  <2>5. Logged(r) /\ Storing(r) /\ Answered(r) /\ Consistent(r) /\ Truthful(r)
    BY DEF RequestInvariant
  <2>6. RequestInvariant(r)'
    BY <1>1, <1>2 DEF Answer, At, Goto, telemetryVars, HandlersTypes, Handlers, Documents,
       RequestInvariant, Before, Ended, Logged, Storing, Kept, Answered, Calm, Withdrawn,
       Unanswered, Consistent, Truthful, Verdict, Streaming, Chats, Strict, IsOpen, Asks,
       Bookkeeping
  <2> QED BY <2>3, <2>4, <2>6 DEF Keeps
<1>3. ASSUME NEW got \in {"error", "completed", "incomplete", "gone"}, LastFrame(r, got)
      PROVE  Keeps(r)
  <2>1. handler' \in [Requests -> Handlers]
    <3> DEFINE place == "close"
               new == [handler[r] EXCEPT !.emitted = Emitted(r),
                                        !.place = place]
    <3>1. place \in Places
      BY DEF Places, Bookkeeping
    <3> HIDE DEF place
    <3>2. handler[r] \in Handlers
      BY DEF HandlersTypes
    <3>3. new \in Handlers
      BY <3>1, <3>2 DEF Handlers, Emitted
    <3>4. handler' = [handler EXCEPT ![r] = new]
      BY <1>3 DEF LastFrame, Emitted, HandlersTypes, Handlers, place
    <3> QED BY <3>3, <3>4 DEF HandlersTypes
  <2>2. docs' \in [Requests -> Documents]
    BY <1>3 DEF LastFrame, HandlersTypes
  <2>3. HandlersTypes'
    BY <1>3, <2>1, <2>2 DEF LastFrame, HandlersTypes
  <2>4. \A q \in Requests \ {r} : UNCHANGED Local(q)
    BY <1>1, <1>3 DEF LastFrame, telemetryVars, HandlersTypes, Local
  <2>5. Logged(r) /\ Storing(r) /\ Answered(r) /\ Consistent(r) /\ Truthful(r)
    BY DEF RequestInvariant
  <2>6. RequestInvariant(r)'
    BY <1>1, <1>3 DEF LastFrame, Emitted, At, telemetryVars, HandlersTypes, Handlers, Documents,
       RequestInvariant, Before, Ended, Logged, Storing, Kept, Answered, Calm, Withdrawn,
       Unanswered, Consistent, Truthful, Verdict, Streaming, Chats, Strict, IsOpen, Asks,
       Bookkeeping
  <2> QED BY <2>3, <2>4, <2>6 DEF Keeps
<1>4. ASSUME NEW call \in Calls, Close(r, call) PROVE Keeps(r)
  <2>1. handler' \in [Requests -> Handlers]
    <3>1. "done" \in Places
      BY DEF Places, Bookkeeping
    <3> QED BY <1>4, <3>1, GotoKeepsTypes DEF Close
  <2>2. docs' \in [Requests -> Documents]
    BY <1>4 DEF Close, HandlersTypes
  <2>3. HandlersTypes'
    BY <1>4, <2>1, <2>2 DEF Close, RecordDelivery, GraniteAfterClose, Noted, HandlersTypes
  <2>4. \A q \in Requests \ {r} : UNCHANGED Local(q)
    BY <1>1, <1>4 DEF Close, RecordDelivery, GraniteAfterClose, Goto, Noted, HandlersTypes, Local
  <2>5. Logged(r) /\ Storing(r) /\ Answered(r) /\ Consistent(r) /\ Truthful(r)
    BY DEF RequestInvariant
  <2>6. /\ record'[r] = Absent <=> record[r] = Absent
        /\ record[r] # Absent =>
              record'[r].state = record[r].state /\ record'[r].outcome = record[r].outcome
    BY <1>1, <1>4 DEF Close, RecordDelivery, Records, Absent
  <2>7. /\ handler'[r].place = "done" /\ handler'[r].answer = handler[r].answer
        /\ handler'[r].incomplete = handler[r].incomplete
        /\ handler'[r].recorded = handler[r].recorded
        /\ asked'[r] = asked[r] /\ docs'[r] = docs[r] /\ client'[r] = client[r]
    BY <1>4 DEF Close, Goto, HandlersTypes, Handlers
  <2>8. RequestInvariant(r)'
    <3>1. Logged(r)'
      BY <1>1, <1>4, <2>5 DEF Close, RecordDelivery, GraniteAfterClose, At, Goto, Noted,
         TookEffect, HandlersTypes, Handlers, Documents, Records, CountedInOrder, Asks, Logged,
         Before, Bookkeeping, Streaming, Strict
    <3>2. Storing(r)'
      BY <1>1, <1>4, <2>5 DEF Close, RecordDelivery, GraniteAfterClose, At, Goto, Noted,
         TookEffect, HandlersTypes, Handlers, Documents, Records, CountedInOrder, Asks, Storing,
         Chats, Verdict
    <3>3. Answered(r)'
      BY <1>4, <2>5, <2>6, <2>7 DEF Close, At, Answered, Ended, Kept, Chats, Strict
    <3>4. Consistent(r)'
      BY <1>1, <1>4, <2>5 DEF Close, RecordDelivery, GraniteAfterClose, At, Goto, Noted,
         TookEffect, HandlersTypes, Handlers, Documents, Records, CountedInOrder, Asks,
         Consistent, Storing, Answered, Calm, Withdrawn, Unanswered, Ended, Bookkeeping, Chats,
         Verdict, Streaming
    <3>5. Truthful(r)'
      <4> SUFFICES ASSUME failed'[r] = {}, record'[r] # Absent PROVE Truthful(r)'
        BY DEF Truthful
      <4>1. call = "done" /\ failed[r] = {}
        BY <1>4 DEF Close, Noted, HandlersTypes
      <4>2. handler[r].place = "close"
        BY <1>4 DEF Close, At
      <4>3. record'[r].delivery = "client_disconnected" => client[r] = "gone"
        BY <1>1, <1>4, <2>5, <2>6, <4>1, <4>2 DEF Close, RecordDelivery, Truthful, Ended,
           Records, Absent
      <4> QED BY <2>5, <2>6, <2>7, <4>1, <4>2, <4>3 DEF Truthful, Ended
    <3> QED BY <3>1, <3>2, <3>3, <3>4, <3>5 DEF RequestInvariant
  <2> QED BY <2>3, <2>4, <2>8 DEF Keeps
<1>5. ASSUME NEW call \in Calls, CountOutcome(r, call) PROVE Keeps(r)
  <2>1. handler' \in [Requests -> Handlers]
    BY <1>5 DEF CountOutcome, CountTerminal, handlerVars, HandlersTypes, Handlers
  <2>2. docs' \in [Requests -> Documents]
    BY <1>5 DEF CountOutcome, HandlersTypes, handlerVars
  <2>3. HandlersTypes'
    BY <1>5, <2>1, <2>2 DEF CountOutcome, CountTerminal, handlerVars, HandlersTypes
  <2>4. \A q \in Requests \ {r} : UNCHANGED Local(q)
    BY <1>1, <1>5 DEF CountOutcome, CountTerminal, handlerVars, HandlersTypes, Local
  <2>5. Logged(r) /\ Storing(r) /\ Answered(r) /\ Consistent(r) /\ Truthful(r)
    BY DEF RequestInvariant
  <2>6. RequestInvariant(r)'
    BY <1>1, <1>5 DEF CountOutcome, CountTerminal, handlerVars, TookEffect, HandlersTypes,
       Handlers, Documents, RequestInvariant, Before, Ended, Logged, Storing, Kept, Answered,
       Calm, Withdrawn, Unanswered, Consistent, Truthful, Verdict, Streaming, Chats, Strict,
       IsOpen, Asks, Bookkeeping
  <2> QED BY <2>3, <2>4, <2>6 DEF Keeps
<1> QED BY <1>2, <1>3, <1>4, <1>5

-----------------------------------------------------------------------------
(***************************************************************************)
(* The handlers keep the invariant.                                        *)
(***************************************************************************)
LEMMA EveryHandlerStep ==
    ASSUME TelemetryInvariant, HandlersTypes, NEW r \in Requests, RequestInvariant(r),
           \/ Handle(r) \/ Ends(r) \/ ClientLeaves(r)
           \/ \E text \in {"blank", "some"} : Delta(r, text)
    PROVE  Keeps(r)
<1>1. CASE Handle(r)
  BY <1>1, BeforeTheModel, TheModel, StoringTheOutcome, Failing, Answering DEF Handle
<1>2. CASE Ends(r)
  BY <1>2, TheModel DEF Ends
<1>3. CASE ClientLeaves(r) \/ \E text \in {"blank", "some"} : Delta(r, text)
  BY <1>3, TheModel
<1> QED BY <1>1, <1>2, <1>3

\* A purged record is not spoken of any more.
LEMMA PurgedRequest ==
    ASSUME NEW r, RequestInvariant(r), UNCHANGED handlerVars, handle'[r] = handle[r],
           record'[r] = record[r] \/ record'[r] = Absent
    PROVE  RequestInvariant(r)'
<1> USE DEF handlerVars, RequestInvariant, Ended, Chats, Strict, Streaming, Verdict
<1>1. Logged(r)' /\ Storing(r)' /\ Answered(r)'
  BY DEF Logged, Before, Storing, Kept, Answered
<1>2. Consistent(r)'
  BY DEF Consistent, Calm, Withdrawn, Unanswered
<1>3. Truthful(r)'
  BY DEF Truthful, IsOpen
<1> QED BY <1>1, <1>2, <1>3

LEMMA MaintenancePurges ==
    ASSUME TelemetryTypeOK, Maintenance
    PROVE  /\ handle' = handle
           /\ \A r \in Requests : record'[r] = record[r] \/ record'[r] = Absent
BY DEF Maintenance, RefreshStart, RefreshRead, RefreshWrite, Purge, Tick, TelemetryTypeOK

LEMMA InitResponsesInvariant == ResponsesInit => ResponsesInvariant
<1> SUFFICES ASSUME ResponsesInit PROVE ResponsesInvariant
  OBVIOUS
<1>1. TelemetryInvariant
  BY InitTelemetryInvariant DEF ResponsesInit
<1>2. HandlersTypes
  BY DEF ResponsesInit, NewHandler, HandlersTypes, Handlers, Documents, Places, Bookkeeping
<1>3. ASSUME NEW r \in Requests PROVE RequestInvariant(r)
  <2>1. /\ handler[r] = NewHandler /\ granite[r] = "idle" /\ client[r] = "waiting"
        /\ failed[r] = {} /\ record[r] = Absent
        /\ docs[r] = [user |-> "none", reply |-> "none", copy |-> FALSE, context |-> FALSE]
    BY <1>3 DEF ResponsesInit, TelemetryInit
  <2> QED BY <2>1 DEF NewHandler, RequestInvariant, Before, Ended, Logged, Storing, Answered, Calm,
             Unanswered, Consistent, Truthful, Bookkeeping
<1> QED BY <1>1, <1>2, <1>3 DEF ResponsesInvariant

LEMMA NextResponsesInvariant ==
    ASSUME ResponsesInvariant, TelemetryInvariant', [ResponsesNext]_responseVars
    PROVE  ResponsesInvariant'
<1> USE DEF ResponsesInvariant
<1>1. ASSUME NEW r \in Requests,
             \/ Handle(r) \/ Ends(r) \/ ClientLeaves(r)
             \/ \E text \in {"blank", "some"} : Delta(r, text)
      PROVE  ResponsesInvariant'
  <2>1. Keeps(r)
    BY <1>1, EveryHandlerStep
  <2>2. ASSUME NEW q \in Requests \ {r} PROVE RequestInvariant(q)'
    BY <2>1, OtherRequests DEF Keeps
  <2> QED BY <2>1, <2>2 DEF Keeps
<1>2. ASSUME Maintenance, UNCHANGED handlerVars PROVE ResponsesInvariant'
  <2>1. HandlersTypes'
    BY <1>2 DEF handlerVars, HandlersTypes
  <2>2. /\ handle' = handle
        /\ \A r \in Requests : record'[r] = record[r] \/ record'[r] = Absent
    BY <1>2, MaintenancePurges DEF TelemetryInvariant
  <2>3. ASSUME NEW r \in Requests PROVE RequestInvariant(r)'
    BY <1>2, <2>2, PurgedRequest
  <2> QED BY <2>1, <2>3
<1>3. ASSUME UNCHANGED responseVars PROVE ResponsesInvariant'
  <2>1. HandlersTypes' /\ UNCHANGED handlerVars /\ UNCHANGED <<record, handle>>
    BY <1>3 DEF responseVars, handlerVars, telemetryVars, HandlersTypes
  <2>2. ASSUME NEW r \in Requests PROVE RequestInvariant(r)'
    BY <2>1, PurgedRequest
  <2> QED BY <2>1, <2>2
<1> QED BY <1>1, <1>2, <1>3 DEF ResponsesNext

LEMMA ResponsesInductive == ResponsesSpec => []ResponsesInvariant
<1>1. ResponsesInvariant /\ TelemetryInvariant' /\ [ResponsesNext]_responseVars => ResponsesInvariant'
  BY NextResponsesInvariant
<1>2. ResponsesSpec => []TelemetryInvariant
  BY ResponsesImplementTelemetry, TelemetryCorrect, PTL
<1> QED BY <1>1, <1>2, InitResponsesInvariant, PTL DEF ResponsesSpec

-----------------------------------------------------------------------------
(* Whoever is told that an answer is complete finds what it promises.      *)
THEOREM AnswersAlwaysKept == ResponsesSpec => []AnswersAreKept
<1>1. ResponsesInvariant => AnswersAreKept
  <2> SUFFICES ASSUME ResponsesInvariant, NEW r \in Requests, client[r] = "completed"
               PROVE  /\ Kept(r)
                      /\ Strict(r) /\ record[r] # Absent => record[r].outcome = "completed"
    BY DEF AnswersAreKept, Kept
  <2>1. Answered(r) /\ handler[r] \in Handlers
    BY DEF ResponsesInvariant, RequestInvariant, HandlersTypes
  <2> QED BY <2>1 DEF Answered, Handlers
<1> QED BY <1>1, ResponsesInductive, PTL

(* Required logging decides: with stores that answer, a request that is    *)
(* over has left an answer only if its record was closed.                  *)
THEOREM NothingLeftUnaudited == ResponsesSpec => []NothingUnaudited
<1>1. ResponsesInvariant => NothingUnaudited
  <2> SUFFICES ASSUME ResponsesInvariant, NEW r \in Requests, Strict(r), Over(r), Calm(r),
                      record[r] # Absent
               PROVE  /\ "sent" \in {docs[r].user, docs[r].reply} => record[r].outcome = "completed"
                      /\ docs[r].context => record[r].state = "terminal"
    BY DEF NothingUnaudited, Calm
  <2>1. Answered(r) /\ Consistent(r) /\ Ended(r) /\ handler[r] \in Handlers /\ docs[r] \in Documents
    BY DEF ResponsesInvariant, RequestInvariant, HandlersTypes, Over, Ended
  <2>2. CASE handler[r].answer = "error"
    BY <2>1, <2>2 DEF Consistent, Withdrawn
  <2>3. CASE handler[r].answer = "incomplete"
    BY <2>1, <2>3 DEF Consistent, Answered
  <2>4. CASE handler[r].answer = "completed"
    BY <2>1, <2>4 DEF Answered, Handlers
  <2> QED BY <2>1, <2>2, <2>3, <2>4 DEF Handlers
<1> QED BY <1>1, ResponsesInductive, PTL

(* With stores that answer, whoever was refused finds no answer later.     *)
THEOREM RefusedFindNothing == ResponsesSpec => []RefusedLeavesNoAnswer
<1>1. ResponsesInvariant => RefusedLeavesNoAnswer
  <2> SUFFICES ASSUME ResponsesInvariant, NEW r \in Requests, Over(r), client[r] = "error",
                      failed[r] \subseteq {"audit", "lookup"}
               PROVE  Withdrawn(r)
    BY DEF RefusedLeavesNoAnswer, Withdrawn
  <2>1. Answered(r) /\ Consistent(r) /\ Ended(r) /\ Calm(r)
    BY DEF ResponsesInvariant, RequestInvariant, Over, Ended, Calm
  <2> QED BY <2>1 DEF Answered, Consistent
<1> QED BY <1>1, ResponsesInductive, PTL

(* If nothing raises, the record tells what the client was told.           *)
THEOREM RecordsTellOutcomes == ResponsesSpec => []RecordTellsOutcome
<1>1. ResponsesInvariant => RecordTellsOutcome
  <2> SUFFICES ASSUME ResponsesInvariant, NEW r \in Requests, Over(r), failed[r] = {},
                      record[r] # Absent
               PROVE  /\ record[r].state = "terminal"
                      /\ client[r] = "completed" => record[r].outcome = "completed"
                      /\ client[r] \in {"error", "incomplete"} => record[r].outcome # "completed"
                      /\ record[r].delivery = "client_disconnected" => client[r] = "gone"
    BY DEF RecordTellsOutcome
  <2>1. Answered(r) /\ Truthful(r) /\ Ended(r)
    BY DEF ResponsesInvariant, RequestInvariant, Over, Ended
  <2> QED BY <2>1 DEF Answered, Truthful
<1> QED BY <1>1, ResponsesInductive, PTL

(* Only three steps touch Granite; the two that reach it are at "call".    *)
LEMMA GraniteIsReached ==
    ASSUME NEW r \in Requests,
           \/ Handle(r) \/ Ends(r) \/ ClientLeaves(r)
           \/ \E text \in {"blank", "some"} : Delta(r, text)
    PROVE  granite' = granite \/ handler[r].place \in {"call", "close"}
<1>1. CASE Handle(r)
  BY <1>1
     DEF Handle, Admit, Reject, LookupFails, ModelFails, StreamOpens, ModelAnswers, Begin, CountBegin,
         Enrich, SaveUser, TouchUser, MarkModelFailed, UserSent, SaveReply, TouchReply, SaveContext,
         Finish, DropContext, FailUser, FailReply, CopyReply, TouchCopy, Fail, Close, CountOutcome,
         Answer, LastFrame, Stores, At, handlerVars
<1>2. CASE Ends(r)
  BY <1>2 DEF Ends, GraniteFails, GraniteCompletes
<1>3. CASE ClientLeaves(r) \/ \E text \in {"blank", "some"} : Delta(r, text)
  BY <1>3 DEF ClientLeaves, Delta
<1> QED BY <1>1, <1>2, <1>3

(* A model is called only for a request whose record is written, where     *)
(* that is required.                                                       *)
THEOREM EveryCallIsLogged == ResponsesSpec => NoCallUnlogged
<1>1. ASSUME ResponsesInvariant, [ResponsesNext]_responseVars, NEW q \in Requests, Strict(q),
             granite[q] = "idle", granite'[q] # "idle"
      PROVE  "audit" \notin failed[q] /\ handle[q].persisted
  <2>1. PICK r \in Requests :
            \/ Handle(r) \/ Ends(r) \/ ClientLeaves(r)
            \/ \E text \in {"blank", "some"} : Delta(r, text)
    BY <1>1 DEF ResponsesNext, responseVars, handlerVars
  <2>2. Keeps(r)
    BY <1>1, <2>1, EveryHandlerStep DEF ResponsesInvariant
  <2>3. r = q
    BY <1>1, <2>2 DEF Keeps, Local
  <2>4. handler[q].place \in {"call", "close"} /\ Logged(q)
    BY <1>1, <2>1, <2>3, GraniteIsReached DEF ResponsesInvariant, RequestInvariant
  <2> QED BY <1>1, <2>4 DEF Logged, Before, Streaming
<1>2. ResponsesInvariant /\ [ResponsesNext]_responseVars
        => [\A r \in Requests : Strict(r) /\ granite[r] = "idle" /\ granite'[r] # "idle" =>
                "audit" \notin failed[r] /\ handle[r].persisted]_responseVars
  BY <1>1
<1> QED BY <1>2, ResponsesInductive, PTL DEF ResponsesSpec, NoCallUnlogged

=============================================================================
