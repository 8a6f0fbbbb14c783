---------------------------- MODULE AdmissionLine ----------------------------
(***************************************************************************)
(* What a caller of the inference queue is promised, without clocks, bytes *)
(* or locks: one line, a fixed number of slots, first come first served,   *)
(* and no slot left idle while the line is not empty.  Anyone may leave    *)
(* the line at any time, and newcomers may be turned away.                 *)
(***************************************************************************)
EXTENDS Integers, Sequences, FiniteSets

CONSTANTS Clients, Slots

VARIABLES
    line,      \* the clients that wait, in the order of their arrival
    holders,   \* the clients that have a slot
    seen       \* the clients that have arrived

lineVars == <<line, holders, seen>>

Waiting(queueing) == {queueing[i] : i \in 1..Len(queueing)}

\* c stands before d.
Before(queueing, c, d) ==
    \E i, j \in 1..Len(queueing) : i < j /\ queueing[i] = c /\ queueing[j] = d

Init == line = <<>> /\ holders = {} /\ seen = {}

\* Of those who queue, some get a slot and some go away.  The others stay as
\* they stood, and nobody who came after one of them is served.
FirstComeFirstServed(queueing, kept) ==
    /\ kept \subseteq holders'
    /\ holders' \ kept \subseteq Waiting(queueing)
    /\ Waiting(line') \subseteq Waiting(queueing) \ holders'
    /\ \A i, j \in 1..Len(line') : i < j => Before(queueing, line'[i], line'[j])
    /\ \A c \in holders' \ kept, d \in Waiting(line') : Before(queueing, c, d)

\* The line moves up as far as there are slots; `kept` still have theirs.
MoveUp(queueing, kept) ==
    /\ FirstComeFirstServed(queueing, kept)
    /\ Cardinality(holders') <= Slots
    /\ line' # <<>> => Cardinality(holders') = Slots

\* A client joins the end of the line, or is turned away.
Arrive(c) ==
    /\ c \notin seen
    /\ seen' = seen \cup {c}
    /\ MoveUp(Append(line, c), holders)

\* A client gives its slot back.
Leave(c) ==
    /\ c \in holders
    /\ UNCHANGED seen
    /\ MoveUp(line, holders \ {c})

\* Some clients lose patience.
Quit == UNCHANGED seen /\ MoveUp(line, holders)

Next == Quit \/ \E c \in Clients : Arrive(c) \/ Leave(c)

Spec == Init /\ [][Next]_lineVars

=============================================================================
