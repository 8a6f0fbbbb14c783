----------------------------- MODULE MCCourseKeys -----------------------------
(* Small instances of CourseKeys for TLC. *)
EXTENDS CourseKeys, TLC

CONSTANTS ann, bob, sam, g1, g2, r1, r2, q1, q2, old, own, auditor

Interchangeable == Permutations({r1, r2}) \cup Permutations({q1, q2})

\* Both students are in the group, which has a shared key; ann has her own.  sam is
\* of the staff.
MCCourse ==
    [active |-> TRUE, staff |-> {sam}, roster |-> ann :> 1 @@ bob :> 1, linked |-> {},
     handout |-> 2, staffLimit |-> 2,
     groups |-> g1 :> [members |-> {ann, bob}, limit |-> 2, open |-> FALSE, max |-> NoMax,
                       active |-> TRUE],
     pending |-> <<>>]

StoredKey(hash, owner) ==
    [id |-> hash, hash |-> hash, owner |-> owner, slot |-> 1, name |-> "key-1",
     on |-> TRUE, deleted |-> FALSE]

MCKeys == {StoredKey(old, g1), StoredKey(own, ann)}

LeaveGroup == [kind |-> "leaveGroup", group |-> g1, who |-> {ann}]
Unenrol == [kind |-> "unenrol", who |-> {ann}]
DeleteGroup == [kind |-> "deleteGroup", group |-> g1]
Pause == [kind |-> "manage", group |-> g1, fields |-> {"active"}, open |-> FALSE,
          max |-> NoMax, limit |-> 1, active |-> FALSE]

Demote == [kind |-> "metadata", staff |-> {}]

\* A request may leave the name out, and gets "key-1".
Generate(owner, slot, name) ==
    [kind |-> "generate", owner |-> owner, slot |-> slot, name |-> name]
Switch(owner, on) ==
    [kind |-> "status", owner |-> owner, slot |-> 1, name |-> "key-1", on |-> on]
Delete(owner) == [kind |-> "delete", owner |-> owner, slot |-> 1, name |-> "key-1"]
DeleteNamed(owner) == [kind |-> "delete", owner |-> owner, name |-> "key-1"]
By(who, a) == [f \in DOMAIN a \cup {"by"} |-> IF f = "by" THEN who ELSE a[f]]

\* Requests that are refused at once: of a group that is not there, of a student
\* who asks for the key of another.
NoSuchGroup == [kind |-> "leaveGroup", group |-> g2, who |-> {ann}]
NotHis == By(bob, Generate(ann, 1, "key-1"))

\* Edits of the group, the roster and the staff, and requests for keys, of
\* administrators, of sam and of ann.
SomeEdits == {LeaveGroup, Unenrol, DeleteGroup, Pause, Demote, Deletion, NoSuchGroup}
SomeAsks == {By(sam, Generate(g1, 1, "key-2")), Generate(g1, 2, "key-1"),
             By(ann, Generate(ann, 1, "key-1")), By(sam, DeleteNamed(g1)),
             Switch(g1, FALSE), [kind |-> "deleteAll"], NotHis}

\* Three at a time: two edits and a request for a key, an edit and two requests for
\* keys, or two of either sort and the reader of the audit log.
Busy == Cardinality({r \in Requests : edit[r] # NoSuchGroup})
        + Cardinality({q \in KeyRequests : ask[q] # NotHis})

ThreeInit == KeysInit /\ Busy <= 3
ThreeNext == KeysNext /\ (Busy = 3 => pc'[auditor] = pc[auditor])
ThreeSpec == ThreeInit /\ [][ThreeNext]_allVars

\* One edit, and keys may be switched on.
OneEdit == {LeaveGroup, Unenrol, DeleteGroup, Pause, Deletion}
AllAsks == {Switch(g1, TRUE), Switch(g1, FALSE), Generate(g1, 1, "key-1")}

=============================================================================
