---------------------------- MODULE MCCourseWrites ----------------------------
(* Small instances of CourseWrites for TLC. *)
EXTENDS CourseWrites, TLC

CONSTANTS ann, bob, tim, g1, g2, r1, r2, auditor

\* An open course with an assistant and one group, which has one seat left.
MCCourse ==
    [active |-> TRUE, staff |-> {tim}, roster |-> ann :> 1 @@ bob :> 2, linked |-> {bob},
     handout |-> 2, staffLimit |-> 2,
     groups |-> g1 :> [members |-> {}, limit |-> 1, open |-> TRUE, max |-> 1,
                       active |-> TRUE],
     pending |-> <<>>]

Join(s) == [kind |-> "join", group |-> g1, who |-> {s}]
Assign(who) == [kind |-> "assign", group |-> g1, who |-> who, by |-> tim]
Settings(open, max) == [kind |-> "settings", group |-> g1, open |-> open, max |-> max]
Manage(fields, open, max, limit, active) ==
    [kind |-> "manage", group |-> g1, fields |-> fields, open |-> open, max |-> max,
     limit |-> limit, active |-> active]
CreateGroup == [kind |-> "createGroup", group |-> g2]
DeleteGroup == [kind |-> "deleteGroup", group |-> g1, by |-> tim]
LeaveGroup(s) == [kind |-> "leaveGroup", group |-> g1, who |-> {s}]
Enrol(s) == [kind |-> "enrol", who |-> {s}, known |-> {s}]
Unenrol(s) == [kind |-> "unenrol", who |-> {s}]
MemberLimit(s, n) == [kind |-> "memberLimit", who |-> {s}, limit |-> n]
GroupLimit(n) == [kind |-> "groupLimit", group |-> g1, limit |-> n, by |-> tim]
Handout(n) == [kind |-> "handout", limit |-> n]
StaffLimit(n) == [kind |-> "staffLimit", limit |-> n]
Metadata(staff) == [kind |-> "metadata", staff |-> staff]
Reconcile(s) == [kind |-> "reconcile", who |-> {s}]
Status(active) == [kind |-> "status", active |-> active]

\* Edits that compete for the seats of a group, for its limit and for its place
\* in the course, and that fill and drain the outbox.
AllEdits ==
    {Join(ann), Join(bob), Assign({ann, bob}), Settings(FALSE, 1),
     Manage({"max", "limit", "active"}, TRUE, NoMax, 2, FALSE), CreateGroup, DeleteGroup,
     LeaveGroup(ann), Unenrol(ann), Enrol(ann), Status(FALSE), Handout(0), GroupLimit(2),
     MemberLimit(ann, 2), StaffLimit(1), Metadata({}), Reconcile(ann), Deletion}

=============================================================================
