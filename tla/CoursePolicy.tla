---------------------------- MODULE CoursePolicy ----------------------------
(***************************************************************************)
(* rocky-backend/backend/course_actions.py, the edits that the routes of   *)
(* route_handlers/courses.py make to a course document, and the key policy *)
(* that rocky_common/course_keys.py reads out of it.  Everything here is a *)
(* pure function of a course; CourseWrites says when it is stored.         *)
(*                                                                         *)
(* A course is the record                                                  *)
(*   active   is_active: a closed course is read-only                      *)
(*   staff    the instructor and the assistants: instructor_id, ta_ids     *)
(*   roster   key_limit of each student in members                         *)
(*   linked   the students whose entry in members bears their account's id *)
(*   handout  instructor_handout_limit, "Max Student Keys"                 *)
(*   staffLimit  instructor_key_limit, for the staff's own keys            *)
(*   groups   the groups by id: members (memberIds), limit (key_limit),    *)
(*            open (self_join_enabled), max (max_members), active          *)
(*   pending  _pending_audit_events, the audit outbox                      *)
(* An edit is a record of its kind and of what the request asks for, with  *)
(* "by" for an edit that one of the staff makes: the others are made by an *)
(* administrator, or by the student himself.                               *)
(***************************************************************************)
EXTENDS Integers, FiniteSets, Sequences, SequencesExt

CONSTANTS
    Students,     \* those who may be enrolled; the staff are not among them
    Staff,        \* those who may be the instructor or an assistant
    Groups,       \* group ids: the code draws them from uuid4, never twice
    AuditChunk,   \* most members named by one audit event (100 in the code)
    MaxPending    \* MAX_PENDING_COURSE_EVENTS

ASSUME StudentsAssumption == IsFiniteSet(Students)
ASSUME AuditAssumption == AuditChunk \in Nat \ {0} /\ MaxPending \in Nat

NoCourse == [active |-> FALSE]   \* what find_one answers after a deletion
NoMax == 0                       \* max_members is null

Group == [members : SUBSET Students, limit : Nat, open : BOOLEAN,
          max : Nat, active : BOOLEAN]

-----------------------------------------------------------------------------
(***************************************************************************)
(* The edits.                                                              *)
(***************************************************************************)
EditKinds ==
    {"join", "assign", "createGroup", "settings", "manage", "deleteGroup", "groupLimit",
     "leaveGroup", "enrol", "reconcile", "metadata", "staffLimit", "unenrol", "memberLimit",
     "handout", "status"}

Lesser(a, b) == IF a <= b THEN a ELSE b

OnRoster(c, s) == s \in DOMAIN c.roster
HasGroup(c, g) == g \in DOMAIN c.groups
Newcomers(c, e) == e.who \ c.groups[e.group].members

\* add_group_members never lets the selection outgrow max_members.
Fits(group, added) ==
    \/ added = {}
    \/ group.max = NoMax
    \/ Cardinality(group.members \cup added) <= group.max

\* add_course_members: a new member, or one whose allowance is 0, gets 1.  Those
\* who have an account already are entered with its id.
Enrolled(c, e) ==
    [c EXCEPT !.roster = [s \in DOMAIN @ \cup e.who |->
                             IF s \in DOMAIN @ /\ (s \notin e.who \/ @[s] > 0) THEN @[s] ELSE 1],
              !.linked = @ \cup e.known]

\* reconcile_course_members_for_user, at a sign-in: the entry gets the id of the
\* account that it was made for.
Linked(c, who) == [c EXCEPT !.linked = @ \cup who]

\* remove_course_member takes the member out of every group too.
Unenrolled(c, who) ==
    [c EXCEPT !.roster = [s \in DOMAIN @ \ who |-> @[s]], !.linked = @ \ who,
              !.groups = [g \in DOMAIN @ |->
                             [c.groups[g] EXCEPT !.members = @ \ who]]]

\* apply_course_metadata_patch: a new instructor or new assistants.
Appointed(c, staff) == [c EXCEPT !.staff = staff]

GroupLimited(c, e) == [c EXCEPT !.groups[e.group].limit = e.limit]
StaffLimited(c, limit) == [c EXCEPT !.staffLimit = limit]
Opened(c, active) == [c EXCEPT !.active = active]

NewGroup(c) ==
    [members |-> {}, limit |-> Lesser(1, c.handout), open |-> FALSE,
     max |-> NoMax, active |-> TRUE]

\* update_course_instructor_handout_limit lowers every allowance above it.
Capped(c, limit) ==
    [c EXCEPT !.handout = limit,
              !.roster = [s \in DOMAIN @ |-> Lesser(@[s], limit)],
              !.groups = [g \in DOMAIN @ |->
                             [c.groups[g] EXCEPT !.limit = Lesser(@, limit)]]]

\* manage_course_group_route sets those of the group's fields that it is given.
Managed(group, e) ==
    [group EXCEPT !.open = IF "open" \in e.fields THEN e.open ELSE @,
                  !.max = IF "max" \in e.fields THEN e.max ELSE @,
                  !.limit = IF "limit" \in e.fields THEN e.limit ELSE @,
                  !.active = IF "active" \in e.fields THEN e.active ELSE @]

\* The course after an edit that the routes allow.
Edited(c, e) ==
    CASE e.kind \in {"join", "assign"} ->
            [c EXCEPT !.groups[e.group].members = @ \cup e.who]
      [] e.kind = "createGroup" ->
            [c EXCEPT !.groups = [g \in DOMAIN @ \cup {e.group} |->
                                     IF g = e.group THEN NewGroup(c) ELSE @[g]]]
      [] e.kind = "settings" ->
            [c EXCEPT !.groups[e.group].open = e.open, !.groups[e.group].max = e.max]
      [] e.kind = "manage" -> [c EXCEPT !.groups[e.group] = Managed(@, e)]
      [] e.kind = "deleteGroup" ->
            [c EXCEPT !.groups = [g \in DOMAIN @ \ {e.group} |-> @[g]]]
      [] e.kind = "groupLimit" -> GroupLimited(c, e)
      [] e.kind = "leaveGroup" ->
            [c EXCEPT !.groups[e.group].members = @ \ e.who]
      [] e.kind = "enrol" -> Enrolled(c, e)
      [] e.kind = "reconcile" -> Linked(c, e.who)
      [] e.kind = "metadata" -> Appointed(c, e.staff)
      [] e.kind = "staffLimit" -> StaffLimited(c, e.limit)
      [] e.kind = "unenrol" -> Unenrolled(c, e.who)
      [] e.kind = "memberLimit" ->
            [c EXCEPT !.roster = [s \in DOMAIN @ |-> IF s \in e.who THEN e.limit ELSE @[s]]]
      [] e.kind = "handout" -> Capped(c, e.limit)
      [] e.kind = "status" -> Opened(c, e.active)

-----------------------------------------------------------------------------
(***************************************************************************)
(* The conditions under which a route makes the edit.                      *)
(***************************************************************************)
\* Mutant of MayJoin: the seat is not counted.
MayJoinFull(c, e) ==
    \/ Newcomers(c, e) = {}
    \/ LET group == c.groups[e.group] IN group.active /\ group.open

\* join_course_group_route: whoever is in already may join again, whatever
\* the group has become.
MayJoin(c, e) ==
    \/ Newcomers(c, e) = {}
    \/ LET group == c.groups[e.group] IN
         /\ group.active
         /\ group.open
         /\ group.max # NoMax => Cardinality(group.members) < group.max

\* can_manage_people: whoever is of the staff when the course is read.
MayManage(c, e) == "by" \in DOMAIN e => e.by \in c.staff

SetsMax(e) == e.kind = "settings" \/ (e.kind = "manage" /\ "max" \in e.fields)
SetsLimit(e) ==
    e.kind \in {"groupLimit", "memberLimit"} \/ (e.kind = "manage" /\ "limit" \in e.fields)

\* What the handlers check.  A sign-in writes only what changes, to closed courses
\* too.
Allowed(c, e) ==
    /\ c # NoCourse
    /\ c.active \/ e.kind \in {"status", "reconcile"}
    /\ MayManage(c, e)
    /\ e.kind = "reconcile" => e.who \subseteq DOMAIN c.roster \ c.linked
    /\ e.kind \in {"join", "assign", "settings", "manage", "deleteGroup",
                   "groupLimit", "leaveGroup"} => HasGroup(c, e.group)
    /\ e.kind \in {"join", "assign", "memberLimit"} => \A s \in e.who : OnRoster(c, s)
    /\ e.kind = "join" => MayJoin(c, e)
    /\ e.kind = "assign" => Fits(c.groups[e.group], Newcomers(c, e))
    /\ SetsMax(e) /\ e.max # NoMax => Cardinality(c.groups[e.group].members) <= e.max
    /\ SetsLimit(e) => e.limit <= c.handout

\* The edits whose audit events are stored with the course.
Staged(e) ==
    e.kind \in {"join", "assign", "createGroup", "settings", "manage", "deleteGroup"}

\* How many audit events the edit stages: one for each chunk of newcomers, none
\* for a manage that changes nothing.
EventCount(c, e) ==
    CASE e.kind \in {"join", "assign"} ->
            (Cardinality(Newcomers(c, e)) + AuditChunk - 1) \div AuditChunk
      [] e.kind = "manage" ->
            IF Managed(c.groups[e.group], e) = c.groups[e.group] THEN 0 ELSE 1
      [] e.kind \in {"createGroup", "settings", "deleteGroup"} -> 1
      [] OTHER -> 0

-----------------------------------------------------------------------------
(***************************************************************************)
(* save_course_changes: a compare-and-set on the fields that decide edits. *)
(***************************************************************************)
\* Mutant of Matches: only the fields that change are compared.
MatchesChanged(stored, before, after) ==
    /\ stored # NoCourse
    /\ \A f \in DOMAIN after :
          after[f] # before[f] => stored[f] = before[f]

\* members is one field: the roster and its links.
Guarded == {"active", "staff", "roster", "linked", "handout", "groups"}

\* The document still has the values of the policy fields that the edit was
\* computed from, and of any other field that the edit changes.
Matches(stored, before, after) ==
    /\ stored # NoCourse
    /\ \A f \in Guarded : stored[f] = before[f]
    /\ \A f \in DOMAIN after \ Guarded : after[f] # before[f] => stored[f] = before[f]

\* Only the fields that changed are set.
Written(stored, before, after) ==
    [f \in DOMAIN stored |-> IF after[f] # before[f] THEN after[f] ELSE stored[f]]

-----------------------------------------------------------------------------
(***************************************************************************)
(* course_keys.py: whether a stored key gives access, from the course as   *)
(* it is now.  An owner is a group or a student.                           *)
(***************************************************************************)
NoHash == "none"

\* owner_key_limit.
OwnerLimit(c, owner) ==
    IF owner \in DOMAIN c.groups THEN c.groups[owner].limit
    ELSE IF owner \in DOMAIN c.roster THEN c.roster[owner]
    ELSE 0

\* key_is_active, for a key that is found by its hash; the flag is the manual
\* or membership one.
KeyIsActive(key, c) ==
    /\ key.hash # NoHash /\ ~key.deleted /\ key.on
    /\ c # NoCourse /\ c.active
    /\ key.owner \in Groups => HasGroup(c, key.owner) /\ c.groups[key.owner].active
    /\ key.slot <= OwnerLimit(c, key.owner)

-----------------------------------------------------------------------------
(***************************************************************************)
(* A sound course.                                                         *)
(***************************************************************************)
\* No group has more members than max_members allows.
SeatsHeld(c) ==
    \A g \in DOMAIN c.groups :
        c.groups[g].max # NoMax => Cardinality(c.groups[g].members) <= c.groups[g].max

\* Whoever is in a group is on the roster.
MembersEnrolled(c) ==
    \A g \in DOMAIN c.groups : \A s \in c.groups[g].members : OnRoster(c, s)

\* No group may have more keys than the course's cap.
LimitsCapped(c) == \A g \in DOMAIN c.groups : c.groups[g].limit <= c.handout

Sound(c) == SeatsHeld(c) /\ MembersEnrolled(c) /\ LimitsCapped(c)

=============================================================================
