-------------------------- MODULE CourseWritesProofs --------------------------
(***************************************************************************)
(* Proofs about CourseWrites, for any number of students, groups and       *)
(* requests, any edits and any attempts.                                   *)
(***************************************************************************)
EXTENDS CourseWrites, FiniteSetTheorems, SequenceTheorems, TLAPS

-----------------------------------------------------------------------------
(***************************************************************************)
(* An edit is a function of the guarded fields, but for its own field      *)
(* staffLimit.                                                             *)
(***************************************************************************)
Alike(c, b) == \A f \in Guarded : c[f] = b[f]

LEMMA EditedAlike ==
    ASSUME NEW c, IsCourse(c), NEW b, IsCourse(b), Alike(c, b),
           NEW e, e.kind \in EditKinds
    PROVE  /\ DOMAIN Edited(c, e) = Fields /\ DOMAIN Edited(b, e) = Fields
           /\ Alike(Edited(c, e), Edited(b, e))
           /\ Edited(c, e).pending = c.pending
           /\ Edited(c, e).staffLimit = IF e.kind = "staffLimit" THEN e.limit ELSE c.staffLimit
           /\ e.kind = "staffLimit" => Alike(Edited(c, e), c)
<1>1. /\ c = [f \in Fields |-> c[f]] /\ b = [f \in Fields |-> b[f]]
      /\ c.groups = b.groups /\ c.roster = b.roster /\ c.linked = b.linked
      /\ c.handout = b.handout /\ c.active = b.active /\ c.staff = b.staff
  BY DEF IsCourse, Alike, Guarded
<1>2. CASE e.kind \in {"join", "assign"}
  <2>1. /\ Edited(c, e) = [c EXCEPT !.groups[e.group].members = @ \cup e.who]
        /\ Edited(b, e) = [b EXCEPT !.groups[e.group].members = @ \cup e.who]
    BY <1>2 DEF Edited
  <2> DEFINE x == Edited(c, e)
             y == Edited(b, e)
  <2>2. /\ DOMAIN x = Fields /\ DOMAIN y = Fields
        /\ x.active = y.active /\ x.staff = y.staff /\ x.roster = y.roster
        /\ x.linked = y.linked /\ x.handout = y.handout /\ x.groups = y.groups
        /\ x.pending = c.pending
        /\ x.staffLimit = c.staffLimit
    BY <1>1, <2>1 DEF Fields
  <2> HIDE DEF x, y
  <2>3. Alike(x, y)
    BY <2>2 DEF Alike, Guarded
  <2> QED BY <1>2, <2>2, <2>3 DEF x, y
<1>3. CASE e.kind = "createGroup"
  <2> DEFINE v0(d) == [g \in DOMAIN d.groups \cup {e.group} |->
                        IF g = e.group THEN NewGroup(d) ELSE d.groups[g]]
             x == Edited(c, e)
             y == Edited(b, e)
  <2>1. v0(c) = v0(b)
    BY <1>1 DEF NewGroup
  <2>2. /\ x = [c EXCEPT !.groups = v0(c)]
        /\ y = [b EXCEPT !.groups = v0(b)]
    BY <1>3 DEF Edited
  <2> HIDE DEF v0, x, y
  <2>3. /\ DOMAIN x = Fields /\ DOMAIN y = Fields
        /\ x.active = y.active /\ x.staff = y.staff /\ x.roster = y.roster
        /\ x.linked = y.linked /\ x.handout = y.handout /\ x.groups = y.groups
        /\ x.pending = c.pending
        /\ x.staffLimit = c.staffLimit
    BY <1>1, <2>1, <2>2 DEF Fields
  <2>4. Alike(x, y)
    BY <2>3 DEF Alike, Guarded
  <2> QED BY <1>3, <2>3, <2>4 DEF x, y
<1>4. CASE e.kind = "settings"
  <2> DEFINE v0(d) == [d.groups EXCEPT ![e.group].open = e.open, ![e.group].max = e.max]
             x == Edited(c, e)
             y == Edited(b, e)
  <2>1. v0(c) = v0(b)
    BY <1>1
  <2>2. /\ x = [c EXCEPT !.groups = v0(c)]
        /\ y = [b EXCEPT !.groups = v0(b)]
    BY <1>4 DEF Edited
  <2> HIDE DEF v0, x, y
  <2>3. /\ DOMAIN x = Fields /\ DOMAIN y = Fields
        /\ x.active = y.active /\ x.staff = y.staff /\ x.roster = y.roster
        /\ x.linked = y.linked /\ x.handout = y.handout /\ x.groups = y.groups
        /\ x.pending = c.pending
        /\ x.staffLimit = c.staffLimit
    BY <1>1, <2>1, <2>2 DEF Fields
  <2>4. Alike(x, y)
    BY <2>3 DEF Alike, Guarded
  <2> QED BY <1>4, <2>3, <2>4 DEF x, y
<1>5. CASE e.kind = "manage"
  <2> DEFINE v0(d) == [d.groups EXCEPT ![e.group] = Managed(@, e)]
             x == Edited(c, e)
             y == Edited(b, e)
  <2>1. v0(c) = v0(b)
    BY <1>1
  <2>2. /\ x = [c EXCEPT !.groups = v0(c)]
        /\ y = [b EXCEPT !.groups = v0(b)]
    BY <1>5 DEF Edited
  <2> HIDE DEF v0, x, y
  <2>3. /\ DOMAIN x = Fields /\ DOMAIN y = Fields
        /\ x.active = y.active /\ x.staff = y.staff /\ x.roster = y.roster
        /\ x.linked = y.linked /\ x.handout = y.handout /\ x.groups = y.groups
        /\ x.pending = c.pending
        /\ x.staffLimit = c.staffLimit
    BY <1>1, <2>1, <2>2 DEF Fields
  <2>4. Alike(x, y)
    BY <2>3 DEF Alike, Guarded
  <2> QED BY <1>5, <2>3, <2>4 DEF x, y
<1>6. CASE e.kind = "deleteGroup"
  <2>1. /\ Edited(c, e) = [c EXCEPT !.groups = [g \in DOMAIN @ \ {e.group} |-> @[g]]]
        /\ Edited(b, e) = [b EXCEPT !.groups = [g \in DOMAIN @ \ {e.group} |-> @[g]]]
    BY <1>6 DEF Edited
  <2> DEFINE x == Edited(c, e)
             y == Edited(b, e)
  <2>2. /\ DOMAIN x = Fields /\ DOMAIN y = Fields
        /\ x.active = y.active /\ x.staff = y.staff /\ x.roster = y.roster
        /\ x.linked = y.linked /\ x.handout = y.handout /\ x.groups = y.groups
        /\ x.pending = c.pending
        /\ x.staffLimit = c.staffLimit
    BY <1>1, <2>1 DEF Fields
  <2> HIDE DEF x, y
  <2>3. Alike(x, y)
    BY <2>2 DEF Alike, Guarded
  <2> QED BY <1>6, <2>2, <2>3 DEF x, y
<1>7. CASE e.kind = "groupLimit"
  <2>1. /\ Edited(c, e) = GroupLimited(c, e)
        /\ Edited(b, e) = GroupLimited(b, e)
    BY <1>7 DEF Edited
  <2> DEFINE x == Edited(c, e)
             y == Edited(b, e)
  <2>2. /\ DOMAIN x = Fields /\ DOMAIN y = Fields
        /\ x.active = y.active /\ x.staff = y.staff /\ x.roster = y.roster
        /\ x.linked = y.linked /\ x.handout = y.handout /\ x.groups = y.groups
        /\ x.pending = c.pending
        /\ x.staffLimit = c.staffLimit
    BY <1>1, <2>1 DEF Fields, GroupLimited
  <2> HIDE DEF x, y
  <2>3. Alike(x, y)
    BY <2>2 DEF Alike, Guarded
  <2> QED BY <1>7, <2>2, <2>3 DEF x, y
<1>8. CASE e.kind = "leaveGroup"
  <2>1. /\ Edited(c, e) = [c EXCEPT !.groups[e.group].members = @ \ e.who]
        /\ Edited(b, e) = [b EXCEPT !.groups[e.group].members = @ \ e.who]
    BY <1>8 DEF Edited
  <2> DEFINE x == Edited(c, e)
             y == Edited(b, e)
  <2>2. /\ DOMAIN x = Fields /\ DOMAIN y = Fields
        /\ x.active = y.active /\ x.staff = y.staff /\ x.roster = y.roster
        /\ x.linked = y.linked /\ x.handout = y.handout /\ x.groups = y.groups
        /\ x.pending = c.pending
        /\ x.staffLimit = c.staffLimit
    BY <1>1, <2>1 DEF Fields
  <2> HIDE DEF x, y
  <2>3. Alike(x, y)
    BY <2>2 DEF Alike, Guarded
  <2> QED BY <1>8, <2>2, <2>3 DEF x, y
<1>9. CASE e.kind = "enrol"
  <2> DEFINE v0(d) == [s \in DOMAIN d.roster \cup e.who |->
                        IF s \in DOMAIN d.roster /\ (s \notin e.who \/ d.roster[s] > 0)
                        THEN d.roster[s] ELSE 1]
             v1(d) == d.linked \cup e.known
             x == Edited(c, e)
             y == Edited(b, e)
  <2>1. v0(c) = v0(b) /\ v1(c) = v1(b)
    BY <1>1
  <2>2. /\ x = [c EXCEPT !.roster = v0(c), !.linked = v1(c)]
        /\ y = [b EXCEPT !.roster = v0(b), !.linked = v1(b)]
    <3>1. x = Enrolled(c, e) /\ y = Enrolled(b, e)
      BY <1>9 DEF Edited
    <3> QED BY <3>1 DEF Enrolled
  <2> HIDE DEF v0, v1, x, y
  <2>3. /\ DOMAIN x = Fields /\ DOMAIN y = Fields
        /\ x.active = y.active /\ x.staff = y.staff /\ x.roster = y.roster
        /\ x.linked = y.linked /\ x.handout = y.handout /\ x.groups = y.groups
        /\ x.pending = c.pending
        /\ x.staffLimit = c.staffLimit
    BY <1>1, <2>1, <2>2 DEF Fields
  <2>4. Alike(x, y)
    BY <2>3 DEF Alike, Guarded
  <2> QED BY <1>9, <2>3, <2>4 DEF x, y
<1>10. CASE e.kind = "reconcile"
  <2>1. /\ Edited(c, e) = Linked(c, e.who)
        /\ Edited(b, e) = Linked(b, e.who)
    BY <1>10 DEF Edited
  <2> DEFINE x == Edited(c, e)
             y == Edited(b, e)
  <2>2. /\ DOMAIN x = Fields /\ DOMAIN y = Fields
        /\ x.active = y.active /\ x.staff = y.staff /\ x.roster = y.roster
        /\ x.linked = y.linked /\ x.handout = y.handout /\ x.groups = y.groups
        /\ x.pending = c.pending
        /\ x.staffLimit = c.staffLimit
    BY <1>1, <2>1 DEF Fields, Linked
  <2> HIDE DEF x, y
  <2>3. Alike(x, y)
    BY <2>2 DEF Alike, Guarded
  <2> QED BY <1>10, <2>2, <2>3 DEF x, y
<1>11. CASE e.kind = "metadata"
  <2>1. /\ Edited(c, e) = Appointed(c, e.staff)
        /\ Edited(b, e) = Appointed(b, e.staff)
    BY <1>11 DEF Edited
  <2> DEFINE x == Edited(c, e)
             y == Edited(b, e)
  <2>2. /\ DOMAIN x = Fields /\ DOMAIN y = Fields
        /\ x.active = y.active /\ x.staff = y.staff /\ x.roster = y.roster
        /\ x.linked = y.linked /\ x.handout = y.handout /\ x.groups = y.groups
        /\ x.pending = c.pending
        /\ x.staffLimit = c.staffLimit
    BY <1>1, <2>1 DEF Fields, Appointed
  <2> HIDE DEF x, y
  <2>3. Alike(x, y)
    BY <2>2 DEF Alike, Guarded
  <2> QED BY <1>11, <2>2, <2>3 DEF x, y
<1>12. CASE e.kind = "staffLimit"
  <2>1. /\ Edited(c, e) = StaffLimited(c, e.limit)
        /\ Edited(b, e) = StaffLimited(b, e.limit)
    BY <1>12 DEF Edited
  <2> DEFINE x == Edited(c, e)
             y == Edited(b, e)
  <2>2. /\ DOMAIN x = Fields /\ DOMAIN y = Fields
        /\ x.active = y.active /\ x.staff = y.staff /\ x.roster = y.roster
        /\ x.linked = y.linked /\ x.handout = y.handout /\ x.groups = y.groups
        /\ x.pending = c.pending
        /\ x.staffLimit = e.limit
        /\ x.active = c.active /\ x.staff = c.staff /\ x.roster = c.roster
        /\ x.linked = c.linked /\ x.handout = c.handout /\ x.groups = c.groups
    BY <1>1, <2>1 DEF Fields, StaffLimited
  <2> HIDE DEF x, y
  <2>3. Alike(x, y) /\ Alike(x, c)
    BY <2>2 DEF Alike, Guarded
  <2> QED BY <1>12, <2>2, <2>3 DEF x, y
<1>13. CASE e.kind = "unenrol"
  <2> DEFINE v0(d) == [s \in DOMAIN d.roster \ e.who |-> d.roster[s]]
             v1(d) == d.linked \ e.who
             v2(d) == [g \in DOMAIN d.groups |->
                        [d.groups[g] EXCEPT !.members = @ \ e.who]]
             x == Edited(c, e)
             y == Edited(b, e)
  <2>1. v0(c) = v0(b) /\ v1(c) = v1(b) /\ v2(c) = v2(b)
    BY <1>1
  <2>2. /\ x = [c EXCEPT !.roster = v0(c), !.linked = v1(c), !.groups = v2(c)]
        /\ y = [b EXCEPT !.roster = v0(b), !.linked = v1(b), !.groups = v2(b)]
    <3>1. x = Unenrolled(c, e.who) /\ y = Unenrolled(b, e.who)
      BY <1>13 DEF Edited
    <3> QED BY <3>1 DEF Unenrolled
  <2> HIDE DEF v0, v1, v2, x, y
  <2>3. /\ DOMAIN x = Fields /\ DOMAIN y = Fields
        /\ x.active = y.active /\ x.staff = y.staff /\ x.roster = y.roster
        /\ x.linked = y.linked /\ x.handout = y.handout /\ x.groups = y.groups
        /\ x.pending = c.pending
        /\ x.staffLimit = c.staffLimit
    BY <1>1, <2>1, <2>2 DEF Fields
  <2>4. Alike(x, y)
    BY <2>3 DEF Alike, Guarded
  <2> QED BY <1>13, <2>3, <2>4 DEF x, y
<1>14. CASE e.kind = "memberLimit"
  <2>1. /\ Edited(c, e) = [c EXCEPT !.roster = [s \in DOMAIN @ |-> IF s \in e.who THEN e.limit ELSE @[s]]]
        /\ Edited(b, e) = [b EXCEPT !.roster = [s \in DOMAIN @ |-> IF s \in e.who THEN e.limit ELSE @[s]]]
    BY <1>14 DEF Edited
  <2> DEFINE x == Edited(c, e)
             y == Edited(b, e)
  <2>2. /\ DOMAIN x = Fields /\ DOMAIN y = Fields
        /\ x.active = y.active /\ x.staff = y.staff /\ x.roster = y.roster
        /\ x.linked = y.linked /\ x.handout = y.handout /\ x.groups = y.groups
        /\ x.pending = c.pending
        /\ x.staffLimit = c.staffLimit
    BY <1>1, <2>1 DEF Fields
  <2> HIDE DEF x, y
  <2>3. Alike(x, y)
    BY <2>2 DEF Alike, Guarded
  <2> QED BY <1>14, <2>2, <2>3 DEF x, y
<1>15. CASE e.kind = "handout"
  <2> DEFINE v0(d) == e.limit
             v1(d) == [s \in DOMAIN d.roster |-> Lesser(d.roster[s], e.limit)]
             v2(d) == [g \in DOMAIN d.groups |->
                        [d.groups[g] EXCEPT !.limit = Lesser(@, e.limit)]]
             x == Edited(c, e)
             y == Edited(b, e)
  <2>1. v0(c) = v0(b) /\ v1(c) = v1(b) /\ v2(c) = v2(b)
    BY <1>1
  <2>2. /\ x = [c EXCEPT !.handout = v0(c), !.roster = v1(c), !.groups = v2(c)]
        /\ y = [b EXCEPT !.handout = v0(b), !.roster = v1(b), !.groups = v2(b)]
    <3>1. x = Capped(c, e.limit) /\ y = Capped(b, e.limit)
      BY <1>15 DEF Edited
    <3> QED BY <3>1 DEF Capped
  <2> HIDE DEF v0, v1, v2, x, y
  <2>3. /\ DOMAIN x = Fields /\ DOMAIN y = Fields
        /\ x.active = y.active /\ x.staff = y.staff /\ x.roster = y.roster
        /\ x.linked = y.linked /\ x.handout = y.handout /\ x.groups = y.groups
        /\ x.pending = c.pending
        /\ x.staffLimit = c.staffLimit
    BY <1>1, <2>1, <2>2 DEF Fields
  <2>4. Alike(x, y)
    BY <2>3 DEF Alike, Guarded
  <2> QED BY <1>15, <2>3, <2>4 DEF x, y
<1>16. CASE e.kind = "status"
  <2>1. /\ Edited(c, e) = Opened(c, e.active)
        /\ Edited(b, e) = Opened(b, e.active)
    BY <1>16 DEF Edited
  <2> DEFINE x == Edited(c, e)
             y == Edited(b, e)
  <2>2. /\ DOMAIN x = Fields /\ DOMAIN y = Fields
        /\ x.active = y.active /\ x.staff = y.staff /\ x.roster = y.roster
        /\ x.linked = y.linked /\ x.handout = y.handout /\ x.groups = y.groups
        /\ x.pending = c.pending
        /\ x.staffLimit = c.staffLimit
    BY <1>1, <2>1 DEF Fields, Opened
  <2> HIDE DEF x, y
  <2>3. Alike(x, y)
    BY <2>2 DEF Alike, Guarded
  <2> QED BY <1>16, <2>2, <2>3 DEF x, y
<1> QED BY <1>2, <1>3, <1>4, <1>5, <1>6, <1>7, <1>8, <1>9, <1>10, <1>11, <1>12, <1>13, <1>14,
           <1>15, <1>16 DEF EditKinds

LEMMA CourseFields ==
    ASSUME NEW c, IsCourse(c), NEW b, IsCourse(b), Alike(c, b)
    PROVE  /\ DOMAIN c = Fields /\ c # NoCourse /\ b # NoCourse
           /\ c.groups = b.groups /\ c.roster = b.roster /\ c.linked = b.linked
           /\ c.handout = b.handout /\ c.active = b.active /\ c.staff = b.staff
<1>1. c = [f \in Fields |-> c[f]] /\ b = [f \in Fields |-> b[f]]
  BY DEF IsCourse
<1>2. DOMAIN c = Fields /\ DOMAIN b = Fields
  BY <1>1
<1>3. DOMAIN NoCourse = {"active"}
  BY DEF NoCourse
<1> QED BY <1>2, <1>3 DEF Fields, Alike, Guarded

(* So are the conditions of an edit, and the events that it stages.        *)
LEMMA AllowedAlike ==
    ASSUME NEW c, IsCourse(c), NEW b, IsCourse(b), Alike(c, b), NEW e
    PROVE  /\ Allowed(c, e) <=> Allowed(b, e)
           /\ EventCount(c, e) = EventCount(b, e)
<1>1. /\ c # NoCourse /\ b # NoCourse
      /\ c.groups = b.groups /\ c.roster = b.roster /\ c.linked = b.linked
      /\ c.handout = b.handout /\ c.active = b.active /\ c.staff = b.staff
  BY CourseFields
<1>2. Newcomers(c, e) = Newcomers(b, e)
  BY <1>1 DEF Newcomers
<1>3. MayJoin(c, e) <=> MayJoin(b, e)
  BY <1>1, <1>2 DEF MayJoin
<1>4. Allowed(c, e) <=> Allowed(b, e)
  BY <1>1, <1>2, <1>3 DEF Allowed, MayManage, HasGroup, OnRoster
<1>5. EventCount(c, e) = EventCount(b, e)
  BY <1>1, <1>2 DEF EventCount
<1> QED BY <1>4, <1>5

LEMMA EventCountNatural ==
    ASSUME NEW c, IsCourse(c), NEW e, IsEdit(e)
    PROVE  EventCount(c, e) \in Nat
<1>1. CASE e.kind \in {"join", "assign"}
  <2> DEFINE n == Cardinality(Newcomers(c, e))
  <2>1. e.who \in SUBSET Students
    BY <1>1 DEF IsEdit
  <2>2. IsFiniteSet(Newcomers(c, e))
    BY <2>1, StudentsAssumption, FS_Subset DEF Newcomers
  <2>3. n \in Nat
    BY <2>2, FS_CardinalityType
  <2>4. EventCount(c, e) = (n + AuditChunk - 1) \div AuditChunk
    BY <1>1 DEF EventCount
  <2> HIDE DEF n
  <2> QED BY <2>3, <2>4, AuditAssumption
<1>2. CASE e.kind = "manage"
  BY <1>2 DEF EventCount
<1>3. CASE e.kind \in {"createGroup", "settings", "deleteGroup"}
  BY <1>3 DEF EventCount
<1>4. CASE e.kind \notin {"join", "assign", "manage", "createGroup", "settings", "deleteGroup"}
  BY <1>4 DEF EventCount
<1> QED BY <1>1, <1>2, <1>3, <1>4

-----------------------------------------------------------------------------
(***************************************************************************)
(* The compare-and-set.  A save that matches writes what the edit makes of *)
(* the stored course, or nothing.                                          *)
(***************************************************************************)
EditOf(r) == r \in Requests /\ IsEdit(edit[r])

LEMMA UpdateFields ==
    ASSUME NEW c, IsCourse(c), NEW r, EditOf(r)
    PROVE  /\ DOMAIN Update(r, c) = Fields
           /\ \A f \in Fields \ {"pending"} : Update(r, c)[f] = Edited(c, edit[r])[f]
           /\ Update(r, c).pending = c.pending \o NewEvents(r, c)
           /\ NewEvents(r, c) \in Seq(Requests \X Nat)
           /\ Len(NewEvents(r, c)) = EventCount(c, edit[r])
<1> DEFINE x == Edited(c, edit[r])
           n == EventCount(c, edit[r])
<1>1. DOMAIN x = Fields /\ x.pending = c.pending
  BY EditedAlike DEF EditOf, IsEdit, Alike
<1>2. n \in Nat
  BY EventCountNatural DEF EditOf
<1>3. Update(r, c) = [x EXCEPT !.pending = @ \o NewEvents(r, c)]
  BY DEF Update
<1>4. NewEvents(r, c) = [i \in 1..n |-> <<r, i>>]
  BY DEF NewEvents, StagedEvents
<1> HIDE DEF x, n
<1>5. NewEvents(r, c) \in Seq(Requests \X Nat) /\ Len(NewEvents(r, c)) = n
  BY <1>2, <1>4 DEF EditOf
<1>6. /\ DOMAIN Update(r, c) = Fields
      /\ \A f \in Fields \ {"pending"} : Update(r, c)[f] = x[f]
      /\ Update(r, c).pending = c.pending \o NewEvents(r, c)
  BY <1>1, <1>3 DEF Fields
<1> QED BY <1>5, <1>6 DEF x, n

LEMMA SaveIsAtomic ==
    ASSUME NEW c, IsCourse(c), NEW b, IsCourse(b), NEW r, EditOf(r),
           Allowed(b, edit[r]), Matches(c, b, Update(r, b))
    PROVE  /\ Allowed(c, edit[r])
           /\ \/ Written(c, b, Update(r, b)) = c
              \/ Written(c, b, Update(r, b)) = Update(r, c)
<1> DEFINE e     == edit[r]
           after == Update(r, b)
           u     == Update(r, c)
           w     == Written(c, b, after)
           N     == NewEvents(r, c)
<1>1. Alike(c, b) /\ Alike(b, c) /\ e.kind \in EditKinds
  BY DEF Matches, Alike, EditOf, IsEdit
<1>2. Allowed(c, e) /\ EventCount(c, e) = EventCount(b, e)
  BY <1>1, AllowedAlike
<1>3. /\ Alike(Edited(c, e), Edited(b, e))
      /\ Edited(c, e).staffLimit = IF e.kind = "staffLimit" THEN e.limit ELSE c.staffLimit
      /\ Edited(b, e).staffLimit = IF e.kind = "staffLimit" THEN e.limit ELSE b.staffLimit
      /\ e.kind = "staffLimit" => Alike(Edited(b, e), b)
  BY <1>1, EditedAlike
<1>4. NewEvents(r, b) = N
  BY <1>2 DEF NewEvents
<1>5. /\ DOMAIN after = Fields /\ DOMAIN u = Fields
      /\ \A f \in Fields \ {"pending"} : after[f] = Edited(b, e)[f] /\ u[f] = Edited(c, e)[f]
      /\ after.pending = b.pending \o N /\ u.pending = c.pending \o N
      /\ N \in Seq(Requests \X Nat) /\ Len(N) = EventCount(c, e)
  <2>1. /\ DOMAIN after = Fields
        /\ \A f \in Fields \ {"pending"} : after[f] = Edited(b, e)[f]
        /\ after.pending = b.pending \o NewEvents(r, b)
    BY ONLY UpdateFields, IsCourse(b), EditOf(r)
  <2>2. /\ DOMAIN u = Fields
        /\ \A f \in Fields \ {"pending"} : u[f] = Edited(c, e)[f]
        /\ u.pending = c.pending \o N
        /\ N \in Seq(Requests \X Nat) /\ Len(N) = EventCount(c, e)
    BY ONLY UpdateFields, IsCourse(c), EditOf(r)
  <2> HIDE DEF after, u, N, e
  <2> QED BY <1>4, <2>1, <2>2
<1>6. /\ c = [f \in Fields |-> c[f]] /\ DOMAIN c = Fields
      /\ c.pending \in Seq(Requests \X Nat) /\ b.pending \in Seq(Requests \X Nat)
  BY DEF IsCourse
<1>7. /\ DOMAIN w = Fields /\ w = [f \in Fields |-> w[f]]
      /\ \A f \in Fields : w[f] = IF after[f] # b[f] THEN after[f] ELSE c[f]
      /\ \A f \in Fields \ Guarded : after[f] # b[f] => c[f] = b[f]
  <2>1. w = [f \in Fields |-> IF after[f] # b[f] THEN after[f] ELSE c[f]]
    BY <1>6 DEF Written
  <2>2. \A f \in DOMAIN after \ Guarded : after[f] # b[f] => c[f] = b[f]
    BY DEF Matches
  <2> HIDE DEF w, after
  <2> QED BY <2>1, <2>2, <1>5
<1>8. u = [f \in Fields |-> u[f]]
  <2>1. u = [Edited(c, e) EXCEPT !.pending = @ \o N]
    BY DEF Update
  <2> HIDE DEF u
  <2> QED BY <2>1, <1>5
<1> HIDE DEF e, after, u, w, N
<1>9. \A f \in Guarded : after[f] = u[f] /\ c[f] = b[f] /\ w[f] = u[f] /\ f \in Fields \ {"pending"}
  BY <1>1, <1>3, <1>5, <1>7 DEF Alike, Guarded, Fields
<1>10. w.pending = u.pending
  <2>1. CASE after.pending # b.pending
    <3>1. c.pending = b.pending /\ w.pending = after.pending
      BY <2>1, <1>7 DEF Fields, Guarded
    <3> QED BY <3>1, <1>5
  <2>2. CASE after.pending = b.pending
    <3>1. N = <<>>
      BY <2>2, <1>5, <1>6
    <3>2. w.pending = c.pending
      BY <2>2, <1>7 DEF Fields
    <3> QED BY <3>1, <3>2, <1>5, <1>6
  <2> QED BY <2>1, <2>2
<1>11. CASE w.staffLimit = u.staffLimit
  <2>1. \A f \in Fields : w[f] = u[f]
    BY <1>9, <1>10, <1>11 DEF Fields, Guarded
  <2>2. w = u
    BY <2>1, <1>7, <1>8
  <2> QED BY <2>2, <1>2 DEF w, u, after, e
<1>12. CASE w.staffLimit # u.staffLimit
  <2>1. e.kind = "staffLimit" /\ after.staffLimit = b.staffLimit
    BY <1>12, <1>3, <1>5, <1>7 DEF Fields
  <2>2. \A f \in Guarded : w[f] = c[f]
    BY <2>1, <1>3, <1>5, <1>9 DEF Alike
  <2>3. EventCount(c, e) = 0
    BY <2>1 DEF EventCount
  <2>4. w.pending = c.pending
    <3>1. N = <<>>
      BY <2>3, <1>5
    <3> QED BY <3>1, <1>5, <1>6, <1>10
  <2>5. \A f \in Fields : w[f] = c[f]
    BY <2>1, <2>2, <2>4, <1>7 DEF Fields, Guarded
  <2>6. w = c
    BY <2>5, <1>6, <1>7
  <2> QED BY <2>6, <1>2 DEF w, u, after, e
<1> QED BY <1>11, <1>12
-----------------------------------------------------------------------------
(***************************************************************************)
(* An edit that the routes allow keeps a course sound.                     *)
(***************************************************************************)
\* What one group must satisfy in a course with these students and this cap.
GroupFits(group, students, cap) ==
    /\ group \in Group
    /\ group.max # NoMax => Cardinality(group.members) <= group.max
    /\ group.members \subseteq students
    /\ group.limit <= cap

SoundCourse(c) == IsCourse(c) /\ Sound(c)

LEMMA SoundGroups ==
    ASSUME NEW c, SoundCourse(c), NEW g \in DOMAIN c.groups
    PROVE  GroupFits(c.groups[g], DOMAIN c.roster, c.handout)
<1>1. c.groups[g] \in Group
  BY DEF SoundCourse, IsCourse
<1> HIDE DEF Group
<1> QED BY <1>1 DEF SoundCourse, Sound, SeatsHeld, MembersEnrolled, LimitsCapped, OnRoster, GroupFits

LEMMA BuildSound ==
    ASSUME NEW c, c = [f \in Fields |-> c[f]],
           c.roster \in [DOMAIN c.roster -> Nat], DOMAIN c.roster \subseteq Students,
           c.handout \in Nat, c.groups = [g \in DOMAIN c.groups |-> c.groups[g]],
           c.pending \in Seq(Requests \X Nat),
           \A g \in DOMAIN c.groups : GroupFits(c.groups[g], DOMAIN c.roster, c.handout)
    PROVE  SoundCourse(c)
<1>1. c.groups \in [DOMAIN c.groups -> Group]
  BY DEF GroupFits
<1>2. IsCourse(c)
  BY <1>1 DEF IsCourse
<1>3. Sound(c)
  BY DEF Sound, SeatsHeld, MembersEnrolled, LimitsCapped, OnRoster, GroupFits
<1> QED BY <1>2, <1>3 DEF SoundCourse

\* An edit of one group.
LEMMA OneGroup ==
    ASSUME NEW c, SoundCourse(c), NEW g \in DOMAIN c.groups, NEW h,
           GroupFits(h, DOMAIN c.roster, c.handout)
    PROVE  SoundCourse([c EXCEPT !.groups = [c.groups EXCEPT ![g] = h]])
<1> DEFINE x == [c EXCEPT !.groups = [c.groups EXCEPT ![g] = h]]
<1>1. /\ c = [f \in Fields |-> c[f]]
      /\ c.roster \in [DOMAIN c.roster -> Nat] /\ DOMAIN c.roster \subseteq Students
      /\ c.handout \in Nat /\ c.pending \in Seq(Requests \X Nat)
      /\ c.groups = [i \in DOMAIN c.groups |-> c.groups[i]]
  BY DEF SoundCourse, IsCourse
<1>2. /\ x = [f \in Fields |-> x[f]]
      /\ x.roster = c.roster /\ x.handout = c.handout /\ x.pending = c.pending
      /\ x.groups = [c.groups EXCEPT ![g] = h]
  BY <1>1 DEF Fields
<1> HIDE DEF x
<1>3. /\ DOMAIN x.groups = DOMAIN c.groups
      /\ x.groups = [i \in DOMAIN x.groups |-> x.groups[i]]
      /\ \A i \in DOMAIN x.groups : x.groups[i] = IF i = g THEN h ELSE c.groups[i]
  BY <1>1, <1>2
<1>4. \A i \in DOMAIN x.groups : GroupFits(x.groups[i], DOMAIN x.roster, x.handout)
  BY <1>2, <1>3, SoundGroups
<1>5. SoundCourse(x)
  BY <1>1, <1>2, <1>3, <1>4, BuildSound
<1> QED BY <1>5 DEF x

\* An edit that leaves the groups and the cap alone, and takes nobody off the roster.
LEMMA SameGroups ==
    ASSUME NEW c, SoundCourse(c), NEW x, x = [f \in Fields |-> x[f]],
           x.groups = c.groups, x.handout = c.handout, x.pending = c.pending,
           x.roster \in [DOMAIN x.roster -> Nat],
           DOMAIN c.roster \subseteq DOMAIN x.roster, DOMAIN x.roster \subseteq Students
    PROVE  SoundCourse(x)
<1>1. /\ c.handout \in Nat /\ c.pending \in Seq(Requests \X Nat)
      /\ c.groups = [i \in DOMAIN c.groups |-> c.groups[i]]
  BY DEF SoundCourse, IsCourse
<1>2. \A i \in DOMAIN x.groups : GroupFits(x.groups[i], DOMAIN x.roster, x.handout)
  <2>1. \A i \in DOMAIN c.groups : GroupFits(c.groups[i], DOMAIN c.roster, c.handout)
    BY SoundGroups
  <2> QED BY <2>1 DEF GroupFits
<1> QED BY <1>1, <1>2, BuildSound

LEMMA MembersFinite ==
    ASSUME NEW group \in Group
    PROVE  IsFiniteSet(group.members) /\ Cardinality(group.members) \in Nat
<1>1. group.members \subseteq Students
  BY DEF Group
<1>2. IsFiniteSet(group.members)
  BY <1>1, StudentsAssumption, FS_Subset
<1> QED BY <1>2, FS_CardinalityType

\* A group that loses members still fits.
LEMMA FewerMembers ==
    ASSUME NEW group, NEW students, NEW cap, GroupFits(group, students, cap),
           NEW S, S \subseteq group.members
    PROVE  GroupFits([group EXCEPT !.members = S], students, cap)
<1> DEFINE h == [group EXCEPT !.members = S]
<1>1. group \in Group
  BY DEF GroupFits
<1>2. /\ h \in Group /\ h.members = S /\ h.max = group.max /\ h.limit = group.limit
      /\ group.max \in Nat
  BY <1>1 DEF Group
<1>3. /\ Cardinality(group.members) \in Nat /\ Cardinality(S) \in Nat
      /\ Cardinality(S) <= Cardinality(group.members)
  BY <1>1, MembersFinite, FS_Subset, FS_CardinalityType
<1> HIDE DEF h
<1>4. GroupFits(h, students, cap)
  BY <1>2, <1>3 DEF GroupFits
<1> QED BY <1>4 DEF h

\* Those who come in: one by one by their own wish, or all of a selection.
LEMMA SeatsAreThere ==
    ASSUME NEW c, SoundCourse(c), NEW e, IsEdit(e), Allowed(c, e),
           e.kind \in {"join", "assign"}
    PROVE  GroupFits([c.groups[e.group] EXCEPT !.members = @ \cup e.who],
                     DOMAIN c.roster, c.handout)
<1> DEFINE group == c.groups[e.group]
           S == group.members \cup e.who
           h == [group EXCEPT !.members = S]
<1>1. e.group \in DOMAIN c.groups /\ e.who \subseteq DOMAIN c.roster
  BY DEF Allowed, HasGroup, OnRoster
<1>2. GroupFits(group, DOMAIN c.roster, c.handout) /\ DOMAIN c.roster \subseteq Students
  BY <1>1, SoundGroups DEF SoundCourse, IsCourse
<1>3. group \in Group /\ group.max \in Nat /\ group.members \subseteq Students
  BY <1>2 DEF GroupFits, Group
<1>4. /\ h \in Group /\ h.members = S /\ h.max = group.max /\ h.limit = group.limit
  BY <1>1, <1>2, <1>3 DEF Group
<1>5. group.max # NoMax => Cardinality(S) <= group.max
  <2>1. CASE Newcomers(c, e) = {}
    <3>1. S = group.members
      BY <2>1 DEF Newcomers
    <3> QED BY <3>1, <1>2 DEF GroupFits
  <2>2. CASE Newcomers(c, e) # {} /\ e.kind = "join"
    <3>1. group.max # NoMax => Cardinality(group.members) < group.max
      BY <2>2 DEF Allowed, MayJoin
    <3>2. PICK s \in Students : e.who = {s}
      BY <2>2 DEF IsEdit
    <3>3. s \notin group.members /\ S = group.members \cup {s}
      BY <2>2, <3>2 DEF Newcomers
    <3>4. IsFiniteSet(group.members) /\ Cardinality(group.members) \in Nat
      BY <1>3, MembersFinite
    <3>5. Cardinality(S) = Cardinality(group.members) + 1
      BY <3>3, <3>4, FS_AddElement
    <3> QED BY <1>3, <3>1, <3>4, <3>5
  <2>3. CASE Newcomers(c, e) # {} /\ e.kind = "assign"
    <3>1. Fits(group, Newcomers(c, e))
      BY <2>3 DEF Allowed
    <3>2. group.members \cup Newcomers(c, e) = S
      BY DEF Newcomers
    <3> QED BY <2>3, <3>1, <3>2 DEF Fits
  <2> QED BY <2>1, <2>2, <2>3
<1> HIDE DEF group, S, h
<1>6. S \subseteq DOMAIN c.roster
  BY <1>1, <1>2 DEF S, GroupFits
<1>7. GroupFits(h, DOMAIN c.roster, c.handout)
  BY <1>2, <1>4, <1>5, <1>6 DEF GroupFits
<1> QED BY <1>7 DEF h, S, group

\* The edits of one group's fields.
LEMMA FieldsFit ==
    ASSUME NEW c, SoundCourse(c), NEW e, IsEdit(e), Allowed(c, e),
           e.kind \in {"settings", "manage", "groupLimit"}, NEW h,
           h = CASE e.kind = "settings" ->
                       [c.groups[e.group] EXCEPT !.open = e.open, !.max = e.max]
                 [] e.kind = "manage" -> Managed(c.groups[e.group], e)
                 [] e.kind = "groupLimit" -> [c.groups[e.group] EXCEPT !.limit = e.limit]
    PROVE  GroupFits(h, DOMAIN c.roster, c.handout)
<1> DEFINE group == c.groups[e.group]
<1>1. e.group \in DOMAIN c.groups
  BY DEF Allowed, HasGroup
<1>2. GroupFits(group, DOMAIN c.roster, c.handout)
  BY <1>1, SoundGroups
<1>3. group \in Group
  BY <1>2 DEF GroupFits
<1>4. /\ SetsMax(e) => e.max \in Nat /\ (e.max # NoMax => Cardinality(group.members) <= e.max)
      /\ SetsLimit(e) => e.limit \in Nat /\ e.limit <= c.handout
  BY DEF Allowed, IsEdit, SetsMax, SetsLimit
<1> HIDE DEF group
<1>5. CASE e.kind = "settings"
  <2>1. h = [group EXCEPT !.open = e.open, !.max = e.max]
    BY <1>5 DEF group
  <2>2. e.open \in BOOLEAN /\ SetsMax(e)
    BY <1>5 DEF IsEdit, SetsMax
  <2>3. h \in Group /\ h.members = group.members /\ h.limit = group.limit /\ h.max = e.max
    BY <1>3, <1>4, <2>1, <2>2 DEF Group
  <2> QED BY <1>2, <1>4, <2>2, <2>3 DEF GroupFits
<1>6. CASE e.kind = "manage"
  <2>1. h = Managed(group, e)
    BY <1>6 DEF group
  <2>2. /\ e.open \in BOOLEAN /\ e.active \in BOOLEAN
        /\ "max" \in e.fields => SetsMax(e)
        /\ "limit" \in e.fields => SetsLimit(e)
    BY <1>6 DEF IsEdit, SetsMax, SetsLimit
  <2>3. /\ h.members = group.members
        /\ h.max = IF "max" \in e.fields THEN e.max ELSE group.max
        /\ h.limit = IF "limit" \in e.fields THEN e.limit ELSE group.limit
        /\ h \in Group
    BY <1>3, <1>4, <2>1, <2>2 DEF Group, Managed
  <2> QED BY <1>2, <1>4, <2>2, <2>3 DEF GroupFits
<1>7. CASE e.kind = "groupLimit"
  <2>1. h = [group EXCEPT !.limit = e.limit] /\ SetsLimit(e)
    BY <1>7 DEF group, SetsLimit
  <2>2. h \in Group /\ h.members = group.members /\ h.limit = e.limit /\ h.max = group.max
    BY <1>3, <1>4, <2>1 DEF Group
  <2> QED BY <1>2, <1>4, <2>1, <2>2 DEF GroupFits
<1> QED BY <1>5, <1>6, <1>7

LEMMA EditKeepsSound ==
    ASSUME NEW c, SoundCourse(c), NEW e, IsEdit(e), Allowed(c, e)
    PROVE  SoundCourse(Edited(c, e))
<1> DEFINE x == Edited(c, e)
           group == c.groups[e.group]
           OneGroupTo(h) == x = [c EXCEPT !.groups = [c.groups EXCEPT ![e.group] = h]]
<1>1. /\ IsCourse(c)
      /\ c = [f \in Fields |-> c[f]]
      /\ c.roster \in [DOMAIN c.roster -> Nat] /\ DOMAIN c.roster \subseteq Students
      /\ c.handout \in Nat /\ c.pending \in Seq(Requests \X Nat)
      /\ c.groups = [i \in DOMAIN c.groups |-> c.groups[i]]
  BY DEF SoundCourse, IsCourse
<1>2. /\ e.kind \in {"join", "assign", "settings", "manage", "groupLimit", "leaveGroup"}
            => e.group \in DOMAIN c.groups
      /\ e.kind \in EditKinds
  BY DEF Allowed, HasGroup, IsEdit
<1>3. \A i \in DOMAIN c.groups : GroupFits(c.groups[i], DOMAIN c.roster, c.handout)
  BY SoundGroups
<1>4. CASE e.kind \in {"join", "assign"}
  <2>1. x = [c EXCEPT !.groups[e.group].members = @ \cup e.who]
    BY <1>4 DEF Edited
  <2>2. OneGroupTo([group EXCEPT !.members = @ \cup e.who])
    BY <2>1
  <2>3. GroupFits([group EXCEPT !.members = @ \cup e.who], DOMAIN c.roster, c.handout)
    BY <1>4, SeatsAreThere
  <2> HIDE DEF x, group
  <2> QED BY <1>2, <1>4, <2>2, <2>3, OneGroup DEF x
<1>5. CASE e.kind = "settings"
  <2> DEFINE h == [group EXCEPT !.open = e.open, !.max = e.max]
  <2>1. x = [c EXCEPT !.groups[e.group].open = e.open, !.groups[e.group].max = e.max]
    BY <1>5 DEF Edited
  <2>2. x = [c EXCEPT !.groups = [c.groups EXCEPT ![e.group].open = e.open,
                                                  ![e.group].max = e.max]]
    BY <2>1, <1>1 DEF Fields
  <2>3. [c.groups EXCEPT ![e.group].open = e.open, ![e.group].max = e.max]
            = [c.groups EXCEPT ![e.group] = h]
    BY <1>1, <1>2, <1>5
  <2>4. OneGroupTo(h)
    BY <2>2, <2>3
  <2>5. GroupFits(h, DOMAIN c.roster, c.handout)
    BY <1>5, FieldsFit
  <2> HIDE DEF x, h
  <2> QED BY <1>2, <1>5, <2>4, <2>5, OneGroup DEF x
<1>6. CASE e.kind = "manage"
  <2>1. OneGroupTo(Managed(group, e))
    BY <1>6 DEF Edited
  <2>2. GroupFits(Managed(group, e), DOMAIN c.roster, c.handout)
    BY <1>6, FieldsFit
  <2> HIDE DEF x
  <2> QED BY <1>2, <1>6, <2>1, <2>2, OneGroup DEF x
<1>7. CASE e.kind = "groupLimit"
  <2> DEFINE h == [group EXCEPT !.limit = e.limit]
  <2>1. x = GroupLimited(c, e)
    BY <1>7 DEF Edited
  <2>2. OneGroupTo(h)
    BY <2>1 DEF GroupLimited
  <2>3. GroupFits(h, DOMAIN c.roster, c.handout)
    BY <1>7, FieldsFit
  <2> HIDE DEF x, h
  <2> QED BY <1>2, <1>7, <2>2, <2>3, OneGroup DEF x
<1>8. CASE e.kind = "leaveGroup"
  <2> DEFINE S == group.members \ e.who
             h == [group EXCEPT !.members = S]
  <2>1. x = [c EXCEPT !.groups[e.group].members = @ \ e.who]
    BY <1>8 DEF Edited
  <2>2. OneGroupTo(h)
    BY <2>1
  <2>3. GroupFits(h, DOMAIN c.roster, c.handout)
    BY <1>2, <1>3, <1>8, FewerMembers
  <2> HIDE DEF x, h
  <2> QED BY <1>2, <1>8, <2>2, <2>3, OneGroup DEF x
<1>9. CASE e.kind = "createGroup"
  <2> DEFINE new == [i \in DOMAIN c.groups \cup {e.group} |->
                        IF i = e.group THEN NewGroup(c) ELSE c.groups[i]]
  <2>1. x = [c EXCEPT !.groups = new]
    BY <1>9 DEF Edited
  <2>2. GroupFits(NewGroup(c), DOMAIN c.roster, c.handout)
    BY <1>1 DEF GroupFits, NewGroup, Group, Lesser, NoMax
  <2>3. \A i \in DOMAIN new : GroupFits(new[i], DOMAIN c.roster, c.handout)
    BY <1>3, <2>2
  <2> HIDE DEF x
  <2>4. new = [i \in DOMAIN new |-> new[i]]
    OBVIOUS
  <2> HIDE DEF new
  <2>5. /\ x = [f \in Fields |-> x[f]]
        /\ x.roster = c.roster /\ x.handout = c.handout /\ x.pending = c.pending
        /\ x.groups = new
    BY <1>1, <2>1 DEF Fields
  <2>6. SoundCourse(x)
    BY <1>1, <2>3, <2>4, <2>5, BuildSound
  <2> QED BY <2>6 DEF x
<1>10. CASE e.kind = "deleteGroup"
  <2> DEFINE new == [i \in DOMAIN c.groups \ {e.group} |-> c.groups[i]]
  <2>1. x = [c EXCEPT !.groups = new]
    BY <1>10 DEF Edited
  <2>2. \A i \in DOMAIN new : GroupFits(new[i], DOMAIN c.roster, c.handout)
    BY <1>3
  <2> HIDE DEF x
  <2>3. new = [i \in DOMAIN new |-> new[i]]
    OBVIOUS
  <2> HIDE DEF new
  <2>4. /\ x = [f \in Fields |-> x[f]]
        /\ x.roster = c.roster /\ x.handout = c.handout /\ x.pending = c.pending
        /\ x.groups = new
    BY <1>1, <2>1 DEF Fields
  <2>5. SoundCourse(x)
    BY <1>1, <2>2, <2>3, <2>4, BuildSound
  <2> QED BY <2>5 DEF x
<1>11. CASE e.kind = "enrol"
  <2> DEFINE new == [s \in DOMAIN c.roster \cup e.who |->
                        IF s \in DOMAIN c.roster /\ (s \notin e.who \/ c.roster[s] > 0)
                        THEN c.roster[s] ELSE 1]
  <2>1. x = [c EXCEPT !.roster = new, !.linked = @ \cup e.known]
    <3>1. x = Enrolled(c, e)
      BY <1>11 DEF Edited
    <3> QED BY <3>1 DEF Enrolled
  <2>2. /\ new \in [DOMAIN new -> Nat]
        /\ DOMAIN c.roster \subseteq DOMAIN new /\ DOMAIN new \subseteq Students
    BY <1>1, <1>11 DEF IsEdit
  <2> HIDE DEF x, new
  <2>3. /\ x = [f \in Fields |-> x[f]]
        /\ x.groups = c.groups /\ x.handout = c.handout /\ x.pending = c.pending
        /\ x.roster = new
    BY <1>1, <2>1 DEF Fields
  <2>4. SoundCourse(x)
    BY <2>2, <2>3, SameGroups
  <2> QED BY <2>4 DEF x
<1>12. CASE e.kind = "memberLimit"
  <2> DEFINE new == [s \in DOMAIN c.roster |-> IF s \in e.who THEN e.limit ELSE c.roster[s]]
  <2>1. x = [c EXCEPT !.roster = new]
    BY <1>12 DEF Edited
  <2>2. new \in [DOMAIN new -> Nat] /\ DOMAIN new = DOMAIN c.roster
    BY <1>1, <1>12 DEF IsEdit
  <2> HIDE DEF x, new
  <2>3. /\ x = [f \in Fields |-> x[f]]
        /\ x.groups = c.groups /\ x.handout = c.handout /\ x.pending = c.pending
        /\ x.roster = new
    BY <1>1, <2>1 DEF Fields
  <2>4. SoundCourse(x)
    BY <1>1, <2>2, <2>3, SameGroups
  <2> QED BY <2>4 DEF x
<1>13. CASE e.kind \in {"reconcile", "metadata", "staffLimit", "status"}
  <2>1. \/ x = Linked(c, e.who) \/ x = Appointed(c, e.staff)
        \/ x = StaffLimited(c, e.limit) \/ x = Opened(c, e.active)
    BY <1>13 DEF Edited
  <2> HIDE DEF x
  <2>2. /\ x = [f \in Fields |-> x[f]]
        /\ x.groups = c.groups /\ x.handout = c.handout /\ x.pending = c.pending
        /\ x.roster = c.roster
    BY <1>1, <2>1 DEF Fields, Linked, Appointed, StaffLimited, Opened
  <2>3. SoundCourse(x)
    BY <1>1, <2>2, SameGroups
  <2> QED BY <2>3 DEF x
<1>14. CASE e.kind = "unenrol"
  <2> DEFINE roster == [s \in DOMAIN c.roster \ e.who |-> c.roster[s]]
             left(i) == c.groups[i].members \ e.who
             new == [i \in DOMAIN c.groups |-> [c.groups[i] EXCEPT !.members = left(i)]]
  <2>1. x = [c EXCEPT !.roster = roster, !.linked = @ \ e.who, !.groups = new]
    <3>1. x = Unenrolled(c, e.who)
      BY <1>14 DEF Edited
    <3> QED BY <3>1 DEF Unenrolled
  <2>2. \A i \in DOMAIN c.groups : GroupFits(new[i], DOMAIN roster, c.handout)
    <3> SUFFICES ASSUME NEW i \in DOMAIN c.groups
                 PROVE  GroupFits(new[i], DOMAIN roster, c.handout)
      OBVIOUS
    <3>1. GroupFits([c.groups[i] EXCEPT !.members = left(i)], DOMAIN c.roster, c.handout)
      BY <1>3, FewerMembers
    <3>2. new[i] = [c.groups[i] EXCEPT !.members = left(i)] /\ c.groups[i] \in Group
      BY <1>3 DEF GroupFits
    <3>3. new[i].members = c.groups[i].members \ e.who
      BY <3>2 DEF Group
    <3>4. DOMAIN roster = DOMAIN c.roster \ e.who
      OBVIOUS
    <3> HIDE DEF new, roster
    <3> QED BY <3>1, <3>2, <3>3, <3>4 DEF GroupFits
  <2>3. /\ roster \in [DOMAIN roster -> Nat] /\ DOMAIN roster \subseteq Students
        /\ new = [i \in DOMAIN new |-> new[i]] /\ DOMAIN new = DOMAIN c.groups
    BY <1>1
  <2> HIDE DEF x, new, roster
  <2>4. /\ x = [f \in Fields |-> x[f]]
        /\ x.roster = roster /\ x.handout = c.handout /\ x.pending = c.pending
        /\ x.groups = new
    BY <1>1, <2>1 DEF Fields
  <2>5. SoundCourse(x)
    BY <1>1, <2>2, <2>3, <2>4, BuildSound
  <2> QED BY <2>5 DEF x
<1>15. CASE e.kind = "handout"
  <2> DEFINE roster == [s \in DOMAIN c.roster |-> Lesser(c.roster[s], e.limit)]
             new == [i \in DOMAIN c.groups |->
                        [c.groups[i] EXCEPT !.limit = Lesser(c.groups[i].limit, e.limit)]]
  <2>1. x = [c EXCEPT !.handout = e.limit, !.roster = roster, !.groups = new]
    <3>1. x = Capped(c, e.limit)
      BY <1>15 DEF Edited
    <3> QED BY <3>1 DEF Capped
  <2>2. e.limit \in Nat
    BY <1>15 DEF IsEdit
  <2>3. \A i \in DOMAIN c.groups : GroupFits(new[i], DOMAIN c.roster, e.limit)
    <3> SUFFICES ASSUME NEW i \in DOMAIN c.groups
                 PROVE  GroupFits(new[i], DOMAIN c.roster, e.limit)
      OBVIOUS
    <3>1. GroupFits(c.groups[i], DOMAIN c.roster, c.handout) /\ c.groups[i] \in Group
      BY <1>3 DEF GroupFits
    <3>2. /\ new[i] = [c.groups[i] EXCEPT !.limit = Lesser(c.groups[i].limit, e.limit)]
      OBVIOUS
    <3>3. /\ new[i] \in Group /\ new[i].members = c.groups[i].members
          /\ new[i].max = c.groups[i].max /\ new[i].limit <= e.limit
      BY <2>2, <3>1, <3>2 DEF Group, Lesser
    <3> HIDE DEF new
    <3> QED BY <3>1, <3>3 DEF GroupFits
  <2>4. /\ roster \in [DOMAIN roster -> Nat] /\ DOMAIN roster = DOMAIN c.roster
        /\ new = [i \in DOMAIN new |-> new[i]] /\ DOMAIN new = DOMAIN c.groups
    BY <1>1, <2>2 DEF Lesser
  <2> HIDE DEF x, new, roster
  <2>5. /\ x = [f \in Fields |-> x[f]]
        /\ x.roster = roster /\ x.handout = e.limit /\ x.pending = c.pending
        /\ x.groups = new
    BY <1>1, <2>1 DEF Fields
  <2>6. SoundCourse(x)
    BY <1>1, <2>2, <2>3, <2>4, <2>5, BuildSound
  <2> QED BY <2>6 DEF x
<1> QED BY <1>2, <1>4, <1>5, <1>6, <1>7, <1>8, <1>9, <1>10, <1>11, <1>12, <1>13, <1>14, <1>15
        DEF EditKinds

LEMMA UpdateKeepsSound ==
    ASSUME NEW c, SoundCourse(c), NEW r, EditOf(r), Allowed(c, edit[r])
    PROVE  SoundCourse(Update(r, c))
<1> DEFINE x == Edited(c, edit[r])
           u == Update(r, c)
<1>1. SoundCourse(x) /\ IsCourse(x) /\ IsCourse(c)
  BY EditKeepsSound DEF EditOf, SoundCourse
<1>2. /\ DOMAIN u = Fields
      /\ \A f \in Fields \ {"pending"} : u[f] = x[f]
      /\ u.pending = c.pending \o NewEvents(r, c)
      /\ NewEvents(r, c) \in Seq(Requests \X Nat)
  BY <1>1, UpdateFields
<1>3. u = [f \in Fields |-> u[f]]
  <2>1. u = [x EXCEPT !.pending = @ \o NewEvents(r, c)]
    BY DEF Update
  <2> HIDE DEF u, x
  <2> QED BY <2>1, <1>2
<1>4. u.pending \in Seq(Requests \X Nat)
  <2> HIDE DEF u, x
  <2>1. c.pending \in Seq(Requests \X Nat)
    BY <1>1 DEF IsCourse
  <2> QED BY <1>2, <2>1
<1> HIDE DEF u, x
<1>5. u.groups = x.groups /\ u.roster = x.roster /\ u.handout = x.handout
  BY <1>2 DEF Fields
<1>6. \A i \in DOMAIN x.groups : GroupFits(x.groups[i], DOMAIN x.roster, x.handout)
  BY <1>1, SoundGroups
<1>7. /\ x.roster \in [DOMAIN x.roster -> Nat] /\ DOMAIN x.roster \subseteq Students
      /\ x.handout \in Nat /\ x.groups = [g \in DOMAIN x.groups |-> x.groups[g]]
  BY <1>1 DEF IsCourse
<1>8. SoundCourse(u)
  BY <1>3, <1>4, <1>5, <1>6, <1>7, BuildSound
<1> QED BY <1>8 DEF u

-----------------------------------------------------------------------------
(***************************************************************************)
(* The invariant: the stored course is sound and its outbox is bounded,    *)
(* because every save works on a copy on which its edit was allowed and    *)
(* left room in the outbox.                                                *)
(***************************************************************************)
Returns == {"reread", "recheck", "done"}
Calls == [batch : Seq(Requests \X Nat), copied : Nat, round : Nat, back : Returns]

\* r may store what it makes of c.
MaySave(r, c) ==
    /\ IsCourse(c) /\ IsEdit(edit[r]) /\ Allowed(c, edit[r])
    /\ Len(Update(r, c).pending) <= MaxPending

\* p may read the course again.
MayReread(p) == p \in Requests /\ edit[p] # Deletion

StoredSound ==
    course # NoCourse => SoundCourse(course) /\ Len(course.pending) <= MaxPending

Inductive ==
    /\ edit \in [Requests -> Edits] /\ pc \in [Processes -> Places]
    /\ seen = [r \in Requests |-> seen[r]] /\ flush \in [Processes -> Calls]
    /\ StoredSound
    /\ \A p \in Processes : flush[p].back = "reread" \/ pc[p] = "reread" => MayReread(p)
    /\ \A r \in Requests : pc[r] = "save" => MaySave(r, seen[r])

LEMMA InitInductive == Init => Inductive
<1> SUFFICES ASSUME Init PROVE Inductive
  OBVIOUS
<1>1. /\ edit \in [Requests -> Edits] /\ pc = [p \in Processes |-> "idle"]
      /\ seen = [r \in Requests |-> NoCourse] /\ flush = [p \in Processes |-> NoFlush]
  BY DEF Init
<1>2. StoredSound
  BY FirstCourseAssumption DEF Init, StoredSound, SoundCourse
<1>3. NoFlush \in Calls /\ NoFlush.back = "done"
  BY DEF NoFlush, Calls, Returns
<1>4. Requests \subseteq Processes
  BY DEF Processes
<1> QED BY <1>1, <1>2, <1>3, <1>4 DEF Inductive, Places

\* A process that leaves its own copy alone, or forgets it, and does not go on
\* to save.
LEMMA StepAside ==
    ASSUME Inductive, NEW p \in Processes, NEW place \in Places \ {"save"},
           pc' = [pc EXCEPT ![p] = place], place = "reread" => MayReread(p),
           UNCHANGED edit, StoredSound',
           \/ UNCHANGED flush
           \/ \E call \in Calls : /\ call.back = "reread" => MayReread(p)
                                  /\ flush' = [flush EXCEPT ![p] = call],
           \/ UNCHANGED seen
           \/ p \in Requests /\ Forget(p)
    PROVE  Inductive'
<1>1. edit' \in [Requests -> Edits] /\ pc' \in [Processes -> Places]
  BY DEF Inductive
<1>2. seen' = [r \in Requests |-> seen'[r]] /\ flush' \in [Processes -> Calls]
  BY DEF Inductive, Forget
<1>3. \A q \in Processes : flush'[q].back = "reread" \/ pc'[q] = "reread" => MayReread(q)'
  <2> SUFFICES ASSUME NEW q \in Processes, flush'[q].back = "reread" \/ pc'[q] = "reread"
               PROVE  MayReread(q)
    BY DEF MayReread
  <2>1. q = p \/ (flush'[q] = flush[q] /\ pc'[q] = pc[q])
    BY DEF Inductive
  <2>2. flush'[p] = flush[p] \/ (flush'[p].back = "reread" => MayReread(p))
    BY DEF Inductive
  <2>3. pc'[p] = place
    BY DEF Inductive
  <2> QED BY <2>1, <2>2, <2>3 DEF Inductive
<1>4. \A r \in Requests : pc'[r] = "save" => MaySave(r, seen[r])'
  <2> SUFFICES ASSUME NEW r \in Requests, pc'[r] = "save" PROVE MaySave(r, seen[r])'
    OBVIOUS
  <2>1. r # p /\ pc[r] = "save" /\ seen'[r] = seen[r] /\ MaySave(r, seen[r])
    BY DEF Inductive, Processes, Forget
  <2> QED BY <2>1 DEF MaySave, Update, NewEvents
<1> QED BY <1>1, <1>2, <1>3, <1>4 DEF Inductive

\* A process that decides.
LEMMA DecideInductive ==
    ASSUME Inductive, NEW r \in Requests, edit[r] # Deletion, Decide(r),
           UNCHANGED <<course, edit, flush>>
    PROVE  Inductive'
<1>1. /\ edit[r] \in Edits /\ r \in Processes /\ IsEdit(edit[r]) /\ StoredSound'
  BY EditsAssumption DEF Inductive, Processes, StoredSound, SoundCourse
<1>2. CASE pc' = [pc EXCEPT ![r] = "done"] /\ UNCHANGED seen
  BY <1>1, <1>2, StepAside DEF Places
<1>3. CASE /\ Allowed(course, edit[r]) /\ Len(Update(r, course).pending) <= MaxPending
           /\ seen' = [seen EXCEPT ![r] = course] /\ pc' = [pc EXCEPT ![r] = "save"]
  <2>1. edit' \in [Requests -> Edits] /\ pc' \in [Processes -> Places]
    BY <1>3 DEF Inductive, Places
  <2>2. seen' = [q \in Requests |-> seen'[q]] /\ flush' \in [Processes -> Calls]
    BY <1>3 DEF Inductive
  <2>3. \A q \in Processes : flush'[q].back = "reread" \/ pc'[q] = "reread" => MayReread(q)'
    BY <1>1, <1>3 DEF Inductive, MayReread
  <2>4. \A q \in Requests : pc'[q] = "save" => MaySave(q, seen[q])'
    <3> SUFFICES ASSUME NEW q \in Requests, pc'[q] = "save" PROVE MaySave(q, seen[q])'
      OBVIOUS
    <3>1. CASE q = r
      <4>1. seen'[q] = course /\ course # NoCourse
        BY <1>3, <3>1 DEF Inductive, Allowed
      <4>2. MaySave(r, course)
        BY <1>1, <1>3, <4>1 DEF MaySave, Inductive, StoredSound, SoundCourse
      <4> QED BY <3>1, <4>1, <4>2 DEF MaySave, Update, NewEvents
    <3>2. CASE q # r
      <4>1. pc[q] = "save" /\ seen'[q] = seen[q] /\ MaySave(q, seen[q])
        BY <1>1, <1>3, <3>2 DEF Inductive, Processes
      <4> QED BY <4>1 DEF MaySave, Update, NewEvents
    <3> QED BY <3>1, <3>2
  <2> QED BY <1>1, <2>1, <2>2, <2>3, <2>4 DEF Inductive
<1> QED BY <1>2, <1>3 DEF Decide, Goto

LEMMA CallReturn ==
    ASSUME NEW n \in Nat, NEW back \in Returns
    PROVE  /\ [NoFlush EXCEPT !.round = n, !.back = back] \in Calls
           /\ [NoFlush EXCEPT !.round = n, !.back = back].back = back
<1>1. NoFlush \in Calls
  BY DEF NoFlush, Calls, Returns
<1> QED BY <1>1 DEF Calls

\* A course that only loses its pending events, or goes, stays sound.
LEMMA StaysSound ==
    ASSUME StoredSound,
           \/ UNCHANGED course
           \/ course' = NoCourse
           \/ course # NoCourse /\ course' = [course EXCEPT !.pending = <<>>]
    PROVE  StoredSound'
<1>1. CASE UNCHANGED course
  BY <1>1 DEF StoredSound, SoundCourse, Sound, IsCourse, SeatsHeld, MembersEnrolled, LimitsCapped,
     OnRoster
<1>2. CASE course' = NoCourse
  BY <1>2 DEF StoredSound
<1>3. CASE course # NoCourse /\ course' = [course EXCEPT !.pending = <<>>]
  <2> DEFINE c == [course EXCEPT !.pending = <<>>]
  <2>1. SoundCourse(course) /\ course = [f \in Fields |-> course[f]]
    BY <1>3 DEF StoredSound, SoundCourse, IsCourse
  <2>2. /\ c = [f \in Fields |-> c[f]] /\ c.pending = <<>>
        /\ c.groups = course.groups /\ c.roster = course.roster /\ c.handout = course.handout
    BY <2>1 DEF Fields
  <2> HIDE DEF c
  <2>3. /\ course.roster \in [DOMAIN course.roster -> Nat]
        /\ DOMAIN course.roster \subseteq Students /\ course.handout \in Nat
        /\ course.groups = [g \in DOMAIN course.groups |-> course.groups[g]]
    BY <2>1 DEF SoundCourse, IsCourse
  <2>4. \A g \in DOMAIN c.groups : GroupFits(c.groups[g], DOMAIN c.roster, c.handout)
    BY <2>1, <2>2, SoundGroups
  <2>5. c.pending \in Seq(Requests \X Nat) /\ Len(c.pending) <= MaxPending
    <3>1. <<>> \in Seq(Requests \X Nat) /\ Len(<<>>) = 0
      OBVIOUS
    <3>2. MaxPending \in Nat /\ c.pending = <<>>
      BY <2>2, AuditAssumption
    <3> QED BY <3>1, <3>2
  <2>6. SoundCourse(c)
    BY <2>2, <2>3, <2>4, <2>5, BuildSound
  <2>7. course' = c
    BY <1>3 DEF c
  <2> QED BY <2>5, <2>6, <2>7 DEF StoredSound
<1> QED BY <1>1, <1>2, <1>3

LEMMA FlushInductive ==
    ASSUME Inductive, NEW p \in Processes, Flush(p)
    PROVE  Inductive'
<1>1. /\ StoredSound /\ flush[p] \in Calls /\ UNCHANGED <<edit, seen>>
      /\ flush[p].back = "reread" => MayReread(p)
  BY DEF Inductive, Flush, FlushRead, Copy, Clear, FlushFails
<1>2. StoredSound'
  <2>1. \/ UNCHANGED course
        \/ course # NoCourse /\ course' = [course EXCEPT !.pending = <<>>]
    BY DEF Flush, FlushRead, Copy, Clear, FlushFails, Unchanged
  <2> QED BY <1>1, <2>1, StaysSound
<1>3. NoFlush \in Calls /\ NoFlush.back = "done"
  BY DEF NoFlush, Calls, Returns
<1>4. ASSUME NEW delivered \in BOOLEAN, Return(p, delivered) PROVE Inductive'
  <2> DEFINE place == IF flush[p].back = "recheck" /\ ~delivered THEN "done" ELSE flush[p].back
  <2>1. pc' = [pc EXCEPT ![p] = place] /\ flush' = [flush EXCEPT ![p] = NoFlush]
    BY <1>4 DEF Return, Goto
  <2>2. place \in Places \ {"save"} /\ (place = "reread" => MayReread(p))
    BY <1>1 DEF Calls, Returns, Places
  <2> HIDE DEF place
  <2> QED BY <1>1, <1>2, <1>3, <2>1, <2>2, StepAside
<1>5. CASE FlushRead(p)
  <2>1. CASE course = NoCourse \/ course.pending = <<>>
    BY <2>1, <1>4, <1>5 DEF FlushRead
  <2>2. CASE ~(course = NoCourse \/ course.pending = <<>>)
    <3> DEFINE call == [flush[p] EXCEPT !.batch = course.pending, !.copied = 0]
    <3>1. pc' = [pc EXCEPT ![p] = "copy"] /\ flush' = [flush EXCEPT ![p] = call]
      <4>1. flush' = [flush EXCEPT ![p].batch = course.pending, ![p].copied = 0]
        BY <2>2, <1>5 DEF FlushRead
      <4>2. [flush EXCEPT ![p].batch = course.pending, ![p].copied = 0]
                = [flush EXCEPT ![p] = call]
        BY DEF Inductive
      <4> QED BY <4>1, <4>2, <2>2, <1>5 DEF FlushRead, Goto
    <3>2. course.pending \in Seq(Requests \X Nat)
      BY <1>1, <2>2 DEF StoredSound, SoundCourse, IsCourse
    <3>3. call \in Calls /\ call.back = flush[p].back
      BY <1>1, <3>2 DEF Calls
    <3> HIDE DEF call
    <3> QED BY <1>1, <1>2, <3>1, <3>3, StepAside DEF Places
  <2> QED BY <2>1, <2>2
<1>6. CASE Copy(p)
  <2> DEFINE call == [flush[p] EXCEPT !.copied = @ + 1]
  <2>1. flush' = [flush EXCEPT ![p] = call]
    BY <1>6 DEF Copy, Copied
  <2>2. PICK place \in {"clear", "copy"} : pc' = [pc EXCEPT ![p] = place]
    BY <1>6 DEF Copy, Copied, Goto
  <2>3. call \in Calls /\ call.back = flush[p].back
    BY <1>1 DEF Calls
  <2> HIDE DEF call
  <2> QED BY <1>1, <1>2, <2>1, <2>2, <2>3, StepAside DEF Places
<1>7. CASE Clear(p)
  <2>1. CASE Return(p, TRUE) \/ Return(p, FALSE)
    BY <2>1, <1>4
  <2>2. CASE ~(Return(p, TRUE) \/ Return(p, FALSE))
    <3> DEFINE call == [NoFlush EXCEPT !.round = flush[p].round + 1, !.back = flush[p].back]
    <3>1. pc' = [pc EXCEPT ![p] = "flush"] /\ flush' = [flush EXCEPT ![p] = call]
      BY <1>7, <2>2 DEF Clear, Goto
    <3>2. call \in Calls /\ call.back = flush[p].back
      <4>1. flush[p].round + 1 \in Nat /\ flush[p].back \in Returns
        BY <1>1 DEF Calls
      <4> QED BY <4>1, CallReturn
    <3> HIDE DEF call
    <3> QED BY <1>1, <1>2, <3>1, <3>2, StepAside DEF Places
  <2> QED BY <2>1, <2>2
<1>8. CASE FlushFails(p)
  BY <1>4, <1>8 DEF FlushFails
<1> QED BY <1>5, <1>6, <1>7, <1>8 DEF Flush

\* What a save stores is sound, and no longer than the save's own copy of it.
LEMMA SaveKeepsSound ==
    ASSUME Inductive, NEW r \in Requests, pc[r] = "save",
           Matches(course, seen[r], Update(r, seen[r])),
           course' = Written(course, seen[r], Update(r, seen[r]))
    PROVE  StoredSound'
<1> DEFINE b == seen[r]
           after == Update(r, b)
<1>1. /\ MaySave(r, b) /\ IsCourse(b) /\ EditOf(r) /\ Allowed(b, edit[r])
      /\ Len(after.pending) <= MaxPending
  BY DEF Inductive, MaySave, EditOf
<1>2. course # NoCourse /\ SoundCourse(course) /\ IsCourse(course)
  BY DEF Matches, Inductive, StoredSound, SoundCourse
<1>3. /\ Allowed(course, edit[r])
      /\ course' = course \/ course' = Update(r, course)
  BY <1>1, <1>2, SaveIsAtomic
<1>4. SoundCourse(course')
  BY <1>1, <1>2, <1>3, UpdateKeepsSound
<1>5. Len(course'.pending) <= MaxPending
  <2>1. "pending" \in DOMAIN course /\ Len(course.pending) <= MaxPending
    BY <1>2 DEF IsCourse, Fields, Inductive, StoredSound
  <2>2. course'.pending = after.pending \/ course'.pending = course.pending
    BY <2>1 DEF Written
  <2> HIDE DEF after
  <2> QED BY <1>1, <2>1, <2>2
<1>6. SoundCourse(course)' <=> SoundCourse(course')
  BY DEF SoundCourse, IsCourse, Sound, SeatsHeld, MembersEnrolled, LimitsCapped, OnRoster
<1> QED BY <1>4, <1>5, <1>6 DEF StoredSound

LEMMA RequestInductive ==
    ASSUME Inductive, NEW r \in Requests, Request(r)
    PROVE  Inductive'
<1>1. r \in Processes /\ UNCHANGED edit
  BY DEF Processes, Request, Read, ReadAgain, Decide, Save, Revoke, Record, ReadToDelete,
     Recheck, Drop, DropKeys, Crash
<1>2. ASSUME NEW place \in Places \ {"save", "reread"}, Goto(r, place), UNCHANGED flush,
             StoredSound', UNCHANGED seen \/ Forget(r)
      PROVE  Inductive'
  BY <1>1, <1>2, StepAside DEF Goto
<1>3. ASSUME NEW back \in Returns, back = "reread" => MayReread(r), CallFlush(r, back),
             StoredSound', UNCHANGED seen \/ Forget(r)
      PROVE  Inductive'
  <2> DEFINE call == [NoFlush EXCEPT !.round = 1, !.back = back]
  <2>1. call \in Calls /\ call.back = back
    BY CallReturn
  <2>2. pc' = [pc EXCEPT ![r] = "flush"] /\ flush' = [flush EXCEPT ![r] = call]
    BY <1>3 DEF CallFlush, Goto
  <2> HIDE DEF call
  <2> QED BY <1>1, <1>3, <2>1, <2>2, StepAside DEF Places
<1>4. UNCHANGED course => StoredSound'
  BY StaysSound DEF Inductive
<1>5. CASE Read(r)
  <2>1. edit[r] # Deletion /\ UNCHANGED course
    BY <1>5 DEF Read
  <2>2. CASE CallFlush(r, "reread") /\ UNCHANGED seen
    BY <1>1, <1>3, <1>4, <2>1, <2>2 DEF Returns, MayReread
  <2>3. CASE Decide(r) /\ UNCHANGED flush
    BY <1>1, <2>1, <2>3, DecideInductive
  <2> QED BY <1>5, <2>2, <2>3 DEF Read
<1>6. CASE ReadAgain(r)
  <2>1. edit[r] # Deletion /\ UNCHANGED <<course, flush>> /\ Decide(r)
    BY <1>1, <1>6 DEF ReadAgain, Inductive, MayReread
  <2> QED BY <1>1, <2>1, DecideInductive
<1>7. CASE Save(r)
  <2>1. Forget(r) /\ pc[r] = "save"
    BY <1>7 DEF Save
  <2>2. CASE Matches(course, seen[r], Update(r, seen[r]))
    <3>1. course' = Written(course, seen[r], Update(r, seen[r]))
      BY <1>7, <2>2 DEF Save
    <3>2. StoredSound'
      BY <2>1, <2>2, <3>1, SaveKeepsSound
    <3>3. CASE CallFlush(r, "done")
      BY <1>3, <2>1, <3>2, <3>3 DEF Returns
    <3>4. CASE Goto(r, AfterSave(r)) /\ UNCHANGED flush
      <4>1. edit[r].kind \in {"unenrol", "deleteGroup", "leaveGroup", "reconcile"}
               \/ edit[r].kind \notin {"unenrol", "deleteGroup", "leaveGroup", "reconcile"}
        OBVIOUS
      <4>2. AfterSave(r) \in {"revoke", "record", "done"}
        BY <4>1 DEF AfterSave
      <4> HIDE DEF AfterSave
      <4>3. AfterSave(r) \in Places \ {"save", "reread"}
        BY <4>2 DEF Places
      <4> QED BY <1>2, <2>1, <3>2, <3>4, <4>3
    <3> QED BY <1>7, <2>2, <3>3, <3>4 DEF Save
  <2>3. CASE ~Matches(course, seen[r], Update(r, seen[r]))
    <3>1. UNCHANGED <<course, flush>> /\ (Goto(r, "idle") \/ Goto(r, "done"))
      BY <1>7, <2>3 DEF Save
    <3>2. {"idle", "done"} \subseteq Places \ {"save", "reread"}
      BY DEF Places
    <3> QED BY <1>2, <1>4, <2>1, <3>1, <3>2
  <2> QED BY <2>2, <2>3
<1>8. CASE Revoke(r) \/ ReadToDelete(r)
  <2>1. UNCHANGED <<course, seen>>
    BY <1>8 DEF Revoke, ReadToDelete
  <2>2. \/ CallFlush(r, "done") \/ CallFlush(r, "recheck")
        \/ Goto(r, "record") /\ UNCHANGED flush
        \/ Goto(r, "done") /\ UNCHANGED flush
    BY <1>8 DEF Revoke, ReadToDelete
  <2>3. {"record", "done"} \subseteq Places \ {"save", "reread"}
    BY DEF Places
  <2> QED BY <1>2, <1>3, <1>4, <2>1, <2>2, <2>3 DEF Returns
<1>9. CASE Record(r) \/ Recheck(r) \/ DropKeys(r)
  <2>1. UNCHANGED <<course, seen, flush>>
    BY <1>9 DEF Record, Recheck, DropKeys
  <2>2. Goto(r, "done") \/ Goto(r, "drop") \/ Goto(r, "record")
    BY <1>9 DEF Record, Recheck, DropKeys
  <2>3. {"done", "drop", "record"} \subseteq Places \ {"save", "reread"}
    BY DEF Places
  <2> QED BY <1>2, <1>4, <2>1, <2>2, <2>3
<1>10. CASE Drop(r)
  <2>1. UNCHANGED <<seen, flush>> /\ (course' = NoCourse \/ UNCHANGED course)
    BY <1>10 DEF Drop
  <2>2. Goto(r, "done") \/ Goto(r, "dropKeys")
    BY <1>10 DEF Drop
  <2>3. {"done", "dropKeys"} \subseteq Places \ {"save", "reread"}
    BY DEF Places
  <2>4. StoredSound'
    BY <2>1, StaysSound DEF Inductive
  <2> QED BY <1>2, <2>1, <2>2, <2>3, <2>4
<1>11. CASE Crash(r)
  <2>1. /\ Forget(r) /\ UNCHANGED course /\ pc' = [pc EXCEPT ![r] = "done"]
        /\ flush' = [flush EXCEPT ![r] = NoFlush]
    BY <1>11 DEF Crash, Goto
  <2>2. NoFlush \in Calls /\ NoFlush.back = "done"
    BY DEF NoFlush, Calls, Returns
  <2>3. "done" \in Places \ {"save"}
    BY DEF Places
  <2> HIDE DEF NoFlush
  <2> QED BY <1>1, <1>4, <2>1, <2>2, <2>3, StepAside
<1> QED BY <1>5, <1>6, <1>7, <1>8, <1>9, <1>10, <1>11 DEF Request

LEMMA AuditInductive ==
    ASSUME Inductive, NEW a \in Auditors, Audit(a)
    PROVE  Inductive'
<1> DEFINE call == [NoFlush EXCEPT !.round = 1, !.back = "done"]
<1>1. a \in Processes /\ UNCHANGED <<course, edit, seen>>
  BY DEF Processes, Audit
<1>2. pc' = [pc EXCEPT ![a] = "flush"] /\ flush' = [flush EXCEPT ![a] = call]
  BY DEF Audit, CallFlush, Goto
<1>3. call \in Calls /\ call.back = "done"
  BY CallReturn DEF Returns
<1>4. StoredSound'
  BY <1>1, StaysSound DEF Inductive
<1> HIDE DEF call
<1> QED BY <1>1, <1>2, <1>3, <1>4, StepAside DEF Places

LEMMA NextInductive == Inductive /\ [Next]_vars => Inductive'
<1> SUFFICES ASSUME Inductive, [Next]_vars PROVE Inductive'
  OBVIOUS
<1>1. CASE UNCHANGED vars
  <2>1. UNCHANGED <<edit, pc, seen, flush>> /\ StoredSound'
    BY <1>1, StaysSound DEF vars, Inductive
  <2>2. \A r \in Requests : pc[r] = "save" => MaySave(r, seen[r])'
    BY <2>1 DEF Inductive, MaySave, Update, NewEvents
  <2> QED BY <2>1, <2>2 DEF Inductive, MayReread
<1> QED BY <1>1, RequestInductive, AuditInductive, FlushInductive DEF Next

LEMMA InductiveHolds == Spec => []Inductive
BY InitInductive, NextInductive, PTL DEF Spec

-----------------------------------------------------------------------------
(***************************************************************************)
(* Theorems                                                                *)
(***************************************************************************)
\* However the edits of a course interleave, its groups stay within their size, on
\* the roster and under the cap.
THEOREM GroupsStaySound == Spec => []GroupsSound
<1>1. Inductive => GroupsSound
  BY DEF Inductive, StoredSound, SoundCourse, GroupsSound
<1> QED BY <1>1, InductiveHolds, PTL

\* The outbox of a course never holds more than MaxPending events, although each
\* edit decides on a copy that others may have overtaken.
THEOREM OutboxStaysBounded == Spec => []OutboxBounded
<1>1. Inductive => OutboxBounded
  BY DEF Inductive, StoredSound, OutboxBounded
<1> QED BY <1>1, InductiveHolds, PTL

\* A stored edit is what it would have been if its route had run alone when it was
\* saved.
THEOREM SavesAreAtomic == Spec => EditsAreAtomic
<1> DEFINE Atomic ==
       \A r \in Requests : pc[r] = "save" /\ pc'[r] # pc[r] /\ course' # course =>
           Allowed(course, edit[r]) /\ course' = Update(r, course)
<1>1. ASSUME Inductive, [Next]_vars PROVE Atomic
  <2> SUFFICES ASSUME NEW r \in Requests, pc[r] = "save", pc'[r] # pc[r], course' # course
               PROVE  Allowed(course, edit[r]) /\ course' = Update(r, course)
    OBVIOUS
  <2>1. ASSUME NEW p, p # r, NEW place, pc' = [pc EXCEPT ![p] = place] PROVE FALSE
    BY <1>1, <2>1 DEF Inductive, Processes
  <2>2. Save(r)
    <3>1. Next
      BY <1>1 DEF vars
    <3>2. \A p \in Processes : ~Flush(p)
      <4> SUFFICES ASSUME NEW p \in Processes, Flush(p) PROVE FALSE
        OBVIOUS
      <4>1. p # r
        BY DEF Flush, FlushRead, Copy, Clear, FlushFails
      <4>2. \E place : pc' = [pc EXCEPT ![p] = place]
        BY DEF Flush, FlushRead, Copy, Copied, Clear, FlushFails, Return, Goto
      <4> QED BY <2>1, <4>1, <4>2
    <3>3. \A a \in Auditors : ~Audit(a)
      BY DEF Audit
    <3>4. PICK q \in Requests : Request(q)
      BY <3>1, <3>2, <3>3 DEF Next
    <3>5. Save(q) \/ Drop(q)
      BY <3>4 DEF Request, Read, ReadAgain, Revoke, Record, ReadToDelete, Recheck, DropKeys, Crash
    <3>6. \E place : pc' = [pc EXCEPT ![q] = place]
      BY <3>5 DEF Save, Drop, CallFlush, Goto
    <3>7. q = r
      BY <2>1, <3>6
    <3> QED BY <3>5, <3>7 DEF Drop
  <2>3. /\ Matches(course, seen[r], Update(r, seen[r]))
        /\ course' = Written(course, seen[r], Update(r, seen[r]))
    BY <2>2 DEF Save
  <2>4. IsCourse(seen[r]) /\ EditOf(r) /\ Allowed(seen[r], edit[r])
    BY <1>1 DEF Inductive, MaySave, EditOf
  <2>5. IsCourse(course)
    BY <1>1, <2>3 DEF Inductive, StoredSound, SoundCourse, Matches
  <2> QED BY <2>3, <2>4, <2>5, SaveIsAtomic
<1> QED BY <1>1, InductiveHolds, PTL DEF Spec, EditsAreAtomic

-----------------------------------------------------------------------------
(***************************************************************************)
(* The audit outbox: it keeps the promise of AuditLog, for any requests,   *)
(* readers, crashes and failures of a flush.                               *)
(***************************************************************************)
Ids == Requests \X Nat
Staging == Requests \X (Nat \ {0})

Pending == IF course = NoCourse THEN <<>> ELSE course.pending

\* The first k of the events s are in the log h, and no other.
CopiedUpTo(h, s, k) ==
    /\ k \in 0..Len(s)
    /\ \A i \in 1..Len(s) : Contains(h, s[i]) <=> i <= k

DueOf(h, s) ==
    LET copied == {i \in 1..Len(s) : Contains(h, s[i])}
    IN  SubSeq(s, Cardinality(copied) + 1, Len(s))

LEMMA NothingDue == \A h : DueOf(h, <<>>) = <<>>
<1> SUFFICES ASSUME NEW h PROVE DueOf(h, <<>>) = <<>>
  OBVIOUS
<1>1. {i \in 1..Len(<<>>) : Contains(h, <<>>[i])} = {} /\ Len(<<>>) = 0
  OBVIOUS
<1>2. Cardinality({}) = 0
  BY FS_EmptySet
<1>3. DueOf(h, <<>>) = SubSeq(<<>>, 1, 0)
  BY <1>1, <1>2 DEF DueOf
<1> QED BY <1>3

LEMMA UndeliveredIsDue ==
    /\ Undelivered = DueOf(history, Pending)
    /\ Undelivered' = DueOf(history', Pending')
<1>1. DueOf(history, <<>>) = <<>> /\ DueOf(history', <<>>) = <<>>
  BY NothingDue
<1> QED BY <1>1 DEF Undelivered, DueOf, Pending

LEMMA DueFrom ==
    ASSUME NEW h, NEW s \in Seq(Ids), NEW k, CopiedUpTo(h, s, k)
    PROVE  DueOf(h, s) = SubSeq(s, k + 1, Len(s))
<1> DEFINE copied == {i \in 1..Len(s) : Contains(h, s[i])}
<1>1. k \in Nat /\ Len(s) \in Nat /\ k <= Len(s)
  BY DEF CopiedUpTo
<1>2. copied = 1..k
  BY <1>1 DEF CopiedUpTo
<1>3. Cardinality(copied) = k
  <2>1. Cardinality(1..k) = IF 1 > k THEN 0 ELSE k - 1 + 1
    BY <1>1, FS_Interval
  <2>2. Cardinality(1..k) = k
    BY <1>1, <2>1
  <2> HIDE DEF copied
  <2> QED BY <1>2, <2>2
<1> QED BY <1>3 DEF DueOf

LEMMA LastEvents ==
    ASSUME NEW s \in Seq(Ids), NEW k \in 0..Len(s)
    PROVE  /\ Len(SubSeq(s, k + 1, Len(s))) = Len(s) - k
           /\ \A i \in 1..(Len(s) - k) : SubSeq(s, k + 1, Len(s))[i] = s[k + i]
OBVIOUS

LEMMA ContainsAppended ==
    ASSUME NEW h, \E S : h \in Seq(S), NEW e
    PROVE  /\ \E S : Append(h, e) \in Seq(S)
           /\ Len(Append(h, e)) = Len(h) + 1 /\ Append(h, e)[Len(h) + 1] = e
           /\ \A x : Contains(Append(h, e), x) <=> Contains(h, x) \/ x = e
<1>1. PICK S : h \in Seq(S)
  OBVIOUS
<1>2. h \in Seq(S \cup {e}) /\ Append(h, e) \in Seq(S \cup {e})
  BY <1>1
<1>3. Len(Append(h, e)) = Len(h) + 1 /\ Len(h) \in Nat
  BY <1>2
<1>4. \A i \in 1..(Len(h) + 1) : Append(h, e)[i] = IF i <= Len(h) THEN h[i] ELSE e
  BY <1>2
<1>5. Append(h, e)[Len(h) + 1] = e
  BY <1>3, <1>4
<1>6. \A x : Contains(Append(h, e), x) <=> Contains(h, x) \/ x = e
  BY <1>3, <1>4 DEF Contains
<1> QED BY <1>2, <1>3, <1>5, <1>6

-----------------------------------------------------------------------------
(***************************************************************************)
(* The invariant.                                                          *)
(***************************************************************************)
\* r may still store its edit.
Unsaved(r) ==
    \/ pc[r] \in {"idle", "reread", "save"}
    \/ pc[r] \in {"flush", "copy", "clear"} /\ flush[r].back = "reread"

\* What p has copied so far is in the log, and the rest of its batch is there too,
\* or still where the outbox begins.
BatchFits(p) ==
    /\ flush[p].copied \in 0..Len(flush[p].batch)
    /\ IF pc[p] = "clear" THEN flush[p].copied = Len(flush[p].batch)
                          ELSE flush[p].copied < Len(flush[p].batch)
    /\ \A i \in 1..flush[p].copied : Contains(history, flush[p].batch[i])
    /\ \/ \A i \in 1..Len(flush[p].batch) : Contains(history, flush[p].batch[i])
       \/ /\ Len(flush[p].batch) <= Len(Pending)
          /\ \A i \in 1..Len(flush[p].batch) : flush[p].batch[i] = Pending[i]

EventsTyped == (\E S : history \in Seq(S)) /\ Pending \in Seq(Staging)
EventsDistinct == \A i, j \in 1..Len(Pending) : Pending[i] = Pending[j] => i = j
EventsInOrder == \E k : CopiedUpTo(history, Pending, k)
EventsFresh ==
    \A r \in Requests : Unsaved(r) =>
        \A n \in Nat \ {0} : ~Contains(history, <<r, n>>) /\ ~Contains(Pending, <<r, n>>)
BatchesFit == \A p \in Processes : pc[p] \in {"copy", "clear"} => BatchFits(p)

OutboxInvariant ==
    /\ EventsTyped
    /\ EventsDistinct
    /\ EventsInOrder
    /\ EventsFresh
    /\ BatchesFit

LEMMA InitOutbox == Init => OutboxInvariant
<1> SUFFICES ASSUME Init PROVE OutboxInvariant
  OBVIOUS
<1>1. history = <<>> /\ Pending = <<>> /\ pc = [p \in Processes |-> "idle"]
  BY FirstOutboxAssumption DEF Init, Pending
<1>2. \A x : ~Contains(<<>>, x)
  BY DEF Contains
<1>3. CopiedUpTo(<<>>, <<>>, 0)
  BY DEF CopiedUpTo
<1> QED BY <1>1, <1>2, <1>3
        DEF OutboxInvariant, EventsTyped, EventsDistinct, EventsInOrder, EventsFresh, BatchesFit

-----------------------------------------------------------------------------
(***************************************************************************)
(* What a step may do to the log and to the outbox.                        *)
(***************************************************************************)
\* Nothing, or the course goes with an empty outbox.
Rests ==
    /\ UNCHANGED history /\ Pending' = Pending
    /\ \/ (course' = NoCourse) = (course = NoCourse)
       \/ course # NoCourse /\ course' = NoCourse /\ Pending = <<>>

\* An edit is stored with its events.
Stages(r) ==
    /\ r \in Requests /\ Unsaved(r) /\ ~Unsaved(r)'
    /\ course # NoCourse /\ course' # NoCourse
    /\ UNCHANGED history
    /\ \E n \in Nat : Pending' = Pending \o StagedEvents(r, n)

\* The outbox is cleared of what is in the log.
Clears ==
    /\ course # NoCourse /\ course' # NoCourse
    /\ UNCHANGED history
    /\ \A i \in 1..Len(Pending) : Contains(history, Pending[i])
    /\ Pending' = <<>>

\* The first event that is missing is copied.
Delivers ==
    /\ UNCHANGED course
    /\ \E j \in 1..Len(Pending) :
          /\ CopiedUpTo(history, Pending, j - 1)
          /\ history' = Append(history, Pending[j])

\* Something is recorded that is not staged.
Notes == UNCHANGED course /\ \E r : history' = Append(history, <<r, 0>>)

\* A step of p.
StepOf(p) ==
    /\ p \in Processes
    /\ \A q \in Processes \ {p} : pc'[q] = pc[q] /\ flush'[q] = flush[q]
    /\ p \in Requests => (Unsaved(p)' => Unsaved(p))
    /\ pc'[p] \in {"copy", "clear"} => BatchFits(p)'
    /\ Rests \/ Stages(p) \/ Clears \/ Delivers \/ Notes

LEMMA PendingStays == UNCHANGED course => Pending' = Pending
BY DEF Pending

LEMMA StagingIds == Staging \subseteq Ids /\ \A s \in Seq(Staging) : s \in Seq(Ids)
BY DEF Staging, Ids

\* The others stand where they stood.
LEMMA OthersStay ==
    ASSUME Inductive, NEW p \in Processes, NEW place, Goto(p, place),
           NEW call, flush' = [flush EXCEPT ![p] = call]
    PROVE  /\ \A q \in Processes \ {p} : pc'[q] = pc[q] /\ flush'[q] = flush[q]
           /\ pc'[p] = place /\ flush'[p] = call
BY DEF Inductive, Goto

LEMMA GoesTo ==
    ASSUME Inductive, NEW p \in Processes, NEW place, Goto(p, place)
    PROVE  pc'[p] = place /\ \A q \in Processes \ {p} : pc'[q] = pc[q]
BY DEF Inductive, Goto

\* Inserting the next event of a batch delivers it, if it is not there.
LEMMA InsertDelivers ==
    ASSUME OutboxInvariant, NEW p \in Processes, pc[p] = "copy", Insert(NextEvent(p)),
           flush[p] \in Calls, UNCHANGED course
    PROVE  /\ Rests \/ Delivers
           /\ NextEvent(p) \in Ids
           /\ (\E S : history' \in Seq(S))
           /\ \A x : Contains(history', x) <=> Contains(history, x) \/ x = NextEvent(p)
<1> DEFINE batch == flush[p].batch
           n == flush[p].copied
           e == NextEvent(p)
<1>1. BatchFits(p) /\ (\E S : history \in Seq(S)) /\ Pending \in Seq(Ids) /\ Pending' = Pending
  BY StagingIds, PendingStays DEF OutboxInvariant, BatchesFit, EventsTyped
<1>2. /\ batch \in Seq(Ids) /\ n \in Nat /\ n < Len(batch) /\ e = batch[n + 1]
      /\ \A i \in 1..n : Contains(history, batch[i])
      /\ \/ \A i \in 1..Len(batch) : Contains(history, batch[i])
         \/ /\ Len(batch) <= Len(Pending)
            /\ \A i \in 1..Len(batch) : batch[i] = Pending[i]
  BY <1>1 DEF BatchFits, NextEvent, Calls, Ids
<1> HIDE DEF batch, n, e
<1>3. e \in Ids
  BY <1>2
<1>4. CASE Contains(history, e)
  <2>1. UNCHANGED history
    BY <1>4 DEF Insert, e
  <2> QED BY <1>1, <1>3, <1>4, <2>1 DEF Rests, e
<1>5. CASE ~Contains(history, e)
  <2>1. history' = Append(history, e)
    BY <1>5 DEF Insert, e
  <2>2. PICK k \in 0..Len(Pending) : CopiedUpTo(history, Pending, k)
    BY DEF OutboxInvariant, EventsInOrder, CopiedUpTo
  <2>3. /\ Len(batch) <= Len(Pending) /\ \A i \in 1..Len(batch) : batch[i] = Pending[i]
        /\ Len(batch) \in Nat /\ Len(Pending) \in Nat
    BY <1>1, <1>2, <1>5
  <2>4. n + 1 \in 1..Len(Pending) /\ e = Pending[n + 1]
    BY <1>2, <2>3
  <2>5. ~(n + 1 <= k)
    BY <1>5, <2>2, <2>4 DEF CopiedUpTo
  <2>6. n = 0 \/ n <= k
    <3> SUFFICES ASSUME n # 0 PROVE n <= k
      OBVIOUS
    <3>1. n \in 1..n /\ n \in 1..Len(batch) /\ n \in 1..Len(Pending)
      BY <1>2, <2>3
    <3>2. Contains(history, Pending[n])
      BY <1>2, <2>3, <3>1
    <3> QED BY <2>2, <3>1, <3>2 DEF CopiedUpTo
  <2>7. k = n
    BY <1>2, <2>2, <2>5, <2>6
  <2>8. Delivers
    BY <1>2, <2>1, <2>2, <2>4, <2>7 DEF Delivers
  <2>9. (\E S : history' \in Seq(S))
    BY <1>1, <2>1, ContainsAppended
  <2> QED BY <1>1, <1>3, <2>1, <2>8, <2>9, ContainsAppended DEF e
<1> QED BY <1>4, <1>5

\* What a return of a flush leaves behind.
LEMMA ReturnStep ==
    ASSUME Inductive, NEW p \in Processes, pc[p] \in {"flush", "copy", "clear"},
           NEW delivered, Return(p, delivered), Rests \/ Clears \/ Delivers
    PROVE  StepOf(p)
<1> DEFINE place == IF flush[p].back = "recheck" /\ ~delivered THEN "done" ELSE flush[p].back
<1>1. Goto(p, place) /\ flush' = [flush EXCEPT ![p] = NoFlush]
  BY DEF Return
<1>2. place \in {"done", "recheck", "reread"} /\ (place = "reread" => flush[p].back = "reread")
  BY DEF Inductive, Calls, Returns
<1> HIDE DEF place
<1>3. /\ \A q \in Processes \ {p} : pc'[q] = pc[q] /\ flush'[q] = flush[q]
      /\ pc'[p] = place
  BY <1>1, OthersStay
<1>4. Unsaved(p)' => Unsaved(p)
  BY <1>2, <1>3 DEF Unsaved
<1> QED BY <1>2, <1>3, <1>4 DEF StepOf


LEMMA FlushStep ==
    ASSUME Inductive, OutboxInvariant, NEW p \in Processes, Flush(p)
    PROVE  StepOf(p)
<1>1. flush[p] \in Calls /\ pc[p] \in {"flush", "copy", "clear"}
  BY DEF Inductive, Flush, FlushRead, Copy, Clear, FlushFails
<1>2. UNCHANGED <<course, history>> => Rests
  BY PendingStays DEF Rests
<1>3. CASE FlushRead(p)
  <2>1. UNCHANGED <<course, history>>
    BY <1>3 DEF FlushRead
  <2>2. CASE course = NoCourse \/ course.pending = <<>>
    BY <1>1, <1>2, <1>3, <2>1, <2>2, ReturnStep DEF FlushRead
  <2>3. CASE ~(course = NoCourse \/ course.pending = <<>>)
    <3> DEFINE call == [flush[p] EXCEPT !.batch = course.pending, !.copied = 0]
    <3>1. Goto(p, "copy") /\ flush' = [flush EXCEPT ![p] = call]
      <4>1. flush' = [flush EXCEPT ![p].batch = course.pending, ![p].copied = 0]
        BY <1>3, <2>3 DEF FlushRead
      <4>2. [flush EXCEPT ![p].batch = course.pending, ![p].copied = 0]
                = [flush EXCEPT ![p] = call]
        BY DEF Inductive
      <4> QED BY <4>1, <4>2, <1>3, <2>3 DEF FlushRead
    <3>2. call.batch = course.pending /\ call.copied = 0 /\ call.back = flush[p].back
      BY <1>1 DEF Calls
    <3> HIDE DEF call
    <3>3. /\ \A q \in Processes \ {p} : pc'[q] = pc[q] /\ flush'[q] = flush[q]
          /\ pc'[p] = "copy" /\ flush'[p] = call
      BY <3>1, OthersStay
    <3>4. Pending' = course.pending /\ Pending = course.pending
      BY <2>1, <2>3 DEF Pending
    <3>5. Len(call.batch) \in Nat /\ Len(call.batch) > 0
      <4>1. course.pending \in Seq(Staging)
        BY <3>4 DEF OutboxInvariant, EventsTyped
      <4> QED BY <2>3, <3>2, <4>1
    <3>6. BatchFits(p)'
      BY <3>2, <3>3, <3>4, <3>5 DEF BatchFits
    <3>7. Unsaved(p)' => Unsaved(p)
      BY <1>1, <3>2, <3>3 DEF Unsaved
    <3> QED BY <1>2, <2>1, <3>3, <3>6, <3>7 DEF StepOf
  <2> QED BY <2>2, <2>3
<1>4. CASE Copy(p)
  <2> DEFINE call == [flush[p] EXCEPT !.copied = @ + 1]
             place == IF call.copied = Len(flush[p].batch) THEN "clear" ELSE "copy"
  <2>1. pc[p] = "copy" /\ UNCHANGED course /\ Insert(NextEvent(p))
    BY <1>4 DEF Copy
  <2>2. flush' = [flush EXCEPT ![p] = call]
    BY <1>4 DEF Copy, Copied
  <2>3. flush'[p] = call
    BY <2>2 DEF Inductive
  <2>4. Goto(p, place)
    BY <1>4, <2>3 DEF Copy, Copied
  <2>5. /\ call.copied = flush[p].copied + 1 /\ call.batch = flush[p].batch
        /\ call.back = flush[p].back
    BY <1>1 DEF Calls
  <2>6. place \in {"clear", "copy"} /\ (place = "clear" <=> call.copied = Len(flush[p].batch))
    OBVIOUS
  <2> HIDE DEF call, place
  <2>7. /\ \A q \in Processes \ {p} : pc'[q] = pc[q] /\ flush'[q] = flush[q]
        /\ pc'[p] = place
    BY <2>2, <2>4, OthersStay
  <2>8. /\ Rests \/ Delivers
        /\ \A x : Contains(history', x) <=> Contains(history, x) \/ x = NextEvent(p)
    BY <1>1, <2>1, InsertDelivers
  <2>9. BatchFits(p)'
    <3> DEFINE batch == flush[p].batch
               n == flush[p].copied
    <3>1. BatchFits(p) /\ Pending' = Pending
      BY <2>1, PendingStays DEF OutboxInvariant, BatchesFit
    <3>2. /\ n \in Nat /\ Len(batch) \in Nat /\ n < Len(batch)
          /\ \A i \in 1..n : Contains(history, batch[i])
          /\ \/ \A i \in 1..Len(batch) : Contains(history, batch[i])
             \/ /\ Len(batch) <= Len(Pending)
                /\ \A i \in 1..Len(batch) : batch[i] = Pending[i]
      <4>1. Len(batch) \in Nat /\ n \in Nat
        BY <1>1 DEF Calls
      <4>2. pc[p] # "clear"
        BY <2>1
      <4>3. n < Len(batch) /\ \A i \in 1..n : Contains(history, batch[i])
        BY <3>1, <4>2 DEF BatchFits
      <4> QED BY <3>1, <4>1, <4>3 DEF BatchFits
    <3>3. NextEvent(p) = batch[n + 1]
      BY DEF NextEvent
    <3>4. flush'[p].batch = batch /\ flush'[p].copied = n + 1
      BY <2>3, <2>5
    <3> HIDE DEF batch, n
    <3>5. \A i \in 1..(n + 1) : Contains(history', batch[i])
      <4> SUFFICES ASSUME NEW i \in 1..(n + 1) PROVE Contains(history', batch[i])
        OBVIOUS
      <4>1. i \in 1..n \/ i = n + 1
        BY <3>2
      <4> QED BY <2>8, <3>2, <3>3, <4>1
    <3>6. \/ \A i \in 1..Len(batch) : Contains(history', batch[i])
          \/ /\ Len(batch) <= Len(Pending)
             /\ \A i \in 1..Len(batch) : batch[i] = Pending[i]
      BY <2>8, <3>2
    <3>7. n + 1 \in 0..Len(batch)
      BY <3>2
    <3>8. IF pc'[p] = "clear" THEN n + 1 = Len(batch) ELSE n + 1 < Len(batch)
      BY <2>5, <2>6, <2>7, <3>2 DEF batch, n
    <3> QED BY <3>1, <3>4, <3>5, <3>6, <3>7, <3>8 DEF BatchFits
  <2>10. Unsaved(p)' => Unsaved(p)
    BY <2>1, <2>3, <2>5, <2>6, <2>7 DEF Unsaved
  <2> QED BY <2>7, <2>8, <2>9, <2>10 DEF StepOf
<1>5. ASSUME pc[p] = "clear", Unchanged(p), course' = [course EXCEPT !.pending = <<>>],
             UNCHANGED history
      PROVE  Clears
  <2>1. BatchFits(p)
    BY <1>5 DEF OutboxInvariant, BatchesFit
  <2>2. \A i \in 1..Len(flush[p].batch) : Contains(history, flush[p].batch[i])
    BY <1>5, <2>1 DEF BatchFits
  <2>3. course # NoCourse /\ Pending = flush[p].batch
    BY <1>5 DEF Unchanged, Pending
  <2>4. DOMAIN course = Fields
    BY <2>3 DEF Inductive, StoredSound, SoundCourse, IsCourse
  <2>5. DOMAIN course' = Fields /\ course'.pending = <<>>
    BY <1>5, <2>4 DEF Fields
  <2>6. course' # NoCourse
    BY <2>5 DEF Fields, NoCourse
  <2> QED BY <1>5, <2>2, <2>3, <2>5, <2>6 DEF Clears, Pending
<1>6. CASE Clear(p)
  <2>1. pc[p] = "clear" /\ UNCHANGED history
    BY <1>6 DEF Clear
  <2>2. CASE Unchanged(p)
    BY <1>1, <1>5, <1>6, <2>1, <2>2, ReturnStep DEF Clear
  <2>3. CASE ~Unchanged(p)
    <3>1. UNCHANGED course
      BY <1>6, <2>3 DEF Clear
    <3>2. CASE Return(p, FALSE)
      BY <1>1, <1>2, <2>1, <3>1, <3>2, ReturnStep
    <3>3. CASE ~Return(p, FALSE)
      <4> DEFINE call == [NoFlush EXCEPT !.round = flush[p].round + 1, !.back = flush[p].back]
      <4>1. Goto(p, "flush") /\ flush' = [flush EXCEPT ![p] = call]
        BY <1>6, <2>3, <3>3 DEF Clear
      <4>2. call.back = flush[p].back
        BY DEF NoFlush
      <4> HIDE DEF call
      <4>3. /\ \A q \in Processes \ {p} : pc'[q] = pc[q] /\ flush'[q] = flush[q]
            /\ pc'[p] = "flush" /\ flush'[p] = call
        BY <4>1, OthersStay
      <4>4. Unsaved(p)' => Unsaved(p)
        BY <1>1, <4>2, <4>3 DEF Unsaved
      <4> QED BY <1>2, <2>1, <3>1, <4>3, <4>4 DEF StepOf
    <3> QED BY <3>2, <3>3
  <2> QED BY <2>2, <2>3
<1>7. CASE FlushFails(p)
  <2>1. Return(p, FALSE)
    BY <1>7 DEF FlushFails
  <2>2. CASE UNCHANGED <<course, history>>
    BY <1>1, <1>2, <2>1, <2>2, ReturnStep
  <2>3. CASE pc[p] = "copy" /\ Insert(NextEvent(p)) /\ UNCHANGED course
    BY <1>1, <2>1, <2>3, InsertDelivers, ReturnStep
  <2>4. CASE /\ pc[p] = "clear" /\ Unchanged(p) /\ UNCHANGED history
             /\ course' = [course EXCEPT !.pending = <<>>]
    BY <1>1, <1>5, <2>1, <2>4, ReturnStep
  <2> QED BY <1>7, <2>2, <2>3, <2>4 DEF FlushFails
<1> QED BY <1>3, <1>4, <1>6, <1>7 DEF Flush

\* What the edit of r stores.
LEMMA SaveStages ==
    ASSUME Inductive, NEW r \in Requests, pc[r] = "save",
           Matches(course, seen[r], Update(r, seen[r])),
           course' = Written(course, seen[r], Update(r, seen[r])),
           UNCHANGED history, ~Unsaved(r)'
    PROVE  Rests \/ Stages(r)
<1>1. IsCourse(seen[r]) /\ EditOf(r) /\ Allowed(seen[r], edit[r])
  BY DEF Inductive, MaySave, EditOf
<1>2. course # NoCourse /\ IsCourse(course)
  BY DEF Matches, Inductive, StoredSound, SoundCourse
<1>3. course' = course \/ course' = Update(r, course)
  BY <1>1, <1>2, SaveIsAtomic
<1>4. CASE course' = course
  BY <1>4, PendingStays DEF Rests
<1>5. CASE course' = Update(r, course)
  <2> DEFINE n == EventCount(course, edit[r])
  <2>1. n \in Nat
    BY <1>1, <1>2, EventCountNatural DEF EditOf
  <2>2. DOMAIN course' = Fields /\ course'.pending = course.pending \o StagedEvents(r, n)
    BY <1>1, <1>2, <1>5, UpdateFields DEF NewEvents
  <2>3. course' # NoCourse
    BY <2>2 DEF Fields, NoCourse
  <2> HIDE DEF n
  <2> QED BY <1>2, <2>1, <2>2, <2>3 DEF Stages, Pending, Unsaved
<1> QED BY <1>3, <1>4, <1>5

LEMMA RequestStep ==
    ASSUME Inductive, NEW r \in Requests, Request(r)
    PROVE  StepOf(r)
<1>1. r \in Processes /\ flush[r] \in Calls
  BY DEF Inductive, Processes
<1>2. UNCHANGED <<course, history>> => Rests
  BY PendingStays DEF Rests
<1>3. ASSUME NEW place \in Places \ {"copy", "clear"}, Goto(r, place), UNCHANGED flush,
             Unsaved(r)' => Unsaved(r),
             Rests \/ Stages(r) \/ Notes
      PROVE  StepOf(r)
  <2>1. pc'[r] = place /\ \A q \in Processes \ {r} : pc'[q] = pc[q]
    BY <1>1, <1>3, GoesTo
  <2> QED BY <1>1, <1>3, <2>1 DEF StepOf
<1>5. ASSUME NEW place \in {"revoke", "record", "recheck", "drop", "dropKeys", "done"},
             Goto(r, place), UNCHANGED flush
      PROVE  ~Unsaved(r)'
  <2>1. pc'[r] = place
    BY <1>1, <1>5, GoesTo
  <2> QED BY <1>5, <2>1 DEF Unsaved
<1>6. ASSUME NEW back \in {"done", "recheck"}, CallFlush(r, back)
      PROVE  ~Unsaved(r)'
  <2> DEFINE call == [NoFlush EXCEPT !.round = 1, !.back = back]
  <2>1. Goto(r, "flush") /\ flush' = [flush EXCEPT ![r] = call]
    BY <1>6 DEF CallFlush
  <2>2. call.back = back
    BY DEF NoFlush
  <2> HIDE DEF call
  <2>3. pc'[r] = "flush" /\ flush'[r] = call
    BY <1>1, <2>1, OthersStay
  <2> QED BY <1>6, <2>2, <2>3 DEF Unsaved
<1>7. ASSUME NEW back \in Returns, CallFlush(r, back), Unsaved(r)' => Unsaved(r),
             Rests \/ Stages(r)
      PROVE  StepOf(r)
  <2> DEFINE call == [NoFlush EXCEPT !.round = 1, !.back = back]
  <2>1. Goto(r, "flush") /\ flush' = [flush EXCEPT ![r] = call]
    BY <1>7 DEF CallFlush
  <2> HIDE DEF call
  <2>2. /\ \A q \in Processes \ {r} : pc'[q] = pc[q] /\ flush'[q] = flush[q]
        /\ pc'[r] = "flush"
    BY <1>1, <2>1, OthersStay
  <2> QED BY <1>1, <1>7, <2>2 DEF StepOf
<1>8. ASSUME Decide(r), UNCHANGED <<course, history, flush>>, Unsaved(r)
      PROVE  StepOf(r)
  <2>1. Goto(r, "save") \/ Goto(r, "done")
    BY <1>8 DEF Decide
  <2>2. {"save", "done"} \subseteq Places \ {"copy", "clear"}
    BY DEF Places
  <2> QED BY <1>2, <1>3, <1>8, <2>1, <2>2
<1>9. CASE Read(r)
  <2>1. Unsaved(r) /\ UNCHANGED <<course, history>>
    BY <1>9 DEF Read, Unsaved
  <2>2. CASE CallFlush(r, "reread")
    BY <1>2, <1>7, <2>1, <2>2 DEF Returns
  <2>3. CASE Decide(r) /\ UNCHANGED flush
    BY <1>8, <2>1, <2>3
  <2> QED BY <1>9, <2>2, <2>3 DEF Read
<1>10. CASE ReadAgain(r)
  <2>1. Unsaved(r) /\ UNCHANGED <<course, history, flush>> /\ Decide(r)
    BY <1>10 DEF ReadAgain, Unsaved
  <2> QED BY <1>8, <2>1
<1>11. CASE Save(r)
  <2>1. pc[r] = "save" /\ Unsaved(r) /\ UNCHANGED history
    BY <1>11 DEF Save, Unsaved
  <2>2. CASE Matches(course, seen[r], Update(r, seen[r]))
    <3>1. course' = Written(course, seen[r], Update(r, seen[r]))
      BY <1>11, <2>2 DEF Save
    <3>2. CASE CallFlush(r, "done")
      <4>1. ~Unsaved(r)'
        BY <1>6, <3>2
      <4>2. Rests \/ Stages(r)
        BY <2>1, <2>2, <3>1, <4>1, SaveStages
      <4> QED BY <1>7, <3>2, <4>1, <4>2 DEF Returns
    <3>3. CASE Goto(r, AfterSave(r)) /\ UNCHANGED flush
      <4>1. edit[r].kind \in {"unenrol", "deleteGroup", "leaveGroup", "reconcile"}
               \/ edit[r].kind \notin {"unenrol", "deleteGroup", "leaveGroup", "reconcile"}
        OBVIOUS
      <4>2. AfterSave(r) \in {"revoke", "record", "done"}
        BY <4>1 DEF AfterSave
      <4> HIDE DEF AfterSave
      <4>3. ~Unsaved(r)'
        BY <1>5, <3>3, <4>2
      <4>4. Rests \/ Stages(r)
        BY <2>1, <2>2, <3>1, <4>3, SaveStages
      <4>5. AfterSave(r) \in Places \ {"copy", "clear"}
        BY <4>2 DEF Places
      <4> QED BY <1>3, <3>3, <4>3, <4>4, <4>5
    <3> QED BY <1>11, <2>2, <3>2, <3>3 DEF Save
  <2>3. CASE ~Matches(course, seen[r], Update(r, seen[r]))
    <3>1. UNCHANGED <<course, flush>> /\ (Goto(r, "idle") \/ Goto(r, "done"))
      BY <1>11, <2>3 DEF Save
    <3>2. {"idle", "done"} \subseteq Places \ {"copy", "clear"}
      BY DEF Places
    <3> QED BY <1>2, <1>3, <2>1, <3>1, <3>2
  <2> QED BY <2>2, <2>3
<1>12. CASE Revoke(r) \/ ReadToDelete(r)
  <2>1. UNCHANGED <<course, history>>
    BY <1>12 DEF Revoke, ReadToDelete
  <2>2. CASE CallFlush(r, "done") \/ CallFlush(r, "recheck")
    BY <1>2, <1>6, <1>7, <2>1, <2>2 DEF Returns
  <2>3. CASE (Goto(r, "record") \/ Goto(r, "done")) /\ UNCHANGED flush
    <3>1. {"record", "done"} \subseteq Places \ {"copy", "clear"}
      BY DEF Places
    <3> QED BY <1>2, <1>3, <1>5, <2>1, <2>3, <3>1
  <2> QED BY <1>12, <2>2, <2>3 DEF Revoke, ReadToDelete
<1>13. CASE Record(r)
  <2>1. Goto(r, "done") /\ UNCHANGED flush /\ "done" \in Places \ {"copy", "clear"}
    BY <1>13 DEF Record, Places
  <2>2. Notes
    BY <1>13 DEF Record, Notes, LateEvent
  <2> QED BY <1>3, <1>5, <2>1, <2>2
<1>14. CASE Recheck(r) \/ DropKeys(r)
  <2>1. UNCHANGED <<course, history, flush>>
    BY <1>14 DEF Recheck, DropKeys
  <2>2. Goto(r, "done") \/ Goto(r, "drop") \/ Goto(r, "record")
    BY <1>14 DEF Recheck, DropKeys
  <2>3. {"done", "drop", "record"} \subseteq Places \ {"copy", "clear"}
    BY DEF Places
  <2> QED BY <1>2, <1>3, <1>5, <2>1, <2>2, <2>3
<1>15. CASE Drop(r)
  <2>1. UNCHANGED <<history, flush>> /\ (Goto(r, "done") \/ Goto(r, "dropKeys"))
    BY <1>15 DEF Drop
  <2>2. {"done", "dropKeys"} \subseteq Places \ {"copy", "clear"}
    BY DEF Places
  <2>3. Rests
    BY <1>2, <1>15 DEF Drop, Rests, Pending
  <2> QED BY <1>3, <1>5, <2>1, <2>2, <2>3
<1>16. CASE Crash(r)
  <2>1. /\ UNCHANGED <<course, history>> /\ Goto(r, "done")
        /\ flush' = [flush EXCEPT ![r] = NoFlush]
    BY <1>16 DEF Crash
  <2>2. /\ \A q \in Processes \ {r} : pc'[q] = pc[q] /\ flush'[q] = flush[q]
        /\ pc'[r] = "done"
    BY <1>1, <2>1, OthersStay
  <2>3. ~Unsaved(r)'
    BY <2>2 DEF Unsaved
  <2> QED BY <1>1, <1>2, <2>1, <2>2, <2>3 DEF StepOf
<1> QED BY <1>9, <1>10, <1>11, <1>12, <1>13, <1>14, <1>15, <1>16 DEF Request

LEMMA AuditStep ==
    ASSUME Inductive, NEW a \in Auditors, Audit(a)
    PROVE  StepOf(a)
<1> DEFINE call == [NoFlush EXCEPT !.round = 1, !.back = "done"]
<1>1. a \in Processes /\ a \notin Requests
  BY ProcessesAssumption DEF Processes
<1>2. /\ Goto(a, "flush") /\ flush' = [flush EXCEPT ![a] = call]
      /\ UNCHANGED <<course, history>>
  BY DEF Audit, CallFlush
<1> HIDE DEF call
<1>3. /\ \A q \in Processes \ {a} : pc'[q] = pc[q] /\ flush'[q] = flush[q]
      /\ pc'[a] = "flush"
  BY <1>1, <1>2, OthersStay
<1>4. Rests
  BY <1>2, PendingStays DEF Rests
<1> QED BY <1>1, <1>3, <1>4 DEF StepOf

LEMMA NextStep ==
    ASSUME Inductive, OutboxInvariant, Next
    PROVE  \E p \in Processes : StepOf(p)
<1>1. Requests \subseteq Processes /\ Auditors \subseteq Processes
  BY DEF Processes
<1> QED BY <1>1, FlushStep, RequestStep, AuditStep DEF Next

-----------------------------------------------------------------------------
(***************************************************************************)
(* What follows for the order of the events.                               *)
(***************************************************************************)
\* The events that an edit stages are new, and the outbox grows at its end.
LEMMA StagedLast ==
    ASSUME OutboxInvariant, NEW r \in Requests, Unsaved(r), NEW n \in Nat,
           Pending' = Pending \o StagedEvents(r, n), UNCHANGED history
    PROVE  /\ Pending' \in Seq(Staging) /\ Len(Pending') = Len(Pending) + n
           /\ \A i \in 1..Len(Pending) : Pending'[i] = Pending[i]
           /\ \A i \in 1..n : Pending'[Len(Pending) + i] = <<r, i>>
           /\ \A i \in Nat \ {0} : ~Contains(history, <<r, i>>)
           /\ \A i, j \in 1..Len(Pending') : Pending'[i] = Pending'[j] => i = j
           /\ \A k : CopiedUpTo(history, Pending, k) => CopiedUpTo(history', Pending', k)
<1> DEFINE m == Len(Pending)
           s == StagedEvents(r, n)
<1>1. /\ Pending \in Seq(Staging) /\ m \in Nat /\ EventsDistinct
      /\ \A i \in Nat \ {0} : ~Contains(history, <<r, i>>) /\ ~Contains(Pending, <<r, i>>)
  BY DEF OutboxInvariant, EventsTyped, EventsFresh
<1>2. s = [i \in 1..n |-> <<r, i>>]
  BY DEF StagedEvents
<1>3. s \in Seq(Staging) /\ Len(s) = n /\ \A i \in 1..n : s[i] = <<r, i>>
  BY <1>2 DEF Staging
<1> HIDE DEF s
<1>4. Pending' = Pending \o s
  BY DEF s
<1>5. /\ Pending' \in Seq(Staging) /\ Len(Pending') = m + n
      /\ \A i \in 1..m : Pending'[i] = Pending[i]
  BY <1>1, <1>3, <1>4
<1>6. ASSUME NEW i \in 1..n
      PROVE  Pending'[m + i] = <<r, i>> /\ i \in Nat \ {0}
  <2>1. (Pending \o s)[m + i] = s[i]
    <3>1. m + i \in 1..(m + n) /\ ~(m + i <= m) /\ (m + i) - m = i
      BY <1>1
    <3> QED BY <1>1, <1>3, <3>1
  <2> QED BY <1>3, <1>4, <2>1
<1>7. ASSUME NEW i \in 1..(m + n) PROVE i \in 1..m \/ \E k \in 1..n : i = m + k
  <2>1. i \in 1..m \/ (i - m \in 1..n /\ i = m + (i - m))
    BY <1>1
  <2> QED BY <2>1
<1>8. ASSUME NEW i \in 1..m PROVE Contains(Pending, Pending'[i])
  BY <1>5, <1>8 DEF Contains
<1>9. ASSUME NEW i \in 1..(m + n), NEW j \in 1..(m + n), Pending'[i] = Pending'[j]
      PROVE  i = j
  <2>1. CASE i \in 1..m /\ j \in 1..m
    BY <1>1, <1>5, <1>9, <2>1 DEF EventsDistinct
  <2>2. CASE i \notin 1..m /\ j \notin 1..m
    <3>1. PICK k \in 1..n : i = m + k
      BY <1>7, <2>2
    <3>2. PICK l \in 1..n : j = m + l
      BY <1>7, <2>2
    <3>3. <<r, k>> = <<r, l>>
      BY <1>6, <1>9, <3>1, <3>2
    <3> QED BY <3>1, <3>2, <3>3
  <2>3. ASSUME NEW k \in 1..m, NEW l \in 1..(m + n), l \notin 1..m, Pending'[k] = Pending'[l]
        PROVE  FALSE
    <3>1. PICK h \in 1..n : l = m + h
      BY <1>7, <2>3
    <3>2. Pending'[k] = <<r, h>> /\ h \in Nat \ {0}
      BY <1>6, <2>3, <3>1
    <3> QED BY <1>1, <1>8, <3>2
  <2> QED BY <1>9, <2>1, <2>2, <2>3
<1>10. ASSUME NEW k, CopiedUpTo(history, Pending, k) PROVE CopiedUpTo(history', Pending', k)
  <2>1. k \in 0..m /\ \A i \in 1..m : Contains(history, Pending[i]) <=> i <= k
    BY <1>10 DEF CopiedUpTo
  <2>2. ASSUME NEW i \in 1..(m + n) PROVE Contains(history, Pending'[i]) <=> i <= k
    <3>1. CASE i \in 1..m
      BY <1>5, <2>1, <3>1
    <3>2. CASE i \notin 1..m
      <4>1. PICK l \in 1..n : i = m + l
        BY <1>7, <3>2
      <4>2. ~(m + l <= k)
        BY <1>1, <2>1
      <4>3. Pending'[i] = <<r, l>> /\ l \in Nat \ {0}
        BY <1>6, <4>1
      <4> QED BY <1>1, <4>1, <4>2, <4>3
    <3> QED BY <3>1, <3>2
  <2>3. k \in 0..(m + n)
    BY <1>1, <2>1
  <2> QED BY <1>5, <2>2, <2>3 DEF CopiedUpTo
<1> QED BY <1>1, <1>5, <1>6, <1>9, <1>10

\* Delivering the first missing event moves on by one.
LEMMA DeliveredNext ==
    ASSUME OutboxInvariant, UNCHANGED course,
           NEW j \in 1..Len(Pending), CopiedUpTo(history, Pending, j - 1),
           history' = Append(history, Pending[j])
    PROVE  /\ (\E S : history' \in Seq(S))
           /\ \A x : Contains(history', x) <=> Contains(history, x) \/ x = Pending[j]
           /\ CopiedUpTo(history', Pending', j)
<1>1. /\ Pending \in Seq(Ids) /\ (\E S : history \in Seq(S)) /\ EventsDistinct /\ Pending' = Pending
      /\ Len(Pending) \in Nat
  BY StagingIds, PendingStays DEF OutboxInvariant, EventsTyped
<1>2. Pending[j] \in Ids
  BY <1>1
<1>3. /\ \E S : history' \in Seq(S)
      /\ \A x : Contains(history', x) <=> Contains(history, x) \/ x = Pending[j]
  BY <1>1, <1>2, ContainsAppended
<1>4. ASSUME NEW i \in 1..Len(Pending) PROVE Contains(history', Pending[i]) <=> i <= j
  <2>1. Contains(history, Pending[i]) <=> i <= j - 1
    BY DEF CopiedUpTo
  <2>2. Pending[i] = Pending[j] <=> i = j
    BY <1>1 DEF EventsDistinct
  <2> QED BY <1>1, <1>3, <2>1, <2>2
<1>5. j \in 0..Len(Pending)
  BY <1>1
<1> QED BY <1>1, <1>2, <1>3, <1>4, <1>5 DEF CopiedUpTo

\* Another event in the log changes nothing about those that are pending.
LEMMA NotedAside ==
    ASSUME OutboxInvariant, UNCHANGED course,
           NEW r, history' = Append(history, <<r, 0>>)
    PROVE  /\ (\E S : history' \in Seq(S))
           /\ \A x : Contains(history', x) <=> Contains(history, x) \/ x = <<r, 0>>
           /\ \A k : CopiedUpTo(history, Pending, k) => CopiedUpTo(history', Pending', k)
<1>1. /\ Pending \in Seq(Staging) /\ (\E S : history \in Seq(S)) /\ Pending' = Pending
  BY PendingStays DEF OutboxInvariant, EventsTyped
<1>2. \A x : Contains(history', x) <=> Contains(history, x) \/ x = <<r, 0>>
  BY <1>1, ContainsAppended
<1>3. \A i \in 1..Len(Pending) : Pending[i] # <<r, 0>>
  BY <1>1 DEF Staging
<1>4. \A i \in 1..Len(Pending) : Contains(history', Pending[i]) <=> Contains(history, Pending[i])
  BY <1>2, <1>3
<1>5. (\E S : history' \in Seq(S))
  BY <1>1, ContainsAppended
<1>6. ASSUME NEW k, CopiedUpTo(history, Pending, k) PROVE CopiedUpTo(history', Pending', k)
  BY <1>1, <1>4, <1>6 DEF CopiedUpTo
<1> QED BY <1>2, <1>5, <1>6

-----------------------------------------------------------------------------
(***************************************************************************)
(* Every step keeps the invariant.                                         *)
(***************************************************************************)
LEMMA SameBatch ==
    ASSUME NEW q \in Processes, pc'[q] = pc[q], flush'[q] = flush[q], BatchFits(q),
           flush[q] \in Calls,
           \A x : Contains(history, x) => Contains(history', x),
           \/ /\ Len(Pending) \in Nat /\ Len(Pending') \in Nat /\ Len(Pending) <= Len(Pending')
              /\ \A i \in 1..Len(Pending) : Pending'[i] = Pending[i]
           \/ \A i \in 1..Len(Pending) : Contains(history', Pending[i])
    PROVE  BatchFits(q)'
<1> DEFINE batch == flush[q].batch
           n == flush[q].copied
<1>1. Len(batch) \in Nat /\ flush'[q].batch = batch /\ flush'[q].copied = n
  BY DEF Calls
<1>2. /\ n \in 0..Len(batch)
      /\ IF pc'[q] = "clear" THEN n = Len(batch) ELSE n < Len(batch)
      /\ \A i \in 1..n : Contains(history', batch[i])
      /\ \/ \A i \in 1..Len(batch) : Contains(history, batch[i])
         \/ /\ Len(batch) <= Len(Pending)
            /\ \A i \in 1..Len(batch) : batch[i] = Pending[i]
  BY DEF BatchFits
<1> HIDE DEF batch, n
<1>3. \/ \A i \in 1..Len(batch) : Contains(history', batch[i])
      \/ /\ Len(batch) <= Len(Pending')
         /\ \A i \in 1..Len(batch) : batch[i] = Pending'[i]
  <2>1. CASE \A i \in 1..Len(batch) : Contains(history, batch[i])
    BY <2>1
  <2>2. CASE /\ Len(batch) <= Len(Pending)
             /\ \A i \in 1..Len(batch) : batch[i] = Pending[i]
    <3>1. Len(Pending) \in Nat => \A i \in 1..Len(batch) : i \in 1..Len(Pending)
      BY <1>1, <2>2
    <3>2. CASE /\ Len(Pending) \in Nat /\ Len(Pending') \in Nat
               /\ Len(Pending) <= Len(Pending')
               /\ \A i \in 1..Len(Pending) : Pending'[i] = Pending[i]
      <4>1. Len(batch) <= Len(Pending')
        BY <1>1, <2>2, <3>2
      <4> QED BY <2>2, <3>1, <3>2, <4>1
    <3>3. CASE \A i \in 1..Len(Pending) : Contains(history', Pending[i])
      <4>1. Len(Pending) \in Nat
        BY DEF Pending
      <4> QED BY <2>2, <3>1, <3>3, <4>1
    <3> QED BY <3>2, <3>3
  <2> QED BY <1>2, <2>1, <2>2
<1> QED BY <1>1, <1>2, <1>3 DEF BatchFits

\* What is left to show of a step, once it is clear what it does to the log and to
\* the outbox.
LEMMA KeepsOutbox ==
    ASSUME Inductive, OutboxInvariant, NEW p, StepOf(p),
           EventsTyped', EventsDistinct', EventsInOrder',
           \A x : Contains(history, x) => Contains(history', x),
           \/ /\ Len(Pending) <= Len(Pending')
              /\ \A i \in 1..Len(Pending) : Pending'[i] = Pending[i]
           \/ \A i \in 1..Len(Pending) : Contains(history', Pending[i]),
           \A r \in Requests, n \in Nat \ {0} :
              /\ Unsaved(r)' /\ Unsaved(r)
              /\ ~Contains(history, <<r, n>>) /\ ~Contains(Pending, <<r, n>>)
              => ~Contains(history', <<r, n>>) /\ ~Contains(Pending', <<r, n>>)
    PROVE  OutboxInvariant'
<1>1. \A q \in Processes \ {p} : pc'[q] = pc[q] /\ flush'[q] = flush[q]
  BY DEF StepOf
<1>2. Requests \subseteq Processes
  BY DEF Processes
<1>3. \A r \in Requests : Unsaved(r)' => Unsaved(r)
  <2> SUFFICES ASSUME NEW r \in Requests, Unsaved(r)' PROVE Unsaved(r)
    OBVIOUS
  <2>1. CASE r = p
    BY <2>1 DEF StepOf
  <2>2. CASE r # p
    BY <1>1, <1>2, <2>2 DEF Unsaved
  <2> QED BY <2>1, <2>2
<1>4. EventsFresh'
  BY <1>3 DEF EventsFresh, OutboxInvariant
<1>5. Len(Pending) \in Nat /\ Len(Pending') \in Nat
  <2>1. Pending \in Seq(Staging) /\ Pending' \in Seq(Staging)
    BY DEF OutboxInvariant, EventsTyped
  <2> QED BY <2>1
<1>6. BatchesFit'
  <2> SUFFICES ASSUME NEW q \in Processes, pc'[q] \in {"copy", "clear"} PROVE BatchFits(q)'
    BY DEF BatchesFit
  <2>1. CASE q = p
    BY <2>1 DEF StepOf
  <2>2. CASE q # p
    <3>1. pc'[q] = pc[q] /\ flush'[q] = flush[q] /\ flush[q] \in Calls
      BY <1>1, <2>2 DEF Inductive
    <3>2. BatchFits(q)
      BY <3>1 DEF OutboxInvariant, BatchesFit
    <3> QED BY <1>5, <3>1, <3>2, SameBatch
  <2> QED BY <2>1, <2>2
<1> QED BY <1>4, <1>6 DEF OutboxInvariant

LEMMA StepKeepsOutbox ==
    ASSUME Inductive, OutboxInvariant, NEW p, StepOf(p)
    PROVE  OutboxInvariant'
<1>1. /\ (\E S : history \in Seq(S)) /\ Pending \in Seq(Staging) /\ Len(Pending) \in Nat
      /\ EventsDistinct /\ EventsInOrder
  BY DEF OutboxInvariant, EventsTyped
<1>2. CASE Rests
  <2>1. history' = history /\ Pending' = Pending
    BY <1>2 DEF Rests
  <2>2. EventsTyped' /\ EventsDistinct' /\ EventsInOrder'
    BY <1>1, <2>1 DEF EventsTyped, EventsDistinct, EventsInOrder, CopiedUpTo
  <2> QED BY <1>1, <2>1, <2>2, KeepsOutbox
<1>3. CASE Stages(p)
  <2>1. p \in Requests /\ Unsaved(p) /\ ~Unsaved(p)' /\ UNCHANGED history
    BY <1>3 DEF Stages
  <2>2. PICK n \in Nat : Pending' = Pending \o StagedEvents(p, n)
    BY <1>3 DEF Stages
  <2>3. /\ Pending' \in Seq(Staging) /\ Len(Pending') = Len(Pending) + n
        /\ \A i \in 1..Len(Pending) : Pending'[i] = Pending[i]
        /\ \A i \in 1..n : Pending'[Len(Pending) + i] = <<p, i>>
        /\ \A i, j \in 1..Len(Pending') : Pending'[i] = Pending'[j] => i = j
        /\ \A k : CopiedUpTo(history, Pending, k) => CopiedUpTo(history', Pending', k)
    BY <2>1, <2>2, StagedLast
  <2>4. EventsTyped' /\ EventsDistinct' /\ EventsInOrder'
    BY <1>1, <2>1, <2>3 DEF EventsTyped, EventsDistinct, EventsInOrder
  <2>5. ASSUME NEW r \in Requests, NEW k \in Nat \ {0}, Unsaved(r)',
               Contains(Pending', <<r, k>>)
        PROVE  Contains(Pending, <<r, k>>)
    <3>1. PICK i \in 1..Len(Pending') : Pending'[i] = <<r, k>>
      BY <2>5 DEF Contains
    <3>2. CASE i \in 1..Len(Pending)
      BY <2>3, <3>1, <3>2 DEF Contains
    <3>3. CASE i \notin 1..Len(Pending)
      <4>1. PICK l \in 1..n : i = Len(Pending) + l
        <5>1. i - Len(Pending) \in 1..n /\ i = Len(Pending) + (i - Len(Pending))
          BY <1>1, <2>3, <3>3
        <5> QED BY <5>1
      <4>2. <<r, k>> = <<p, l>>
        BY <2>3, <3>1, <4>1
      <4>3. r = p
        BY <4>2
      <4> QED BY <2>1, <2>5, <4>3
    <3> QED BY <3>2, <3>3
  <2>6. Len(Pending) <= Len(Pending')
    BY <1>1, <2>3
  <2> QED BY <2>1, <2>3, <2>4, <2>5, <2>6, KeepsOutbox
<1>4. CASE Clears
  <2>1. /\ history' = history /\ Pending' = <<>>
        /\ \A i \in 1..Len(Pending) : Contains(history, Pending[i])
    BY <1>4 DEF Clears
  <2>2. CopiedUpTo(history', Pending', 0) /\ ~\E x : Contains(Pending', x)
    BY <2>1 DEF CopiedUpTo, Contains
  <2>3. EventsTyped' /\ EventsDistinct' /\ EventsInOrder'
    BY <1>1, <2>1, <2>2 DEF EventsTyped, EventsDistinct, EventsInOrder
  <2> QED BY <2>1, <2>2, <2>3, KeepsOutbox
<1>5. CASE Delivers
  <2>1. Pending' = Pending /\ UNCHANGED course
    BY <1>5, PendingStays DEF Delivers
  <2>2. PICK j \in 1..Len(Pending) : /\ CopiedUpTo(history, Pending, j - 1)
                                     /\ history' = Append(history, Pending[j])
    BY <1>5 DEF Delivers
  <2>3. /\ (\E S : history' \in Seq(S)) /\ CopiedUpTo(history', Pending', j)
        /\ \A x : Contains(history', x) <=> Contains(history, x) \/ x = Pending[j]
    BY <2>1, <2>2, DeliveredNext
  <2>4. EventsTyped' /\ EventsDistinct' /\ EventsInOrder'
    BY <1>1, <2>1, <2>3 DEF EventsTyped, EventsDistinct, EventsInOrder
  <2>5. Contains(Pending, Pending[j])
    BY DEF Contains
  <2> QED BY <1>1, <2>1, <2>3, <2>4, <2>5, KeepsOutbox
<1>6. CASE Notes
  <2>1. Pending' = Pending /\ UNCHANGED course
    BY <1>6, PendingStays DEF Notes
  <2>2. PICK r : history' = Append(history, <<r, 0>>)
    BY <1>6 DEF Notes
  <2>3. /\ (\E S : history' \in Seq(S))
        /\ \A x : Contains(history', x) <=> Contains(history, x) \/ x = <<r, 0>>
        /\ \A k : CopiedUpTo(history, Pending, k) => CopiedUpTo(history', Pending', k)
    BY <2>1, <2>2, NotedAside
  <2>4. EventsTyped' /\ EventsDistinct' /\ EventsInOrder'
    BY <1>1, <2>1, <2>3 DEF EventsTyped, EventsDistinct, EventsInOrder
  <2> QED BY <1>1, <2>1, <2>3, <2>4, KeepsOutbox
<1> QED BY <1>2, <1>3, <1>4, <1>5, <1>6 DEF StepOf

LEMMA OutboxUnchanged ==
    ASSUME OutboxInvariant, UNCHANGED vars
    PROVE  OutboxInvariant'
BY DEF OutboxInvariant, EventsTyped, EventsDistinct, EventsInOrder, EventsFresh, BatchesFit,
       BatchFits, Unsaved, Pending, CopiedUpTo, vars

LEMMA OutboxHolds == Spec => []OutboxInvariant
<1>1. Inductive /\ OutboxInvariant /\ [Next]_vars => OutboxInvariant'
  BY NextStep, StepKeepsOutbox, OutboxUnchanged
<1> QED BY <1>1, InitOutbox, InductiveHolds, PTL DEF Spec

-----------------------------------------------------------------------------
(***************************************************************************)
(* The refinement.                                                         *)
(***************************************************************************)
LEMMA NoteIsLogged ==
    ASSUME OutboxInvariant, Notes
    PROVE  [Log!Next]_Log!logVars
<1>1. (\E S : history \in Seq(S)) /\ Pending \in Seq(Ids) /\ Len(Pending) \in Nat
  BY StagingIds DEF OutboxInvariant, EventsTyped
<1>2. PICK k \in 0..Len(Pending) : CopiedUpTo(history, Pending, k)
  BY DEF OutboxInvariant, EventsInOrder, CopiedUpTo
<1>3. Pending' = Pending /\ UNCHANGED course
  BY PendingStays DEF Notes
<1>4. PICK r : history' = Append(history, <<r, 0>>)
  BY DEF Notes
<1>5. CopiedUpTo(history', Pending, k)
  BY <1>2, <1>3, <1>4, NotedAside
<1>6. Undelivered' = Undelivered
  BY <1>1, <1>2, <1>3, <1>5, DueFrom, UndeliveredIsDue
<1>7. Len(history') = Len(history) + 1 /\ history'[Len(history')] = <<r, 0>>
  BY <1>1, <1>4, ContainsAppended
<1> QED BY <1>3, <1>4, <1>6, <1>7 DEF Log!Next, Log!Note

LEMMA StepIsLogged ==
    ASSUME OutboxInvariant, NEW p, StepOf(p)
    PROVE  [Log!Next]_Log!logVars
<1> DEFINE m == Len(Pending)
<1>1. /\ (\E S : history \in Seq(S)) /\ Pending \in Seq(Staging) /\ Pending \in Seq(Ids) /\ m \in Nat
  BY StagingIds DEF OutboxInvariant, EventsTyped
<1>2. PICK k \in 0..m : CopiedUpTo(history, Pending, k)
  BY DEF OutboxInvariant, EventsInOrder, CopiedUpTo
<1>3. /\ Undelivered = SubSeq(Pending, k + 1, m) /\ Len(Undelivered) = m - k
      /\ \A i \in 1..(m - k) : Undelivered[i] = Pending[k + i]
  <2>1. Pending \in Seq(Ids)
    BY <1>1
  <2>2. Undelivered = SubSeq(Pending, k + 1, m)
    BY <1>2, <2>1, DueFrom, UndeliveredIsDue
  <2> QED BY <2>1, <2>2, LastEvents
<1>4. CASE Rests
  <2>1. history' = history /\ Undelivered' = Undelivered
    BY <1>4, UndeliveredIsDue DEF Rests
  <2>2. CASE (course' = NoCourse) = (course = NoCourse)
    BY <2>1, <2>2 DEF Log!logVars
  <2>3. CASE course # NoCourse /\ course' = NoCourse /\ Pending = <<>>
    <3>1. Undelivered = <<>>
      BY <1>1, <1>2, <1>3, <2>3
    <3> QED BY <2>1, <2>3, <3>1 DEF Log!Next, Log!Delete
  <2> QED BY <1>4, <2>2, <2>3 DEF Rests
<1>5. CASE Stages(p)
  <2>1. /\ p \in Requests /\ Unsaved(p) /\ UNCHANGED history
        /\ course # NoCourse /\ course' # NoCourse
    BY <1>5 DEF Stages
  <2>2. PICK n \in Nat : Pending' = Pending \o StagedEvents(p, n)
    BY <1>5 DEF Stages
  <2>3. /\ Pending' \in Seq(Staging) /\ Len(Pending') = m + n
        /\ \A i \in 1..m : Pending'[i] = Pending[i]
        /\ \A i, j \in 1..Len(Pending') : Pending'[i] = Pending'[j] => i = j
        /\ CopiedUpTo(history', Pending', k)
    BY <1>2, <2>1, <2>2, StagedLast
  <2>4. Pending' \in Seq(Ids)
    BY <2>3, StagingIds
  <2>5. /\ Len(Undelivered') = m + n - k
        /\ \A i \in 1..(m + n - k) : Undelivered'[i] = Pending'[k + i]
    <3>1. Undelivered' = SubSeq(Pending', k + 1, Len(Pending'))
      BY <2>3, <2>4, DueFrom, UndeliveredIsDue
    <3>2. k \in 0..Len(Pending')
      BY <1>1, <2>3
    <3> QED BY <2>3, <2>4, <3>1, <3>2, LastEvents
  <2>6. \A i \in 1..(m + n - k) : k + i \in 1..(m + n) /\ ~(k + i <= k)
    BY <1>1, <1>2
  <2>7. \A i \in 1..(m - k) : k + i \in 1..m /\ i \in 1..(m + n - k)
    BY <1>1, <1>2
  <2>8. \A i \in 1..Len(Undelivered) : Undelivered'[i] = Undelivered[i]
    BY <1>3, <2>3, <2>5, <2>7
  <2>9. CASE n = 0
    <3>1. Undelivered' = Undelivered
      <4>1. Pending' = Pending
        <5>1. StagedEvents(p, n) = <<>>
          BY <2>9 DEF StagedEvents
        <5> QED BY <1>1, <2>2, <5>1
      <4> QED BY <2>1, <4>1, UndeliveredIsDue
    <3> QED BY <2>1, <3>1 DEF Log!logVars
  <2>10. CASE n # 0
    <3>1. Len(Undelivered') > Len(Undelivered)
      BY <1>1, <1>2, <1>3, <2>5, <2>10
    <3>2. \A i \in 1..Len(Undelivered') :
             Undelivered'[i] \in Staging /\ ~Contains(history, Undelivered'[i])
      <4> SUFFICES ASSUME NEW i \in 1..(m + n - k)
                   PROVE  Pending'[k + i] \in Staging /\ ~Contains(history, Pending'[k + i])
        BY <2>5
      <4>1. k + i \in 1..Len(Pending') /\ ~(k + i <= k)
        BY <2>3, <2>6
      <4> QED BY <2>1, <2>3, <4>1 DEF CopiedUpTo
    <3>3. \A i, j \in 1..Len(Undelivered') : Undelivered'[i] = Undelivered'[j] => i = j
      <4> SUFFICES ASSUME NEW i \in 1..(m + n - k), NEW j \in 1..(m + n - k),
                          Pending'[k + i] = Pending'[k + j]
                   PROVE  i = j
        BY <2>5
      <4>1. k + i = k + j
        BY <2>3, <2>6
      <4> QED BY <1>2, <4>1
    <3> QED BY <2>1, <2>8, <3>1, <3>2, <3>3
            DEF Log!Next, Log!Commit, Log!Logged, Contains, Staging
  <2> QED BY <2>9, <2>10
<1>6. CASE Clears
  <2>1. /\ history' = history /\ Pending' = <<>> /\ course # NoCourse /\ course' # NoCourse
        /\ \A i \in 1..m : Contains(history, Pending[i])
    BY <1>6 DEF Clears
  <2>2. k = m
    <3> SUFFICES ASSUME k # m PROVE FALSE
      OBVIOUS
    <3>1. m \in 1..m /\ ~(m <= k)
      BY <1>1, <1>2
    <3> QED BY <1>2, <2>1, <3>1 DEF CopiedUpTo
  <2>3. Undelivered = <<>>
    BY <1>1, <1>3, <2>2
  <2>4. Undelivered' = <<>>
    BY <2>1, NothingDue, UndeliveredIsDue
  <2> QED BY <2>1, <2>3, <2>4 DEF Log!logVars
<1>7. CASE Delivers
  <2>1. Pending' = Pending /\ UNCHANGED course
    BY <1>7, PendingStays DEF Delivers
  <2>2. PICK j \in 1..m : /\ CopiedUpTo(history, Pending, j - 1)
                          /\ history' = Append(history, Pending[j])
    BY <1>7 DEF Delivers
  <2>3. CopiedUpTo(history', Pending, j)
    BY <2>1, <2>2, DeliveredNext
  <2>4. Undelivered = SubSeq(Pending, j, m)
    <3>1. DueOf(history, Pending) = SubSeq(Pending, j - 1 + 1, m)
      BY <1>1, <2>2, DueFrom
    <3> QED BY <3>1, UndeliveredIsDue
  <2>5. Undelivered' = SubSeq(Pending, j + 1, m)
    BY <1>1, <2>1, <2>3, DueFrom, UndeliveredIsDue
  <2>6. /\ Undelivered # <<>> /\ Head(Undelivered) = Pending[j]
        /\ Tail(Undelivered) = Undelivered'
    <3>1. j \in 1..Len(Pending) /\ m \in j..Len(Pending)
      BY <1>1
    <3>2. Head(Undelivered) = Pending[j] /\ Tail(Undelivered) = Undelivered'
      BY <1>1, <2>4, <2>5, <3>1, HeadTailOfSubSeq
    <3>3. Len(Undelivered) = m - j + 1
      BY <1>1, <2>4, <3>1
    <3>4. Len(Undelivered) # 0
      BY <1>1, <3>3
    <3> QED BY <3>2, <3>4
  <2> QED BY <2>1, <2>2, <2>6 DEF Log!Next, Log!Deliver
<1>8. CASE Notes
  BY <1>8, NoteIsLogged
<1> QED BY <1>4, <1>5, <1>6, <1>7, <1>8 DEF StepOf

\* However requests, readers and crashes interleave, and however often a flush
\* fails: flush_course_audit delivers every event of a stored edit once and in the
\* order of the edits, and delete_course leaves none behind.
THEOREM OutboxImplementsLog == Spec => ImplementsAuditLog
<1>1. Init => Log!Init
  <2> SUFFICES ASSUME Init PROVE Log!Init
    OBVIOUS
  <2>1. history = <<>> /\ Pending = <<>>
    BY FirstOutboxAssumption DEF Init, Pending
  <2>2. Undelivered = <<>>
    BY <2>1, NothingDue, UndeliveredIsDue
  <2> QED BY <2>1, <2>2 DEF Log!Init
<1>2. Inductive /\ OutboxInvariant /\ [Next]_vars => [Log!Next]_Log!logVars
  <2> SUFFICES ASSUME Inductive, OutboxInvariant, [Next]_vars PROVE [Log!Next]_Log!logVars
    OBVIOUS
  <2>1. CASE Next
    BY <2>1, NextStep, StepIsLogged
  <2>2. CASE UNCHANGED vars
    BY <2>2 DEF vars, Log!logVars, Undelivered
  <2> QED BY <2>1, <2>2
<1> QED BY <1>1, <1>2, InductiveHolds, OutboxHolds, PTL DEF Spec, ImplementsAuditLog, Log!Spec

=============================================================================
