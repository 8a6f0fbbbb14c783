------------------------------ MODULE CourseKeys ------------------------------
(***************************************************************************)
(* rocky-backend: the API keys of a course, and the requests that          *)
(* generate, switch, delete and revoke them while others edit the course   *)
(* (route_handlers/courses.py, course_actions.py).  A key is a document of *)
(* its own: one call of the store reads it, another replaces it as a       *)
(* whole, and nothing compares what it had become in between.              *)
(***************************************************************************)
EXTENDS CourseWrites

CONSTANTS
    KeyRequests,   \* requests for keys, each once; generated hashes bear their names
    KeyAsks,       \* what they may ask for
    Slots,         \* key slots of an owner
    Names,         \* key names; "key-1" unless the request says otherwise
    FirstKeys      \* the keys as they are found

ASSUME KeyRequestsAssumption == KeyRequests \cap Processes = {}
ASSUME SlotsAssumption == Slots \subseteq Nat \ {0}
ASSUME HashesAssumption == NoHash \notin KeyRequests

KeyFields == {"id", "hash", "owner", "slot", "name", "on", "deleted"}
IsKey(k) == k = [f \in KeyFields |-> k[f]]

\* Ids and hashes are drawn at random, never twice; the index on slots is unique.
ASSUME FirstKeysAssumption ==
    /\ \A k \in FirstKeys : /\ IsKey(k) /\ k.slot \in Slots
                            /\ k.id \notin KeyRequests /\ k.hash \notin KeyRequests
    /\ \A k, l \in FirstKeys :
          \/ k.id = l.id
          \/ k.hash = l.hash /\ k.hash # NoHash
          \/ k.owner = l.owner /\ k.slot = l.slot
          => k = l

VARIABLES
    keys,       \* the api_keys documents of the course
    ask,        \* what each key request asks for
    kpc,        \* where each key request stands
    copy,       \* the key document that it has read
    revoking,   \* what each removal has still to revoke: owners whose keys it
                \* has not read, documents that it has not replaced
    revoked,    \* history: the hashes that were revoked or deleted
    owed,       \* history: the hashes that each stored removal has to make dead
    given,      \* the generated keys that were handed to the requester
    agreed      \* history: the requests whose stored key the course has allowed

keyVars == <<keys, ask, kpc, copy, revoking, revoked, owed, given>>
allVars == <<vars, keyVars, agreed>>

NoKey == [hash |-> NoHash]
Nothing == [owners |-> {}, docs |-> {}]

\* The document that regenerate_course_api_key writes under _id.
NewKey(id, q) ==
    [id |-> id, hash |-> q, owner |-> ask[q].owner, slot |-> ask[q].slot,
     name |-> ask[q].name, on |-> TRUE, deleted |-> FALSE]

\* What is left of a revoked or deleted key.
Emptied(key) == [key EXCEPT !.hash = NoHash, !.on = FALSE, !.deleted = TRUE]

\* The unique index on owner and slot.
SlotTaken(ks, key) ==
    \E k \in ks : k.id # key.id /\ k.owner = key.owner /\ k.slot = key.slot

\* replace_one by _id: it has no effect when the document is gone, and raises when
\* another document has the slot that the new one is to have.
IsThere(ks, key) == \E k \in ks : k.id = key.id
Refused(ks, key) == IsThere(ks, key) /\ SlotTaken(ks, key)
Replaced(ks, key) == IF IsThere(ks, key) THEN {k \in ks : k.id # key.id} \cup {key} ELSE ks

KeysInit ==
    /\ Init
    /\ keys = FirstKeys
    /\ ask \in [KeyRequests -> KeyAsks]
    /\ kpc = [q \in KeyRequests |-> "idle"]
    /\ copy = [q \in KeyRequests |-> NoKey]
    /\ revoking = [r \in Requests |-> Nothing]
    /\ revoked = {}
    /\ owed = [r \in Requests |-> {}]
    /\ given = {}
    /\ agreed = {}

-----------------------------------------------------------------------------
(***************************************************************************)
(* Revocation, inside the requests of CourseWrites.                        *)
(***************************************************************************)
\* Mutant of RevokedOwners: the groups are looked up after the edit.
RevokedOwnersLate(r) ==
    CASE edit[r].kind = "unenrol" ->
            edit[r].who \cup {g \in DOMAIN course'.groups :
                                 edit[r].who \cap course'.groups[g].members # {}}
      [] edit[r].kind \in {"leaveGroup", "deleteGroup"} -> {edit[r].group}

\* The owners whose keys an edit revokes: the removed student and the groups
\* that the student was in, the group that lost a member, the deleted group.
RevokedOwners(r) ==
    CASE edit[r].kind = "unenrol" ->
            edit[r].who \cup {g \in DOMAIN seen[r].groups :
                                 edit[r].who \cap seen[r].groups[g].members # {}}
      [] edit[r].kind \in {"leaveGroup", "deleteGroup"} -> {edit[r].group}

\* The edits that take a student out of a group or off the roster, and revoke the
\* keys that he may have.
Removals == {"leaveGroup", "unenrol"}

\* The groups that have lost a member between two courses, and the students who
\* are no longer on the roster.
Losers(before, after) ==
    (DOMAIN before.roster \ DOMAIN after.roster) \cup
    {g \in DOMAIN before.groups : HasGroup(after, g) =>
        before.groups[g].members \ after.groups[g].members # {}}

SaveThenRevoke(r) ==
    /\ Save(r)
    /\ revoking' = [revoking EXCEPT ![r] =
          IF pc'[r] = "revoke" THEN [owners |-> RevokedOwners(r), docs |-> {}] ELSE @]
    /\ owed' = [owed EXCEPT ![r] =
          IF course' = course \/ edit[r].kind \notin Removals THEN @
          ELSE {k.hash : k \in {x \in keys : x.owner \in Losers(course, course')}}]
    /\ UNCHANGED <<keys, ask, kpc, copy, revoked, given>>

\* api_keys_collection.find for one owner.
RevokeFind(r) ==
    /\ pc[r] = "revoke" /\ revoking[r].docs = {}
    /\ \E owner \in revoking[r].owners :
          revoking' = [revoking EXCEPT ![r] =
             [owners |-> @.owners \ {owner},
              docs |-> {k \in keys : k.owner = owner /\ (k.hash # NoHash \/ ~k.deleted)}]]
    /\ UNCHANGED <<vars, keys, ask, kpc, copy, revoked, owed, given>>

\* replace_one for one of the documents it found.  When it raises, the removal dies.
RevokeReplace(r) ==
    /\ pc[r] = "revoke"
    /\ \E doc \in revoking[r].docs :
          /\ ~Refused(keys, Emptied(doc))
          /\ keys' = Replaced(keys, Emptied(doc))
          /\ revoking' = [revoking EXCEPT ![r].docs = @ \ {doc}]
          /\ revoked' = revoked \cup {doc.hash}
    /\ UNCHANGED <<vars, ask, kpc, copy, owed, given>>

\* The revocation is over; that of a deleted group may also have failed.
RevokeEnds(r) ==
    /\ Revoke(r)
    /\ revoking[r] = Nothing \/ edit[r].kind = "deleteGroup"
    /\ revoking' = [revoking EXCEPT ![r] = Nothing]
    /\ UNCHANGED <<keys, ask, kpc, copy, revoked, owed, given>>

\* delete_course_api_keys.
AllDeleted ==
    /\ keys' = {}
    /\ revoked' = revoked \cup {k.hash : k \in keys}

DropAllKeys(r) ==
    /\ DropKeys(r)
    /\ AllDeleted
    /\ UNCHANGED <<ask, kpc, copy, revoking, owed, given>>

CrashRevoking(r) ==
    /\ Crash(r)
    /\ revoking' = [revoking EXCEPT ![r] = Nothing]
    /\ owed' = [owed EXCEPT ![r] = {}]
    /\ UNCHANGED <<keys, ask, kpc, copy, revoked, given>>

\* The steps of a course request that touch no key.
OtherStep(r) ==
    /\ \/ Read(r) \/ ReadAgain(r) \/ Record(r)
       \/ ReadToDelete(r) \/ Recheck(r) \/ Drop(r) \/ Flush(r)
    /\ UNCHANGED keyVars

-----------------------------------------------------------------------------
(***************************************************************************)
(* Requests for keys.                                                      *)
(***************************************************************************)
KeyGoto(q, place) == kpc' = [kpc EXCEPT ![q] = place]

\* The document it has read is of no more use to the request.
Leave(q, place) == KeyGoto(q, place) /\ copy' = [copy EXCEPT ![q] = NoKey]

\* A deletion may leave the slot out; the other requests have 1 for it.
HasSlot(q) == "slot" \in DOMAIN ask[q]

\* The documents that a request may find: by slot or else by name; a deletion that
\* gives the slot looks for nothing else.
Found(q) ==
    LET mine == {k \in keys : k.owner = ask[q].owner}
        there == {k \in mine : HasSlot(q) /\ k.slot = ask[q].slot}
    IN IF there # {} \/ (ask[q].kind = "delete" /\ HasSlot(q)) THEN there
       ELSE {k \in mine : k.name = ask[q].name}

\* resolve_course_key_owner, and that a group is not paused.
OwnerMayHaveKeys(c, owner) ==
    \/ owner \in DOMAIN c.roster
    \/ owner \in DOMAIN c.groups /\ c.groups[owner].active

\* can_manage_people, and what remains to the others: an ask without "by" is an
\* administrator's, and anyone may generate and delete keys of his own.
MayAsk(c, a) ==
    \/ "by" \notin DOMAIN a
    \/ a.kind # "deleteAll" /\ a.by \in c.staff
    \/ a.kind \in {"generate", "delete"} /\ a.by = a.owner

\* The policy that a request checks on the course it has read.
KeyAllowed(q, c) ==
    /\ c # NoCourse /\ c.active /\ MayAsk(c, ask[q])
    /\ ask[q].kind = "generate" \/ (ask[q].kind = "status" /\ ask[q].on) =>
          /\ ask[q].owner \in Groups \/ ask[q].kind = "generate" => OwnerMayHaveKeys(c, ask[q].owner)
          /\ ask[q].slot <= OwnerLimit(c, ask[q].owner)

KeyRead(q) ==
    /\ kpc[q] = "idle"
    /\ KeyGoto(q, IF ~KeyAllowed(q, course) THEN "done"
                  ELSE IF ask[q].kind = "deleteAll" THEN "deleteAll" ELSE "find")
    /\ UNCHANGED <<vars, keys, ask, copy, revoking, revoked, owed, given>>

\* find_one: to switch or to delete a key there must be one.
KeyFind(q) ==
    /\ kpc[q] \in {"find", "refind"}
    /\ \/ /\ \E key \in Found(q) : copy' = [copy EXCEPT ![q] = key]
          /\ KeyGoto(q, "store")
       \/ /\ Found(q) = {}
          /\ KeyGoto(q, IF kpc[q] = "find" /\ ask[q].kind = "generate" THEN "store" ELSE "done")
          /\ UNCHANGED copy
    /\ UNCHANGED <<vars, keys, ask, revoking, revoked, owed, given>>

\* Mutant of StoreNewKey: the key that was found is made usable again.
StoreOldKey(q) ==
    /\ kpc[q] = "store" /\ ask[q].kind = "generate"
    /\ keys' = IF copy[q] = NoKey THEN keys \cup {NewKey(q, q)}
               ELSE Replaced(keys, [copy[q] EXCEPT !.on = TRUE, !.deleted = FALSE])
    /\ Leave(q, "record")
    /\ UNCHANGED <<vars, ask, revoking, revoked, owed, given>>

\* Mutant of StoreNewKey: the index does not refuse a second key for a slot.
StoreSecondKey(q) ==
    /\ kpc[q] = "store" /\ ask[q].kind = "generate"
    /\ keys' = IF copy[q] = NoKey THEN keys \cup {NewKey(q, q)}
               ELSE Replaced(keys, NewKey(copy[q].id, q))
    /\ Leave(q, "record")
    /\ UNCHANGED <<vars, ask, revoking, revoked, owed, given>>

\* regenerate_course_api_key inserts the key, or replaces the one it found.
\* When the unique index refuses an insert it looks for the key once more; when
\* it refuses a replacement the request fails.
StoreNewKey(q) ==
    /\ kpc[q] = "store" /\ ask[q].kind = "generate"
    /\ LET inserts == copy[q] = NoKey
           new == NewKey(IF inserts THEN q ELSE copy[q].id, q)
       IN IF IF inserts THEN SlotTaken(keys, new) ELSE Refused(keys, new)
          THEN Leave(q, IF inserts THEN "refind" ELSE "done") /\ UNCHANGED keys
          ELSE /\ keys' = IF inserts THEN keys \cup {new} ELSE Replaced(keys, new)
               /\ Leave(q, "record")
    /\ UNCHANGED <<vars, ask, revoking, revoked, owed, given>>

\* set_course_api_key_active_state puts back the document it read, switched.
SwitchKey(q) ==
    /\ kpc[q] = "store" /\ ask[q].kind = "status"
    /\ LET switched == [copy[q] EXCEPT !.on = ask[q].on]
       IN IF Refused(keys, switched)
          THEN Leave(q, "done") /\ UNCHANGED keys
          ELSE keys' = Replaced(keys, switched) /\ Leave(q, "record")
    /\ UNCHANGED <<vars, ask, revoking, revoked, owed, given>>

\* delete_course_api_key_route.
DeleteKey(q) ==
    /\ kpc[q] = "store" /\ ask[q].kind = "delete"
    /\ IF Refused(keys, Emptied(copy[q]))
       THEN Leave(q, "done") /\ UNCHANGED <<keys, revoked>>
       ELSE /\ keys' = Replaced(keys, Emptied(copy[q]))
            /\ revoked' = revoked \cup {copy[q].hash}
            /\ Leave(q, "record")
    /\ UNCHANGED <<vars, ask, revoking, owed, given>>

\* An administrator deletes all keys of the course.
DeleteAllKeys(q) ==
    /\ kpc[q] = "deleteAll"
    /\ AllDeleted
    /\ KeyGoto(q, "record")
    /\ UNCHANGED <<vars, ask, copy, revoking, owed, given>>

\* record_audit_event.  A new key is handed out then, a group's after one more look
\* at the course.
KeyRecord(q) ==
    /\ kpc[q] = "record"
    /\ history' = Append(history, LateEvent(q))
    /\ KeyGoto(q, IF ask[q].kind # "generate" THEN "done"
                  ELSE IF ask[q].owner \in Groups THEN "recheck" ELSE "deliver")
    /\ UNCHANGED <<course, edit, pc, seen, attempt, flush>>
    /\ UNCHANGED <<keys, ask, copy, revoking, revoked, owed, given>>

\* Mutant of KeyRecheck: what the request saw at its start is enough.
KeyRecheckSkipped(q) ==
    /\ kpc[q] = "recheck"
    /\ KeyGoto(q, "deliver")
    /\ UNCHANGED <<vars, keys, ask, copy, revoking, revoked, owed, given>>

\* The course is read again: the group and the requester must still have the right.
KeyRecheck(q) ==
    /\ kpc[q] = "recheck"
    /\ KeyGoto(q, IF KeyAllowed(q, course) THEN "deliver" ELSE "done")
    /\ UNCHANGED <<vars, keys, ask, copy, revoking, revoked, owed, given>>

\* The key is returned to the requester.
KeyDeliver(q) ==
    /\ kpc[q] = "deliver"
    /\ given' = given \cup {q}
    /\ KeyGoto(q, "done")
    /\ UNCHANGED <<vars, keys, ask, copy, revoking, revoked, owed>>

KeyCrash(q) ==
    /\ kpc[q] \notin {"idle", "done"}
    /\ Leave(q, "done")
    /\ UNCHANGED <<vars, keys, ask, revoking, revoked, owed, given>>

-----------------------------------------------------------------------------
SomeStep ==
    \/ \E r \in Requests :
          \/ SaveThenRevoke(r) \/ RevokeFind(r) \/ RevokeReplace(r) \/ RevokeEnds(r)
          \/ DropAllKeys(r) \/ CrashRevoking(r) \/ OtherStep(r)
    \/ \E a \in Auditors : (Audit(a) \/ Flush(a)) /\ UNCHANGED keyVars
    \/ \E q \in KeyRequests :
          \/ KeyRead(q) \/ KeyFind(q) \/ StoreNewKey(q) \/ SwitchKey(q) \/ DeleteKey(q)
          \/ DeleteAllKeys(q) \/ KeyRecord(q) \/ KeyRecheck(q) \/ KeyDeliver(q) \/ KeyCrash(q)

\* Between the store and the hand-out of a key.
Owned(q) == kpc[q] \in {"record", "recheck", "deliver"}

\* Whenever the course allows a key that is stored and not handed out yet, it is
\* remembered.
Agrees ==
    agreed' = agreed \cup {q \in KeyRequests : Owned(q)' /\ KeyAllowed(q, course')}

KeysNext == SomeStep /\ Agrees

KeysSpec == KeysInit /\ [][KeysNext]_allVars

-----------------------------------------------------------------------------
(***************************************************************************)
(* Properties                                                              *)
(***************************************************************************)
\* Whether whoever has the hash h gets in.
Opens(h) == \E k \in keys : k.hash = h /\ KeyIsActive(k, course)

\* No owner has two keys in one slot, though two requests may find it empty at the
\* same time and a key may be looked up by its name as well.
OneKeyPerSlot ==
    \A k, l \in keys : k.owner = l.owner /\ k.slot = l.slot => k = l

\* _revoke_course_owner_keys "irreversibly" revokes: a key that was revoked or
\* deleted never opens anything again, whatever requests were under way.
RevokedForever == \A h \in revoked : ~Opens(h)

\* course-roster-workflow.md on removing a student: the group's shared keys
\* are revoked, because the student may have copied them.  Once the request that took
\* a student out has answered, no key opens that he or his group had when he left:
\* be it regenerated, switched, deleted or handed out in the meantime, and whatever
\* other removals race with this one.  A removal that dies between its save and the
\* last of the keys has not answered, and promises nothing; nor does its repetition,
\* which takes nobody out any more.
RemovalRevokes ==
    \A r \in Requests :
        Contains(history, LateEvent(r)) /\ edit[r].kind \in Removals
        => \A h \in owed[r] : ~Opens(h)

\* regenerate_course_api_key_route: "never hand back a credential using only the
\* stale policy and permissions snapshot from before generation".  Whoever gets a
\* group's key was entitled to it at some moment after it had been stored: the group
\* was there, not paused and might have it, and the requester was still of the staff.
\* That may have changed again by the time he has it.
GivenOnFreshPolicy ==
    \A q \in given : ask[q].owner \in Groups => q \in agreed

=============================================================================
