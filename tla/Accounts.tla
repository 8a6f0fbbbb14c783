------------------------------- MODULE Accounts -------------------------------
(***************************************************************************)
(* rocky-backend: the accounts of people, the whitelist of those who are   *)
(* not of the university, and the API keys that follow an account          *)
(* (route_handlers/auth.py, users.py, settings.py).                        *)
(*                                                                         *)
(* Three collections hold what belongs together, no call writes two of     *)
(* them, and the routes write back what they read some calls ago.  Every   *)
(* request is a thread of its own; between two calls of the store another  *)
(* may run, or this one may die.                                           *)
(***************************************************************************)
EXTENDS Naturals, FiniteSets

CONSTANTS
    Members,      \* addresses of the university
    Guests,       \* other addresses: they need an entry of the whitelist
    Requests,     \* each once; what a request inserts bears its name
    Asks,         \* what the requests may ask for
    AtOnce,       \* bound: requests under way at the same time
    FirstUsers, FirstListed, FirstKeys   \* the documents as they are found

ASSUME EmailsAssumption == Members \cap Guests = {}

VARIABLES
    users,      \* the accounts: _id, id, email, is_active, role
    listed,     \* the whitelist: the same fields
    keys,       \* the keys of persons: _id, owner_id, key_scope, is_active, disabled_reason
    ask,        \* what each request asks for
    pc,         \* where each request stands
    account,    \* the account that it has read, or the entry that stands for one
    entry,      \* the whitelist entry that it has read
    doc,        \* the default key that it has read
    targets,    \* the accounts that it has still to change
    todo,       \* the key documents of its scan that it has still to look at
    crossed,    \* history: the addresses that two requests worked on at once, one of
                \* them a change by an administrator
    cut         \* history: the addresses of which a change by an administrator died
                \* on the way, or never concerned the other collection

accountVars == <<users, listed, keys, ask, pc, account, entry, doc, targets, todo,
                 crossed, cut>>

NoId == "no id"
NoRecord == [email |-> NoId]
NoKey == [scope |-> NoId]

Record(oid, id, email, active, role) ==
    [oid |-> oid, id |-> id, email |-> email, active |-> active, role |-> role]

\* _document_id_str: the owner of the keys.  An entry that stands for an account
\* has no _id.
OwnerId(u) == IF u.oid # NoId THEN u.oid ELSE u.id
StandIn(w) == [w EXCEPT !.oid = NoId]

\* The account that a request changes: the fields that it is given.
Changed(u, a) ==
    [u EXCEPT !.active = IF "active" \in a.fields THEN a.active ELSE @,
              !.role = IF "role" \in a.fields THEN a.role ELSE @]

Administrative ==
    {"update", "createUser", "addListed", "patchListed", "dropListed"}

RecordFields == {"oid", "id", "email", "active", "role"}
IsRecord(u) == u = [f \in RecordFields |-> u[f]]

KeyFields == {"id", "owner", "scope", "on", "reason"}
IsKey(k) == k = [f \in KeyFields |-> k[f]]

Addresses == Members \cup Guests

ASSUME RequestsAssumption == NoId \notin Requests /\ Addresses \cap (Requests \cup {NoId}) = {}

\* What the routes let through: the whitelist takes no address of the university.
ASSUME AsksAssumption ==
    \A a \in Asks :
        /\ a.kind \in {"login", "session", "settings"} \cup Administrative
        /\ a.whom \subseteq Addresses
        /\ a.kind # "update" => \E email \in a.whom : a.whom = {email}
        /\ a.kind \in {"addListed", "patchListed", "dropListed"} => a.whom \subseteq Guests
        /\ a.kind \in {"update", "patchListed"} /\ "active" \in a.fields => a.active \in BOOLEAN

\* Ids are drawn at random, and unique in a collection.  An account may have the id
\* of a whitelist entry that stood for it.
ASSUME FirstRecordsAssumption ==
    /\ IsFiniteSet(FirstUsers) /\ \A u, v \in FirstUsers : u.oid = v.oid => u = v
    /\ \A u \in FirstUsers \cup FirstListed :
          IsRecord(u) /\ {u.id, u.oid} \cap (Requests \cup {NoId} \cup Addresses) = {}
    /\ \A u, w \in FirstUsers \cup FirstListed :
          {u.id, u.oid} \cap {w.id, w.oid} # {} => u.email = w.email
    /\ \A u \in FirstUsers : u.email \in Addresses
    /\ \A w \in FirstListed : w.email \in Guests
    /\ \A k \in FirstKeys : IsKey(k) /\ {k.id, k.owner} \cap Requests = {}
    /\ \A k, l \in FirstKeys : k.id = l.id => k = l

Changes(r) == ask[r].kind \in Administrative
Concerned(r) == ask[r].whom \cup (IF Changes(r) THEN {ask[r].by} ELSE {})
UnderWay(r) == pc[r] \notin {"idle", "done"}

AccountsInit ==
    /\ users = FirstUsers
    /\ listed = FirstListed
    /\ keys = FirstKeys
    /\ ask \in [Requests -> Asks]
    /\ pc = [r \in Requests |-> "idle"]
    /\ account = [r \in Requests |-> NoRecord]
    /\ entry = [r \in Requests |-> NoRecord]
    /\ doc = [r \in Requests |-> NoKey]
    /\ targets = [r \in Requests |-> {}]
    /\ todo = [r \in Requests |-> {}]
    /\ crossed = {}
    /\ cut = {}

-----------------------------------------------------------------------------
(***************************************************************************)
(* Calls of the stores.                                                    *)
(***************************************************************************)
Goto(r, place) == pc' = [pc EXCEPT ![r] = place]
Reads(r, u) == account' = [account EXCEPT ![r] = u]

WithEmail(docs, email) == {u \in docs : u.email = email}
WithId(docs, id) == {u \in docs : u.id = id}

\* find_one: any document that matches, NoRecord if there is none.
FindOne(docs) == IF docs = {} THEN {NoRecord} ELSE docs

\* update_one of the first of some documents, by a request.
UpdateOne(docs, matching, a) ==
    IF matching = {} THEN {docs}
    ELSE {(docs \ {u}) \cup {Changed(u, a)} : u \in matching}

\* replace_one by _id.
ReplaceKey(key) ==
    keys' = IF \E k \in keys : k.id = key.id
            THEN {k \in keys : k.id # key.id} \cup {key} ELSE keys

Local == <<entry, doc, targets, todo>>
History == <<crossed, cut>>

-----------------------------------------------------------------------------
(***************************************************************************)
(* The start of a request.                                                 *)
(***************************************************************************)
\* The address of a request that is about one person.
Email(r) == CHOOSE email \in ask[r].whom : TRUE

\* get_requester: the proxy says who asks.
Requester(r) == IF Changes(r) THEN ask[r].by ELSE Email(r)

\* _resolve_user_record: the account, or the entry that stands for it.
Resolved(email) ==
    IF WithEmail(users, email) # {} THEN WithEmail(users, email)
    ELSE FindOne({StandIn(w) : w \in WithEmail(listed, email)})

\* reject_inactive_requester and require_admin.  Sign-in and session are open.
MayAsk(r, u) ==
    CASE ask[r].kind \in {"login", "session"} -> TRUE
      [] ask[r].kind = "settings" -> u # NoRecord => u.active
      [] Changes(r) -> u # NoRecord /\ u.active /\ u.role = "admin"

FirstPlace(r) ==
    CASE ask[r].kind = "login" -> IF ask[r].whom \subseteq Guests THEN "findListed" ELSE "find"
      [] ask[r].kind \in {"session", "settings"} -> "find"
      [] ask[r].kind = "update" -> "resolve"
      [] ask[r].kind = "createUser" -> "create"
      [] ask[r].kind \in {"addListed", "patchListed", "dropListed"} -> "findListed"

Overlaps(r) ==
    UNION {Concerned(r) \cap Concerned(q) :
              q \in {x \in Requests : UnderWay(x) /\ (Changes(x) \/ Changes(r))}}

Start(r) ==
    /\ pc[r] = "idle"
    /\ Cardinality({q \in Requests : UnderWay(q)}) < AtOnce
    /\ \E u \in Resolved(Requester(r)) :
          Goto(r, IF MayAsk(r, u) THEN FirstPlace(r) ELSE "done")
    /\ crossed' = crossed \cup Overlaps(r)
    /\ UNCHANGED <<users, listed, keys, ask, account, entry, doc, targets, todo, cut>>

-----------------------------------------------------------------------------
(***************************************************************************)
(* Sign-in, session and settings.                                          *)
(***************************************************************************)
\* What follows when the account is there, and when it is not.
Found(r) ==
    CASE ask[r].kind = "login" -> IF entry[r] = NoRecord THEN {"reread"} ELSE {"sync"}
      [] ask[r].kind = "session" -> {"key", "findAgain"}
      [] ask[r].kind = "settings" -> {"findOwn"}
NotFound(r) == IF ask[r].kind = "login" THEN "insert" ELSE "standIn"

\* users.find_one by email.  A session looks a second time when it has brought
\* the rosters up to date (reconcile_course_members_for_user).
Find(r) ==
    /\ pc[r] \in {"find", "findAgain"}
    /\ \E u \in FindOne(WithEmail(users, Email(r))) :
          IF u # NoRecord
          THEN /\ Reads(r, u)
               /\ \E place \in Found(r) :
                     Goto(r, IF pc[r] = "findAgain" THEN "key" ELSE place)
          ELSE /\ UNCHANGED account
               /\ Goto(r, IF pc[r] = "findAgain" THEN "key" ELSE NotFound(r))
    /\ UNCHANGED <<users, listed, keys, ask, Local, History>>

\* The rest of _resolve_user_record: the entry of the whitelist stands for the
\* account.
FindStandIn(r) ==
    /\ pc[r] = "standIn"
    /\ \E w \in FindOne(WithEmail(listed, Email(r))) :
          IF w = NoRecord
          THEN Goto(r, "done") /\ UNCHANGED account
          ELSE /\ Reads(r, StandIn(w))
               /\ Goto(r, IF ask[r].kind = "session" THEN "key" ELSE "findOwn")
    /\ UNCHANGED <<users, listed, keys, ask, Local, History>>

\* A guest's sign-in needs an entry of the whitelist.  The routes that change an
\* entry find it first; a new one is added only if there is none.
AfterListed ==
    [login |-> "find", addListed |-> "list", patchListed |-> "patch", dropListed |-> "drop"]

FindListed(r) ==
    /\ pc[r] = "findListed"
    /\ \E w \in FindOne(WithEmail(listed, Email(r))) :
          /\ entry' = [entry EXCEPT ![r] = w]
          /\ Goto(r, IF (w = NoRecord) = (ask[r].kind = "addListed")
                     THEN AfterListed[ask[r].kind] ELSE "done")
    /\ UNCHANGED <<users, listed, keys, ask, account, doc, targets, todo, History>>

\* The first sign-in inserts the account: a guest's as the entry said.
Insert(r) ==
    /\ pc[r] = "insert"
    /\ users' = users \cup
          {IF entry[r] = NoRecord THEN Record(r, r, Email(r), TRUE, "student")
           ELSE Record(r, r, Email(r), entry[r].active, entry[r].role)}
    /\ Reads(r, Record(r, r, Email(r), TRUE, "student"))
    /\ Goto(r, "reread")
    /\ UNCHANGED <<listed, keys, ask, Local, History>>

\* A guest's later sign-ins bring the account in line with the entry.
Sync(r) ==
    /\ pc[r] = "sync"
    /\ users' = {IF u.oid = account[r].oid
                 THEN [u EXCEPT !.active = entry[r].active, !.role = entry[r].role]
                 ELSE u : u \in users}
    /\ Goto(r, "reread")
    /\ UNCHANGED <<listed, keys, ask, account, Local, History>>

\* users.find_one by the _id of what was written.  The rosters come next
\* (reconcile_course_members_for_user), they change no account.
Reread(r) ==
    /\ pc[r] = "reread"
    /\ \E u \in FindOne({x \in users : x.oid = account[r].oid}) :
          Reads(r, u) /\ Goto(r, IF u = NoRecord THEN "done" ELSE "key")
    /\ UNCHANGED <<users, listed, keys, ask, Local, History>>

\* _get_settings_for_user, _upsert_settings_for_user: what stands for an account
\* becomes one.  It has the entry's id, but a role only as is_admin.
FindOwn(r) ==
    /\ pc[r] = "findOwn"
    /\ Goto(r, IF WithId(users, account[r].id) = {} THEN "insertOwn" ELSE "done")
    /\ UNCHANGED <<users, listed, keys, ask, account, Local, History>>

InsertOwn(r) ==
    /\ pc[r] = "insertOwn"
    /\ users' = users \cup
          {[account[r] EXCEPT !.oid = r, !.role = IF @ = "admin" THEN "admin" ELSE "student"]}
    /\ Goto(r, "done")
    /\ UNCHANGED <<listed, keys, ask, account, Local, History>>

-----------------------------------------------------------------------------
(***************************************************************************)
(* ensure_default_api_key_for_user.                                        *)
(***************************************************************************)
DefaultKeys(owner) == {k \in keys : k.scope = "user-default" /\ k.owner = owner}

FindKey(r) ==
    /\ pc[r] = "key"
    /\ \E k \in (IF DefaultKeys(OwnerId(account[r])) = {} THEN {NoKey}
                ELSE DefaultKeys(OwnerId(account[r]))) : doc' = [doc EXCEPT ![r] = k]
    /\ Goto(r, "store")
    /\ UNCHANGED <<users, listed, keys, ask, account, entry, targets, todo, History>>

NewDefaultKey(r) ==
    [id |-> r, owner |-> OwnerId(account[r]), scope |-> "user-default",
     on |-> account[r].active,
     reason |-> IF account[r].active THEN "none" ELSE "account-inactive"]

\* The key that was found is as the account wants it.  A key that is off for
\* another reason is not the account's to open.
Settled(k, active) ==
    IF active THEN k.reason # "account-inactive"
    ELSE ~k.on /\ k.reason = "account-inactive"

\* The document is written back as a whole, with the account of that time.  The
\* unique index refuses a second default key.
StoreKey(r) ==
    /\ pc[r] = "store"
    /\ CASE doc[r] = NoKey ->
               keys' = IF DefaultKeys(OwnerId(account[r])) = {}
                       THEN keys \cup {NewDefaultKey(r)} ELSE keys
         [] doc[r] # NoKey /\ ~Settled(doc[r], account[r].active) ->
               ReplaceKey([NewDefaultKey(r) EXCEPT !.id = doc[r].id])
         [] OTHER -> UNCHANGED keys
    /\ Goto(r, "done")
    /\ UNCHANGED <<users, listed, ask, account, Local, History>>

-----------------------------------------------------------------------------
(***************************************************************************)
(* update_user and bulk_update_users.                                      *)
(***************************************************************************)
TakesAccess(a) ==
    \/ "active" \in a.fields /\ ~a.active
    \/ "role" \in a.fields /\ a.role # "admin"

\* Mutant: a demotion of oneself is not refused.
RefusesSelfDeactivation(r) ==
    "active" \in ask[r].fields /\ ~ask[r].active /\ ask[r].by \in ask[r].whom
RefusesSelf(r) == TakesAccess(ask[r]) /\ ask[r].by \in ask[r].whom

Resolve(r) ==
    /\ pc[r] = "resolve"
    /\ \E found \in [ask[r].whom -> UNION {Resolved(e) : e \in ask[r].whom}] :
          /\ \A e \in ask[r].whom : found[e] \in Resolved(e)
          /\ targets' = [targets EXCEPT ![r] =
                            {found[e] : e \in ask[r].whom} \ {NoRecord}]
    /\ Goto(r, IF RefusesSelf(r) THEN "done" ELSE "next")
    /\ UNCHANGED <<users, listed, keys, ask, account, entry, doc, todo, History>>

NextTarget(r) ==
    /\ pc[r] = "next"
    /\ IF targets[r] = {}
       THEN Goto(r, "done") /\ UNCHANGED <<account, targets>>
       ELSE \E u \in targets[r] :
               /\ Reads(r, u)
               /\ targets' = [targets EXCEPT ![r] = @ \ {u}]
               /\ Goto(r, "usersById")
    /\ UNCHANGED <<users, listed, keys, ask, entry, doc, todo, History>>

\* Mutant: the documents are looked up by id only.
StepsById == [usersById |-> "listedById", listedById |-> "link"]

\* Four writes, of both collections by id and then by email.
Steps == [usersById |-> "listedById", listedById |-> "usersByEmail",
          usersByEmail |-> "listedByEmail", listedByEmail |-> "link"]
Matching(docs, r) ==
    IF pc[r] \in {"usersById", "listedById"} THEN WithId(docs, account[r].id)
    ELSE WithEmail(docs, account[r].email)

WriteTarget(r) ==
    /\ pc[r] \in DOMAIN Steps
    /\ IF pc[r] \in {"usersById", "usersByEmail"}
       THEN users' \in UpdateOne(users, Matching(users, r), ask[r]) /\ UNCHANGED listed
       ELSE listed' \in UpdateOne(listed, Matching(listed, r), ask[r]) /\ UNCHANGED users
    /\ Goto(r, IF Steps[pc[r]] = "link" /\ "active" \notin ask[r].fields
               THEN "next" ELSE Steps[pc[r]])
    /\ UNCHANGED <<keys, ask, account, Local, History>>

\* users.find_one by email; failing that the record as it was resolved.
Link(r) ==
    /\ pc[r] = "link"
    /\ \E u \in FindOne(WithEmail(users, account[r].email)) :
          Reads(r, IF u = NoRecord THEN account[r] ELSE u)
    /\ Goto(r, "scan")
    /\ UNCHANGED <<users, listed, keys, ask, Local, History>>

-----------------------------------------------------------------------------
(***************************************************************************)
(* set_user_api_keys_active_state.                                         *)
(***************************************************************************)
\* What the request makes of the account: a removal from the whitelist
\* deactivates.
Opens(r) == ask[r].kind # "dropListed" /\ ask[r].active

\* Mutant: the _id of the account is forgotten.
IdentifiersById(u) == {u.id, u.email} \ {NoId}
Identifiers(u) == {u.id, u.oid, u.email} \ {NoId}

Scan(r) ==
    /\ pc[r] = "scan"
    /\ todo' = [todo EXCEPT ![r] = {k \in keys : k.owner \in Identifiers(account[r])}]
    /\ Goto(r, "keys")
    /\ UNCHANGED <<users, listed, keys, ask, account, entry, doc, targets, History>>

\* Mutant: every key that the account shut is opened again.
FollowsScopeless(k, open) ==
    IF open THEN k.reason = "account-inactive" ELSE k.on \/ k.reason \in {"course", "limit"}

\* A key that was off for another reason keeps it; only the default key comes
\* back with the account.
Follows(k, open) ==
    IF open THEN k.scope = "user-default" /\ k.reason = "account-inactive"
    ELSE k.on \/ k.reason \in {"course", "limit"}

Followed(k, open) ==
    [k EXCEPT !.on = open, !.reason = IF open THEN "none" ELSE "account-inactive"]

FollowKey(r) ==
    /\ pc[r] = "keys"
    /\ IF todo[r] = {}
       THEN /\ Goto(r, IF ask[r].kind = "update" THEN "next" ELSE "done")
            /\ UNCHANGED <<keys, todo, cut>>
       ELSE \E k \in todo[r] :
               /\ todo' = [todo EXCEPT ![r] = @ \ {k}]
               /\ IF Follows(k, Opens(r)) THEN ReplaceKey(Followed(k, Opens(r)))
                  ELSE UNCHANGED keys
               /\ UNCHANGED pc
    /\ UNCHANGED <<users, listed, ask, account, entry, doc, targets, History>>

-----------------------------------------------------------------------------
(***************************************************************************)
(* create_user, and the whitelist.                                         *)
(***************************************************************************)
\* create_user looks for no other account of the address, and neither of the two
\* looks at the other collection.
Alone(r, others) ==
    cut' = IF WithEmail(others, Email(r)) = {} THEN cut ELSE cut \cup {Email(r)}

Create(r) ==
    /\ pc[r] = "create"
    /\ users' = users \cup {Record(r, r, Email(r), TRUE, ask[r].role)}
    /\ Alone(r, listed)
    /\ Goto(r, "done")
    /\ UNCHANGED <<listed, keys, ask, account, Local, crossed>>

List(r) ==
    /\ pc[r] = "list"
    /\ listed' = listed \cup {Record(r, r, Email(r), TRUE, ask[r].role)}
    /\ Alone(r, users)
    /\ Goto(r, "done")
    /\ UNCHANGED <<users, keys, ask, account, Local, crossed>>

PatchListed(r) ==
    /\ pc[r] = "patch"
    /\ listed' = {IF w.oid = entry[r].oid THEN Changed(w, ask[r]) ELSE w : w \in listed}
    /\ Goto(r, "linkListed")
    /\ UNCHANGED <<users, keys, ask, account, Local, History>>

DropListed(r) ==
    /\ pc[r] = "drop"
    /\ listed' = {w \in listed : w.oid # entry[r].oid}
    /\ Goto(r, "linkListed")
    /\ UNCHANGED <<users, keys, ask, account, Local, History>>

LinkListed(r) ==
    /\ pc[r] = "linkListed"
    /\ \E u \in FindOne(WithEmail(users, entry[r].email)) : Reads(r, u)
    /\ Goto(r, "changeLinked")
    /\ UNCHANGED <<users, listed, keys, ask, Local, History>>

\* What a removal or a patch makes of the account.
Change(r) ==
    IF ask[r].kind = "dropListed" THEN [fields |-> {"active"}, active |-> FALSE]
    ELSE ask[r]

ChangeLinked(r) ==
    /\ pc[r] = "changeLinked"
    /\ users' \in UpdateOne(users, WithEmail(users, entry[r].email), Change(r))
    /\ Goto(r, IF account[r] # NoRecord /\ "active" \in Change(r).fields
               THEN "scan" ELSE "done")
    /\ UNCHANGED <<listed, keys, ask, account, Local, History>>

\* The process dies, or a store raises: the request ends where it stands.
Crash(r) ==
    /\ UnderWay(r)
    /\ Goto(r, "done")
    /\ cut' = IF Changes(r) THEN cut \cup ask[r].whom ELSE cut
    /\ UNCHANGED <<users, listed, keys, ask, account, Local, crossed>>

-----------------------------------------------------------------------------
SignIn(r) ==
    \/ Find(r) \/ FindStandIn(r) \/ Insert(r) \/ Sync(r) \/ Reread(r)
    \/ FindOwn(r) \/ InsertOwn(r) \/ FindKey(r) \/ StoreKey(r)
Administer(r) ==
    Resolve(r) \/ NextTarget(r) \/ WriteTarget(r) \/ Link(r) \/ Scan(r) \/ FollowKey(r)
Whitelist(r) ==
    \/ FindListed(r) \/ Create(r) \/ List(r) \/ PatchListed(r) \/ DropListed(r)
    \/ LinkListed(r) \/ ChangeLinked(r)

AccountsNext ==
    \/ \E r \in Requests : Start(r) \/ SignIn(r) \/ Administer(r) \/ Whitelist(r) \/ Crash(r)
    \/ (\A r \in Requests : pc[r] = "done") /\ UNCHANGED accountVars

AccountsSpec == AccountsInit /\ [][AccountsNext]_accountVars

-----------------------------------------------------------------------------
(***************************************************************************)
(* Properties.                                                             *)
(***************************************************************************)
AtRest(email) == \A r \in Requests : UnderWay(r) => email \notin ask[r].whom
One(email) == Cardinality(WithEmail(users, email)) = 1

KeysOf(u) == {k \in keys : k.owner \in {u.oid, u.id, u.email}}

\* user-management.md on deactivation: it "also suspends API keys owned by that
\* account".  An inactive account has no key that is on, however it became inactive:
\* by a sign-in that copies the whitelist, by either of the administrators' pages or
\* in bulk.  Not promised for an address that two requests worked on at once, after a
\* change that died, or where two documents share an address.  Nothing is said of an
\* active account: its return opens the default key again, which the comment in
\* set_user_api_keys_active_state wants and user-management.md denies.
KeysFollow(u) == ~u.active => \A k \in KeysOf(u) : ~k.on
KeysFollowAccounts ==
    \A u \in users :
        AtRest(u.email) /\ One(u.email) /\ u.email \notin crossed \cup cut => KeysFollow(u)

\* A guest's account and his entry say the same, though no call writes both: the
\* entry is what the next sign-in copies over the account, and what stands for it
\* where there is none.
ListAndAccountAgree ==
    \A u \in users, w \in listed :
        /\ u.email = w.email
        /\ AtRest(u.email) /\ One(u.email) /\ u.email \notin crossed \cup cut
        => /\ u.active = w.active
           /\ (u.role = "admin") <=> (w.role = "admin")

\* A course key that is off stays off, whatever becomes of its owner's account:
\* only the course may open it again.
CourseKeysStayOff ==
    [][\A k \in keys : k.scope = "course" /\ ~k.on =>
          \A j \in keys' : j.id = k.id => ~j.on]_keys

\* There is always an active administrator, unless two of them took each other's
\* access at the same time: on the administrators' pages no one can take his own.
\* The whitelist's routes have no such test; they are no way around this one while
\* those who ask are of the university, who have no entry.
AdminRemains ==
    crossed = {} => \E u \in users : u.active /\ u.role = "admin"

\* The administrators' guide: an account that is inactive has its keys suspended.
\* A sign-in or a session that read the account before the change switches the
\* default key back on after it.
InactiveIsShut ==
    \A u \in users :
        AtRest(u.email) /\ One(u.email) /\ u.email \notin cut /\ ~u.active =>
            \A k \in KeysOf(u) : ~k.on
=============================================================================
