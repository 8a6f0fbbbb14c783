---------------------------- MODULE AccountsProofs ----------------------------
(***************************************************************************)
(* Proofs about Accounts, for any number of requests, accounts, whitelist  *)
(* entries and keys.                                                       *)
(***************************************************************************)
EXTENDS Accounts, FiniteSetTheorems, FunctionTheorems, TLAPS

-----------------------------------------------------------------------------
(***************************************************************************)
(* The invariant of the records: whatever copy of an account or an entry   *)
(* somebody has, its ids tell whose it is.                                 *)
(***************************************************************************)
\* The records that are stored, and those that somebody has read.
Known ==
    users \cup listed
        \cup (({account[r] : r \in Requests} \cup {entry[r] : r \in Requests}) \ {NoRecord})
        \cup UNION {targets[r] : r \in Requests}

\* Where a request has inserted no record yet, and may.
Early == {"idle", "findListed", "find", "standIn", "findOwn", "insertOwn", "insert",
          "create", "list"}

Types ==
    /\ ask \in [Requests -> Asks]
    /\ pc = [r \in Requests |-> pc[r]]
    /\ account = [r \in Requests |-> account[r]]
    /\ entry = [r \in Requests |-> entry[r]]
    /\ targets = [r \in Requests |-> targets[r]]

RecordsAreRecords == \A u \in Known : IsRecord(u)
IdsTell ==
    \A u, w \in Known :
        u.id = w.id \/ u.id = w.oid \/ (u.oid = w.oid /\ u.oid # NoId) => u.email = w.email
IdsAreIds == \A u \in Known : {u.id, u.oid} \cap Addresses = {} /\ u.id # NoId
NewRecordsFresh ==
    \A r \in Requests : pc[r] \in Early => \A u \in Known : u.id # r /\ u.oid # r
StoredHaveIds == \A u \in users \cup listed : u.oid # NoId
GuestsListed == \A w \in listed : w.email \in Guests

Records ==
    /\ RecordsAreRecords /\ IdsTell /\ IdsAreIds
    /\ NewRecordsFresh /\ StoredHaveIds /\ GuestsListed

\* The places of each kind of request.
Path ==
    [login |-> {"findListed", "find", "insert", "sync", "reread", "key", "store"},
     session |-> {"find", "findAgain", "standIn", "key", "store"},
     settings |-> {"find", "standIn", "findOwn", "insertOwn"},
     update |-> {"resolve", "next", "usersById", "listedById", "usersByEmail",
                 "listedByEmail", "link", "scan", "keys"},
     createUser |-> {"create"},
     addListed |-> {"findListed", "list"},
     patchListed |-> {"findListed", "patch", "linkListed", "changeLinked", "scan", "keys"},
     dropListed |-> {"findListed", "drop", "linkListed", "changeLinked", "scan", "keys"}]

HasAccount ==
    {"findAgain", "key", "store", "sync", "reread", "findOwn", "insertOwn", "usersById",
     "listedById", "usersByEmail", "listedByEmail", "link", "scan", "keys"}
HasEntry == {"sync", "patch", "drop", "linkListed", "changeLinked"}

\* What a request that asks for a knows at a place: the account u, the entry w and
\* the targets T that it has read are of those whom it concerns.
Fits(a, place, u, w, T) ==
    /\ place \in Path[a.kind] \cup {"idle", "done"}
    /\ u # NoRecord => u.email \in a.whom
    /\ w # NoRecord => w.email \in a.whom /\ w.email \in Guests
    /\ \A x \in T : x.email \in a.whom
    /\ place \in HasAccount => u # NoRecord
    /\ place \in HasEntry => w # NoRecord
    /\ a.kind = "update" /\ place \notin {"idle", "resolve", "done"} =>
          ~(TakesAccess(a) /\ a.by \in a.whom)

RequestsFit ==
    \A r \in Requests : Fits(ask[r], pc[r], account[r], entry[r], targets[r])

RecordsInvariant == Types /\ Records /\ RequestsFit

-----------------------------------------------------------------------------
(***************************************************************************)
(* What a step may do to the records.                                      *)
(***************************************************************************)
Kin(x, u) == IsRecord(x) /\ x.id = u.id /\ x.email = u.email /\ x.oid \in {u.oid, NoId}
Same(x, u) == IsRecord(x) /\ x.id = u.id /\ x.email = u.email /\ x.oid = u.oid

\* x is a version of a known record, or one that r inserts.
Of(x) == \E u \in Known : Kin(x, u)
New(r, x) ==
    /\ IsRecord(x) /\ x.oid = r /\ x.email = Email(r)
    /\ x.id = r \/ \E u \in Known : u.id = x.id /\ u.email = x.email

LEMMA NoRecordIsNone == ~IsRecord(NoRecord)
<1>1. DOMAIN NoRecord = {"email"} /\ "id" \in RecordFields
  BY DEF NoRecord, RecordFields
<1>2. IsRecord(NoRecord) => DOMAIN NoRecord = RecordFields
  BY DEF IsRecord
<1> QED BY <1>1, <1>2

LEMMA KnownOf ==
    ASSUME RecordsAreRecords
    PROVE  /\ \A u \in Known : Of(u) /\ IsRecord(u) /\ u # NoRecord
           /\ users \subseteq Known /\ listed \subseteq Known
           /\ \A r \in Requests : account[r] = NoRecord \/ account[r] \in Known
           /\ \A r \in Requests : entry[r] = NoRecord \/ entry[r] \in Known
           /\ \A r \in Requests : targets[r] \subseteq Known
<1>1. /\ users \subseteq Known /\ listed \subseteq Known
      /\ \A r \in Requests : account[r] = NoRecord \/ account[r] \in Known
      /\ \A r \in Requests : entry[r] = NoRecord \/ entry[r] \in Known
      /\ \A r \in Requests : targets[r] \subseteq Known
  BY DEF Known
<1>2. \A u \in Known : Of(u) /\ IsRecord(u) /\ u # NoRecord
  BY NoRecordIsNone DEF RecordsAreRecords, Of, Kin
<1> QED BY <1>1, <1>2

LEMMA KnownLater ==
    ASSUME NEW x \in Known'
    PROVE  \/ x \in users' \/ x \in listed'
           \/ \E r \in Requests : x = account'[r] /\ x # NoRecord
           \/ \E r \in Requests : x = entry'[r] /\ x # NoRecord
           \/ \E r \in Requests : x \in targets'[r]
BY DEF Known

\* A version of a version is a version.
LEMMA OldRecords ==
    ASSUME Records, \A x \in Known' : Of(x),
           \A r \in Requests : pc'[r] \in Early => pc[r] \in Early,
           \A x \in users' \cup listed' : x.oid # NoId,
           \A w \in listed' : w.email \in Guests
    PROVE  Records'
<1>1. RecordsAreRecords'
  BY DEF RecordsAreRecords, Of, Kin
<1>2. IdsTell'
  <2> SUFFICES ASSUME NEW x \in Known', NEW y \in Known',
                      x.id = y.id \/ x.id = y.oid \/ (x.oid = y.oid /\ x.oid # NoId)
               PROVE  x.email = y.email
    BY DEF IdsTell
  <2>1. PICK u \in Known : Kin(x, u)
    BY DEF Of
  <2>2. PICK w \in Known : Kin(y, w)
    BY DEF Of
  <2>3. u.id = w.id \/ u.id = w.oid \/ (u.oid = w.oid /\ u.oid # NoId)
    BY <2>1, <2>2 DEF Kin, Records, IdsAreIds
  <2> QED BY <2>1, <2>2, <2>3 DEF Kin, Records, IdsTell
<1>3. NewRecordsFresh'
  BY RequestsAssumption DEF Records, NewRecordsFresh, Of, Kin
<1>4. IdsAreIds'
  BY RequestsAssumption DEF Records, IdsAreIds, Of, Kin
<1> QED BY <1>1, <1>2, <1>3, <1>4 DEF Records, StoredHaveIds, GuestsListed

LEMMA MoreRecords ==
    ASSUME Records, NEW r \in Requests, pc[r] \in Early, pc'[r] \notin Early,
           \A x \in Known' : Of(x) \/ New(r, x),
           \A q \in Requests : pc'[q] \in Early => pc[q] \in Early,
           \A x \in users' \cup listed' : x.oid # NoId,
           \A w \in listed' : w.email \in Guests
    PROVE  Records'
<1>1. RecordsAreRecords'
  BY DEF RecordsAreRecords, Of, Kin, New
<1>2. \A u \in Known : u.id # r /\ u.oid # r
  BY DEF Records, NewRecordsFresh
<1>3. \A x \in Known' : Of(x) => x.oid # r /\ x.id # r
  BY <1>2, RequestsAssumption DEF Of, Kin
<1>4. \A x \in Known' : New(r, x) => x.oid = r /\ x.email = Email(r)
  BY DEF New
<1>5. IdsTell'
  <2> SUFFICES ASSUME NEW x \in Known', NEW y \in Known',
                      x.id = y.id \/ x.id = y.oid \/ (x.oid = y.oid /\ x.oid # NoId)
               PROVE  x.email = y.email
    BY DEF IdsTell
  <2>1. CASE Of(x) /\ Of(y)
    <3>1. PICK u \in Known : Kin(x, u)
      BY <2>1 DEF Of
    <3>2. PICK w \in Known : Kin(y, w)
      BY <2>1 DEF Of
    <3>3. u.id = w.id \/ u.id = w.oid \/ (u.oid = w.oid /\ u.oid # NoId)
      BY <3>1, <3>2 DEF Kin, Records, IdsAreIds
    <3> QED BY <3>1, <3>2, <3>3 DEF Kin, Records, IdsTell
  <2>2. ASSUME NEW a \in Known', NEW b \in Known', New(r, a), Of(b),
               a.id = b.id \/ a.id = b.oid \/ a.oid = b.id \/ (a.oid = b.oid /\ a.oid # NoId)
        PROVE  a.email = b.email
    <3>1. a.id # r /\ (a.id = b.id \/ a.id = b.oid)
      BY <1>3, <1>4, <2>2
    <3>2. PICK u \in Known : u.id = a.id /\ u.email = a.email
      BY <2>2, <3>1 DEF New
    <3>3. PICK w \in Known : Kin(b, w)
      BY <2>2 DEF Of
    <3>4. u.id = w.id \/ u.id = w.oid
      BY <3>1, <3>2, <3>3 DEF Records, IdsAreIds, Kin
    <3> QED BY <3>2, <3>3, <3>4 DEF Records, IdsTell, Kin
  <2>3. CASE New(r, x) /\ New(r, y)
    BY <1>4, <2>3
  <2> QED BY <2>1, <2>2, <2>3
<1>6. NewRecordsFresh'
  <2> SUFFICES ASSUME NEW q \in Requests, pc'[q] \in Early, NEW x \in Known'
               PROVE  x.id # q /\ x.oid # q
    BY DEF NewRecordsFresh
  <2>1. q # r /\ \A u \in Known : u.id # q /\ u.oid # q
    BY DEF Records, NewRecordsFresh
  <2> QED BY <2>1, RequestsAssumption DEF Of, Kin, New
<1>7. IdsAreIds'
  <2> SUFFICES ASSUME NEW x \in Known'
               PROVE  {x.id, x.oid} \cap Addresses = {} /\ x.id # NoId
    BY DEF IdsAreIds
  <2>1. r \notin Addresses /\ r # NoId /\ NoId \notin Addresses
    BY RequestsAssumption
  <2> QED BY <2>1 DEF Records, IdsAreIds, Of, Kin, New
<1> QED BY <1>1, <1>5, <1>6, <1>7 DEF Records, StoredHaveIds, GuestsListed

-----------------------------------------------------------------------------
(***************************************************************************)
(* A step of a request reads, changes what is stored, or inserts.          *)
(***************************************************************************)
LEMMA StepFits ==
    ASSUME RecordsInvariant, NEW r \in Requests, NEW place, Goto(r, place), UNCHANGED ask,
           NEW u, account' = [account EXCEPT ![r] = u],
           NEW w, entry' = [entry EXCEPT ![r] = w],
           NEW T, targets' = [targets EXCEPT ![r] = T],
           Fits(ask[r], place, u, w, T)
    PROVE  /\ Types' /\ RequestsFit'
           /\ pc'[r] = place /\ account'[r] = u /\ entry'[r] = w /\ targets'[r] = T
           /\ \A q \in Requests \ {r} :
                 /\ pc'[q] = pc[q] /\ account'[q] = account[q] /\ entry'[q] = entry[q]
                 /\ targets'[q] = targets[q]
<1>1. Types' /\ pc'[r] = place /\ account'[r] = u /\ entry'[r] = w /\ targets'[r] = T
  BY DEF RecordsInvariant, Types, Goto
<1>2. \A q \in Requests \ {r} :
        /\ pc'[q] = pc[q] /\ account'[q] = account[q] /\ entry'[q] = entry[q]
        /\ targets'[q] = targets[q]
  BY DEF RecordsInvariant, Types, Goto
<1> HIDE DEF Fits
<1>3. RequestsFit'
  BY <1>1, <1>2 DEF RecordsInvariant, RequestsFit
<1> QED BY <1>1, <1>2, <1>3

LEMMA ReadStep ==
    ASSUME RecordsInvariant, NEW r \in Requests, NEW place, Goto(r, place),
           UNCHANGED <<users, listed, ask>>,
           NEW u, account' = [account EXCEPT ![r] = u], u = NoRecord \/ Of(u),
           NEW w, entry' = [entry EXCEPT ![r] = w], w = NoRecord \/ Of(w),
           NEW T, targets' = [targets EXCEPT ![r] = T], \A x \in T : Of(x),
           place \in Early => pc[r] \in Early,
           Fits(ask[r], place, u, w, T)
    PROVE  RecordsInvariant'
<1>1. /\ Types' /\ RequestsFit'
      /\ pc'[r] = place /\ account'[r] = u /\ entry'[r] = w /\ targets'[r] = T
      /\ \A q \in Requests \ {r} :
            /\ pc'[q] = pc[q] /\ account'[q] = account[q] /\ entry'[q] = entry[q]
            /\ targets'[q] = targets[q]
  BY StepFits
<1>2. \A x \in Known' : Of(x)
  <2> SUFFICES ASSUME NEW x \in Known' PROVE Of(x)
    OBVIOUS
  <2>1. \A y \in Known : Of(y)
    BY KnownOf DEF RecordsInvariant, Records
  <2>2. CASE x \in users' \/ x \in listed'
    BY <2>1, <2>2 DEF Known
  <2>3. CASE \E q \in Requests : x = account'[q] /\ x # NoRecord
    BY <1>1, <2>1, <2>3 DEF Known
  <2>4. CASE \E q \in Requests : x = entry'[q] /\ x # NoRecord
    BY <1>1, <2>1, <2>4 DEF Known
  <2>5. CASE \E q \in Requests : x \in targets'[q]
    BY <1>1, <2>1, <2>5 DEF Known
  <2> QED BY <2>2, <2>3, <2>4, <2>5, KnownLater
<1>3. Records'
  BY <1>1, <1>2, OldRecords DEF RecordsInvariant, Records, StoredHaveIds, GuestsListed
<1> QED BY <1>1, <1>3 DEF RecordsInvariant

LEMMA WriteStep ==
    ASSUME RecordsInvariant, NEW r \in Requests, NEW place, Goto(r, place),
           UNCHANGED <<ask, account, entry, targets>>,
           \A x \in users' : \E u \in users : Same(x, u),
           \A x \in listed' : \E w \in listed : Same(x, w),
           place \in Early => pc[r] \in Early,
           Fits(ask[r], place, account[r], entry[r], targets[r])
    PROVE  RecordsInvariant'
<1>1. PICK u, w, T :
         /\ account' = [account EXCEPT ![r] = u]
         /\ entry' = [entry EXCEPT ![r] = w]
         /\ targets' = [targets EXCEPT ![r] = T]
         /\ Fits(ask[r], place, u, w, T)
         /\ UNCHANGED ask
  BY DEF RecordsInvariant, Types
<1>2. Types' /\ RequestsFit'
  BY <1>1, StepFits
<1>3. pc'[r] = place /\ \A q \in Requests \ {r} : pc'[q] = pc[q]
  BY DEF RecordsInvariant, Types, Goto
<1>4. \A x \in Known' : Of(x)
  <2> SUFFICES ASSUME NEW x \in Known' PROVE Of(x)
    OBVIOUS
  <2>1. \A y \in Known : Of(y)
    BY KnownOf DEF RecordsInvariant, Records
  <2>2. CASE x \in users' \/ x \in listed'
    BY <2>2 DEF Known, Of, Kin, Same
  <2>3. CASE \E q \in Requests :
             \/ (x = account[q] \/ x = entry[q]) /\ x # NoRecord
             \/ x \in targets[q]
    BY <2>1, <2>3 DEF Known
  <2> QED BY <2>2, <2>3, KnownLater
<1>5. (\A x \in users' \cup listed' : x.oid # NoId) /\ \A z \in listed' : z.email \in Guests
  BY DEF RecordsInvariant, Records, StoredHaveIds, GuestsListed, Same
<1>6. Records'
  BY <1>4, <1>5, <1>3, OldRecords DEF RecordsInvariant
<1> QED BY <1>2, <1>6 DEF RecordsInvariant

LEMMA InsertStep ==
    ASSUME RecordsInvariant, NEW r \in Requests, NEW place, Goto(r, place),
           UNCHANGED <<ask, entry, targets>>,
           NEW x, New(r, x),
           \/ users' = users \cup {x} /\ UNCHANGED listed
           \/ listed' = listed \cup {x} /\ UNCHANGED users /\ x.email \in Guests,
           NEW u, account' = [account EXCEPT ![r] = u], u = account[r] \/ New(r, u),
           pc[r] \in Early, place \notin Early,
           Fits(ask[r], place, u, entry[r], targets[r])
    PROVE  RecordsInvariant'
<1>1. PICK w, T :
         /\ entry' = [entry EXCEPT ![r] = w]
         /\ targets' = [targets EXCEPT ![r] = T]
         /\ Fits(ask[r], place, u, w, T)
         /\ UNCHANGED ask
  BY DEF RecordsInvariant, Types
<1>2. Types' /\ RequestsFit'
  BY <1>1, StepFits
<1>3. /\ pc'[r] = place /\ account'[r] = u
      /\ \A q \in Requests \ {r} : pc'[q] = pc[q] /\ account'[q] = account[q]
  BY DEF RecordsInvariant, Types, Goto
<1>4. \A y \in Known' : Of(y) \/ New(r, y)
  <2> SUFFICES ASSUME NEW y \in Known' PROVE Of(y) \/ New(r, y)
    OBVIOUS
  <2>1. \A z \in Known : Of(z)
    BY KnownOf DEF RecordsInvariant, Records
  <2>2. CASE y \in users' \/ y \in listed'
    BY <2>1, <2>2 DEF Known
  <2>3. CASE \E q \in Requests : y = account'[q] /\ y # NoRecord
    BY <1>3, <2>1, <2>3 DEF Known
  <2>4. CASE \E q \in Requests : (y = entry[q] /\ y # NoRecord) \/ y \in targets[q]
    BY <2>1, <2>4 DEF Known
  <2> QED BY <2>2, <2>3, <2>4, KnownLater
<1>5. (\A y \in users' \cup listed' : y.oid # NoId) /\ \A z \in listed' : z.email \in Guests
  BY RequestsAssumption DEF RecordsInvariant, Records, StoredHaveIds, GuestsListed, New
<1>6. Records'
  BY <1>4, <1>5, <1>3, MoreRecords DEF RecordsInvariant
<1> QED BY <1>2, <1>6 DEF RecordsInvariant

LEMMA AccountStep ==
    ASSUME RecordsInvariant, NEW r \in Requests, NEW place, Goto(r, place),
           UNCHANGED <<users, listed, ask, entry, targets>>,
           NEW u, account' = [account EXCEPT ![r] = u], u = NoRecord \/ Of(u),
           place \in Early => pc[r] \in Early,
           Fits(ask[r], place, u, entry[r], targets[r])
    PROVE  RecordsInvariant'
<1>1. PICK w, T :
         /\ entry' = [entry EXCEPT ![r] = w] /\ (w = NoRecord \/ Of(w))
         /\ targets' = [targets EXCEPT ![r] = T] /\ \A x \in T : Of(x)
         /\ Fits(ask[r], place, u, w, T)
  BY KnownOf DEF RecordsInvariant, Types, Records
<1>2. UNCHANGED <<users, listed, ask>>
  OBVIOUS
<1> QED BY <1>1, <1>2, ReadStep

LEMMA MoveStep ==
    ASSUME RecordsInvariant, NEW r \in Requests, NEW place, Goto(r, place),
           UNCHANGED <<users, listed, ask, account, entry, targets>>,
           place \in Early => pc[r] \in Early,
           Fits(ask[r], place, account[r], entry[r], targets[r])
    PROVE  RecordsInvariant'
<1>1. PICK u :
         /\ account' = [account EXCEPT ![r] = u] /\ (u = NoRecord \/ Of(u))
         /\ Fits(ask[r], place, u, entry[r], targets[r])
  BY KnownOf DEF RecordsInvariant, Types, Records
<1>2. UNCHANGED <<users, listed, ask, entry, targets>>
  OBVIOUS
<1> QED BY <1>1, <1>2, AccountStep

-----------------------------------------------------------------------------
(***************************************************************************)
(* Every step is one of these.                                             *)
(***************************************************************************)
LEMMA AskOf ==
    ASSUME RecordsInvariant, NEW r \in Requests
    PROVE  /\ ask[r].kind \in {"login", "session", "settings"} \cup Administrative
           /\ ask[r].whom \subseteq Addresses
           /\ ask[r].kind # "update" => ask[r].whom = {Email(r)}
           /\ ask[r].kind \in {"addListed", "patchListed", "dropListed"} =>
                 ask[r].whom \subseteq Guests
           /\ ask[r].kind \in {"update", "patchListed"} /\ "active" \in ask[r].fields =>
                 ask[r].active \in BOOLEAN
           /\ Fits(ask[r], pc[r], account[r], entry[r], targets[r])
<1>1. ask[r] \in Asks
  BY DEF RecordsInvariant, Types
<1>2. ask[r].kind # "update" => ask[r].whom = {Email(r)}
  BY <1>1, AsksAssumption DEF Email
<1> QED BY <1>1, <1>2, AsksAssumption DEF RecordsInvariant, RequestsFit

\* A record of somebody in the store.
LEMMA FoundOf ==
    ASSUME RecordsInvariant, NEW email
    PROVE  /\ \A u \in FindOne(WithEmail(users, email)) :
                 u = NoRecord \/ (u \in users /\ Of(u) /\ u.email = email)
           /\ \A w \in FindOne(WithEmail(listed, email)) :
                 w = NoRecord \/ (w \in listed /\ Of(w) /\ w.email = email /\ w.email \in Guests)
BY KnownOf DEF FindOne, WithEmail, RecordsInvariant, Records, GuestsListed

\* An entry that stands for an account.
LEMMA StandInOf ==
    ASSUME RecordsInvariant, NEW w \in listed
    PROVE  Of(StandIn(w)) /\ StandIn(w).email = w.email /\ StandIn(w) # NoRecord
<1>1. w \in Known /\ IsRecord(w)
  BY KnownOf DEF RecordsInvariant, Records
<1>2. IsRecord(StandIn(w)) /\ StandIn(w).id = w.id /\ StandIn(w).email = w.email
        /\ StandIn(w).oid = NoId
  BY <1>1 DEF IsRecord, RecordFields, StandIn
<1> QED BY <1>1, <1>2, NoRecordIsNone DEF Of, Kin

LEMMA ResolvedOf ==
    ASSUME RecordsInvariant, NEW email, NEW u \in Resolved(email)
    PROVE  u = NoRecord \/ (Of(u) /\ u.email = email)
<1>1. CASE u \in WithEmail(users, email)
  BY <1>1, KnownOf DEF WithEmail, RecordsInvariant, Records
<1>2. CASE \E w \in listed : w.email = email /\ u = StandIn(w)
  BY <1>2, StandInOf
<1> QED BY <1>1, <1>2 DEF Resolved, FindOne, WithEmail

LEMMA SignInReads ==
    ASSUME RecordsInvariant, NEW r \in Requests,
           Find(r) \/ FindStandIn(r) \/ Reread(r) \/ FindOwn(r) \/ FindKey(r) \/ StoreKey(r)
    PROVE  RecordsInvariant'
<1> DEFINE a == ask[r]
<1>1. /\ a.kind \in {"login", "session", "settings"} \cup Administrative
      /\ a.kind # "update" => a.whom = {Email(r)}
      /\ Fits(a, pc[r], account[r], entry[r], targets[r])
  BY AskOf
<1>2. CASE Find(r)
  <2>1. a.kind \in {"login", "session", "settings"} /\ a.whom = {Email(r)}
    BY <1>1, <1>2 DEF Find, Fits, Path, Administrative
  <2>2. UNCHANGED <<users, listed, ask, entry, targets>>
    BY <1>2 DEF Find, Local
  <2>3. PICK u \in FindOne(WithEmail(users, Email(r))) :
          IF u # NoRecord
          THEN /\ Reads(r, u)
               /\ \E place \in Found(r) : Goto(r, IF pc[r] = "findAgain" THEN "key" ELSE place)
          ELSE /\ UNCHANGED account
               /\ Goto(r, IF pc[r] = "findAgain" THEN "key" ELSE NotFound(r))
    BY <1>2 DEF Find
  <2>4. CASE u = NoRecord
    <3>1. PICK place : Goto(r, place) /\ place = IF pc[r] = "findAgain" THEN "key" ELSE NotFound(r)
      BY <2>3, <2>4
    <3>2. pc[r] = "findAgain" => a.kind = "session"
      BY <1>1, <2>1 DEF Fits, Path
    <3>3. Fits(a, place, account[r], entry[r], targets[r])
      BY <1>1, <1>2, <2>1, <3>1, <3>2 DEF Find, NotFound, Fits, Path, HasAccount, HasEntry
    <3>4. place \in Early => pc[r] \in Early
      BY <1>2, <3>1 DEF Find, Early
    <3>5. UNCHANGED account
      BY <2>3, <2>4
    <3> QED BY <2>2, <3>1, <3>3, <3>4, <3>5, MoveStep
  <2>5. CASE u # NoRecord
    <3>1. Of(u) /\ u.email \in a.whom
      BY <2>1, <2>3, <2>5, FoundOf
    <3>2. PICK place : /\ Goto(r, place)
                       /\ \E p \in Found(r) : place = IF pc[r] = "findAgain" THEN "key" ELSE p
      BY <2>3, <2>5
    <3>3. pc[r] = "findAgain" => a.kind = "session"
      BY <1>1, <2>1 DEF Fits, Path
    <3>4. Fits(a, place, u, entry[r], targets[r])
      BY <1>1, <2>1, <2>5, <3>1, <3>2, <3>3 DEF Found, Fits, Path, HasAccount, HasEntry
    <3>5. place \in Early => pc[r] \in Early
      BY <1>2, <3>2 DEF Find, Early
    <3>6. account' = [account EXCEPT ![r] = u]
      BY <2>3, <2>5 DEF Reads
    <3> QED BY <2>2, <3>1, <3>2, <3>4, <3>5, <3>6, AccountStep
  <2> QED BY <2>4, <2>5
<1>3. CASE FindStandIn(r)
  <2>1. a.kind \in {"session", "settings"} /\ a.whom = {Email(r)} /\ pc[r] = "standIn"
    BY <1>1, <1>3 DEF FindStandIn, Fits, Path, Administrative
  <2>2. UNCHANGED <<users, listed, ask, entry, targets>>
    BY <1>3 DEF FindStandIn, Local
  <2>3. PICK w \in FindOne(WithEmail(listed, Email(r))) :
          IF w = NoRecord
          THEN Goto(r, "done") /\ UNCHANGED account
          ELSE /\ Reads(r, StandIn(w))
               /\ Goto(r, IF a.kind = "session" THEN "key" ELSE "findOwn")
    BY <1>3 DEF FindStandIn
  <2>4. CASE w = NoRecord
    <3>1. Goto(r, "done") /\ UNCHANGED account
      BY <2>3, <2>4
    <3>2. Fits(a, "done", account[r], entry[r], targets[r])
      BY <1>1 DEF Fits, HasAccount, HasEntry
    <3> QED BY <2>2, <3>1, <3>2, MoveStep DEF Early
  <2>5. CASE w # NoRecord
    <3> DEFINE u == StandIn(w)
    <3>1. Of(u) /\ u.email \in a.whom /\ u # NoRecord
      BY <2>1, <2>3, <2>5, FoundOf, StandInOf
    <3>2. PICK place : Goto(r, place) /\ place = IF a.kind = "session" THEN "key" ELSE "findOwn"
      BY <2>3, <2>5
    <3>3. account' = [account EXCEPT ![r] = u]
      BY <2>3, <2>5 DEF Reads
    <3> HIDE DEF u
    <3>4. Fits(a, place, u, entry[r], targets[r])
      BY <1>1, <2>1, <3>1, <3>2 DEF Fits, Path, HasAccount, HasEntry
    <3>5. place \in Early => pc[r] \in Early
      BY <2>1 DEF Early
    <3> QED BY <2>2, <3>1, <3>2, <3>3, <3>4, <3>5, AccountStep
  <2> QED BY <2>4, <2>5
<1>4. CASE Reread(r)
  <2>1. pc[r] = "reread" /\ a.kind = "login" /\ account[r] # NoRecord
    BY <1>1, <1>4 DEF Reread, Fits, Path, HasAccount, Administrative
  <2>2. UNCHANGED <<users, listed, ask, entry, targets>>
    BY <1>4 DEF Reread, Local
  <2>3. PICK u \in FindOne({x \in users : x.oid = account[r].oid}) :
          Reads(r, u) /\ Goto(r, IF u = NoRecord THEN "done" ELSE "key")
    BY <1>4 DEF Reread
  <2>4. u = NoRecord \/ (Of(u) /\ u.email = account[r].email)
    <3> SUFFICES ASSUME u # NoRecord PROVE Of(u) /\ u.email = account[r].email
      OBVIOUS
    <3>1. u \in users /\ u.oid = account[r].oid
      BY <2>3 DEF FindOne
    <3>2. u \in Known /\ account[r] \in Known /\ Of(u)
      BY <2>1, <3>1, KnownOf DEF RecordsInvariant, Records
    <3>3. u.oid # NoId
      BY <3>1 DEF RecordsInvariant, Records, StoredHaveIds
    <3> QED BY <3>1, <3>2, <3>3 DEF RecordsInvariant, Records, IdsTell
  <2>5. PICK place : Goto(r, place) /\ place = IF u = NoRecord THEN "done" ELSE "key"
    BY <2>3
  <2>6. Fits(a, place, u, entry[r], targets[r])
    BY <1>1, <2>1, <2>4, <2>5 DEF Fits, Path, HasAccount, HasEntry
  <2>7. place \notin Early /\ account' = [account EXCEPT ![r] = u]
    BY <2>3, <2>5 DEF Early, Reads
  <2> QED BY <2>2, <2>4, <2>5, <2>6, <2>7, AccountStep
<1>5. CASE FindOwn(r)
  <2>1. pc[r] = "findOwn" /\ a.kind = "settings"
    BY <1>1, <1>5 DEF FindOwn, Fits, Path, Administrative
  <2>2. UNCHANGED <<users, listed, ask, account, entry, targets>>
    BY <1>5 DEF FindOwn, Local
  <2>3. PICK place \in {"insertOwn", "done"} : Goto(r, place)
    BY <1>5 DEF FindOwn
  <2>4. Fits(a, place, account[r], entry[r], targets[r])
    BY <1>1, <2>1, <2>3 DEF Fits, Path, HasAccount, HasEntry
  <2> QED BY <2>1, <2>2, <2>3, <2>4, MoveStep DEF Early
<1>6. CASE FindKey(r) \/ StoreKey(r)
  <2>1. pc[r] \in {"key", "store"}
    BY <1>6 DEF FindKey, StoreKey
  <2>2. UNCHANGED <<users, listed, ask, account, entry, targets>>
    BY <1>6 DEF FindKey, StoreKey, Local
  <2>3. PICK place : Goto(r, place) /\ ((place = "store" /\ pc[r] = "key") \/ place = "done")
    BY <1>6 DEF FindKey, StoreKey
  <2>4. pc[r] = "key" => a.kind \in {"login", "session"}
    BY <1>1 DEF Fits, Path, Administrative
  <2>5. Fits(a, place, account[r], entry[r], targets[r])
    BY <1>1, <2>1, <2>3, <2>4 DEF Fits, Path, HasAccount, HasEntry
  <2> QED BY <2>2, <2>3, <2>5, MoveStep DEF Early
<1> QED BY <1>2, <1>3, <1>4, <1>5, <1>6

LEMMA RecordIs ==
    ASSUME NEW oid, NEW id, NEW email, NEW active, NEW role
    PROVE  /\ IsRecord(Record(oid, id, email, active, role))
           /\ Record(oid, id, email, active, role).oid = oid
           /\ Record(oid, id, email, active, role).id = id
           /\ Record(oid, id, email, active, role).email = email
           /\ Record(oid, id, email, active, role).active = active
           /\ Record(oid, id, email, active, role).role = role
BY DEF Record, IsRecord, RecordFields

\* What a change leaves as it was.
Put(u, active, role) == [u EXCEPT !.active = active, !.role = role]

LEMMA PutIs ==
    ASSUME NEW u, IsRecord(u), NEW active, NEW role
    PROVE  /\ Same(Put(u, active, role), u)
           /\ Put(u, active, role).active = active /\ Put(u, active, role).role = role
BY DEF IsRecord, RecordFields, Same, Put

LEMMA ChangedIs ==
    ASSUME NEW u, IsRecord(u), NEW a
    PROVE  /\ Same(Changed(u, a), u)
           /\ Changed(u, a).active = IF "active" \in a.fields THEN a.active ELSE u.active
           /\ Changed(u, a).role = IF "role" \in a.fields THEN a.role ELSE u.role
<1>1. Changed(u, a) = Put(u, IF "active" \in a.fields THEN a.active ELSE u.active,
                          IF "role" \in a.fields THEN a.role ELSE u.role)
  BY DEF Changed, Put
<1> QED BY <1>1, PutIs

LEMMA UpdateOneIs ==
    ASSUME NEW docs, NEW matching, matching \subseteq docs, NEW a,
           \A u \in docs : IsRecord(u), NEW later \in UpdateOne(docs, matching, a)
    PROVE  \A x \in later : \E u \in docs : Same(x, u)
<1>1. \A u \in docs : Same(u, u) /\ Same(Changed(u, a), u)
  BY ChangedIs DEF Same
<1> QED BY <1>1 DEF UpdateOne

LEMMA StoredAreRecords ==
    ASSUME RecordsInvariant
    PROVE  /\ \A u \in users \cup listed : IsRecord(u) /\ Same(u, u)
           /\ \A u \in users : \E x \in users : Same(u, x)
           /\ \A u \in listed : \E x \in listed : Same(u, x)
<1>1. \A u \in users \cup listed : IsRecord(u) /\ Same(u, u)
  BY KnownOf DEF RecordsInvariant, Records, Same
<1> QED BY <1>1

LEMMA SignInWrites ==
    ASSUME RecordsInvariant, NEW r \in Requests, Insert(r) \/ Sync(r) \/ InsertOwn(r)
    PROVE  RecordsInvariant'
<1> DEFINE a == ask[r]
<1>1. /\ a.kind \in {"login", "session", "settings"} \cup Administrative
      /\ a.kind # "update" => a.whom = {Email(r)}
      /\ Fits(a, pc[r], account[r], entry[r], targets[r])
  BY AskOf
<1>2. CASE Insert(r)
  <2>1. pc[r] = "insert" /\ a.kind = "login" /\ a.whom = {Email(r)}
    BY <1>1, <1>2 DEF Insert, Fits, Path, Administrative
  <2>2. UNCHANGED <<listed, ask, entry, targets>> /\ Goto(r, "reread")
    BY <1>2 DEF Insert, Local
  <2>3. PICK x : /\ users' = users \cup {x}
                 /\ x = IF entry[r] = NoRecord THEN Record(r, r, Email(r), TRUE, "student")
                        ELSE Record(r, r, Email(r), entry[r].active, entry[r].role)
    BY <1>2 DEF Insert
  <2>4. PICK u : account' = [account EXCEPT ![r] = u] /\ u = Record(r, r, Email(r), TRUE, "student")
    BY <1>2 DEF Insert, Reads
  <2>5. New(r, x) /\ New(r, u)
    <3>1. PICK active, role : x = Record(r, r, Email(r), active, role)
      BY <2>3
    <3>2. IsRecord(x) /\ x.oid = r /\ x.id = r /\ x.email = Email(r)
      BY <3>1, RecordIs
    <3>3. IsRecord(u) /\ u.oid = r /\ u.id = r /\ u.email = Email(r)
      BY <2>4 DEF Record, IsRecord, RecordFields
    <3> QED BY <3>2, <3>3 DEF New
  <2>6. u # NoRecord /\ u.email \in a.whom
    BY <2>1, <2>5, NoRecordIsNone DEF New
  <2>7. Fits(a, "reread", u, entry[r], targets[r])
    BY <1>1, <2>1, <2>6 DEF Fits, Path, HasEntry
  <2>8. pc[r] \in Early /\ "reread" \notin Early
    BY <2>1 DEF Early
  <2>9. UNCHANGED <<ask, entry, targets>> /\ (users' = users \cup {x} /\ UNCHANGED listed)
    BY <2>2, <2>3
  <2> QED BY <2>2, <2>9, <2>4, <2>5, <2>7, <2>8, InsertStep
<1>3. CASE Sync(r)
  <2>1. pc[r] = "sync" /\ a.kind = "login"
    <3>1. pc[r] = "sync"
      BY <1>3 DEF Sync
    <3> QED BY <1>1, <3>1 DEF Fits, Path, Administrative
  <2>2. UNCHANGED <<listed, ask, account, entry, targets>> /\ Goto(r, "reread")
    BY <1>3 DEF Sync, Local
  <2>3. \A x \in users' : \E u \in users : Same(x, u)
    <3>1. users' = {IF u.oid = account[r].oid THEN Put(u, entry[r].active, entry[r].role)
                    ELSE u : u \in users}
      BY <1>3 DEF Sync, Put
    <3>2. \A u \in users : Same(u, u) /\ Same(Put(u, entry[r].active, entry[r].role), u)
      BY StoredAreRecords, PutIs
    <3> QED BY <3>1, <3>2
  <2>4. \A x \in listed' : \E w \in listed : Same(x, w)
    BY <2>2, StoredAreRecords
  <2>5. Fits(a, "reread", account[r], entry[r], targets[r])
    BY <1>1, <2>1 DEF Fits, Path, HasAccount, HasEntry
  <2> QED BY <2>2, <2>3, <2>4, <2>5, WriteStep DEF Early
<1>4. CASE InsertOwn(r)
  <2>1. pc[r] = "insertOwn" /\ a.kind = "settings" /\ a.whom = {Email(r)} /\ account[r] # NoRecord
    BY <1>1, <1>4 DEF InsertOwn, Fits, Path, HasAccount, Administrative
  <2>2. UNCHANGED <<listed, ask, account, entry, targets>> /\ Goto(r, "done")
    BY <1>4 DEF InsertOwn, Local
  <2>3. PICK role : users' = users \cup {[account[r] EXCEPT !.oid = r, !.role = role]}
    BY <1>4 DEF InsertOwn
  <2>4. account[r] \in Known /\ IsRecord(account[r]) /\ account[r].email = Email(r)
    BY <1>1, <2>1, KnownOf DEF Fits, RecordsInvariant, Records
  <2> DEFINE x == [account[r] EXCEPT !.oid = r, !.role = role]
  <2>5. IsRecord(x) /\ x.oid = r /\ x.id = account[r].id /\ x.email = account[r].email
    BY <2>4 DEF IsRecord, RecordFields
  <2> HIDE DEF x
  <2>6. New(r, x)
    BY <2>4, <2>5 DEF New
  <2>7. account' = [account EXCEPT ![r] = account[r]]
    BY <2>2 DEF RecordsInvariant, Types
  <2>8. Fits(a, "done", account[r], entry[r], targets[r])
    BY <1>1 DEF Fits, HasAccount, HasEntry
  <2>9. pc[r] \in Early /\ "done" \notin Early
    BY <2>1 DEF Early
  <2>10. UNCHANGED <<ask, entry, targets>> /\ (users' = users \cup {x} /\ UNCHANGED listed)
    BY <2>2, <2>3 DEF x
  <2>11. PICK u : u = account[r] /\ account' = [account EXCEPT ![r] = u]
                    /\ Fits(a, "done", u, entry[r], targets[r])
    BY <2>7, <2>8
  <2> QED BY <2>2, <2>6, <2>9, <2>10, <2>11, InsertStep
<1> QED BY <1>2, <1>3, <1>4

LEMMA AdministerKeeps ==
    ASSUME RecordsInvariant, NEW r \in Requests, Administer(r)
    PROVE  RecordsInvariant'
<1> DEFINE a == ask[r]
<1>1. /\ a.kind \in {"login", "session", "settings"} \cup Administrative
      /\ Fits(a, pc[r], account[r], entry[r], targets[r])
  BY AskOf
<1>2. CASE Resolve(r)
  <2>1. pc[r] = "resolve" /\ a.kind = "update"
    <3>1. pc[r] = "resolve"
      BY <1>2 DEF Resolve
    <3> QED BY <1>1, <3>1 DEF Fits, Path, Administrative
  <2>2. UNCHANGED <<users, listed, ask, account, entry>>
    BY <1>2 DEF Resolve
  <2>3. PICK found : /\ \A e \in a.whom : found[e] \in Resolved(e)
                     /\ targets' = [targets EXCEPT ![r] = {found[e] : e \in a.whom} \ {NoRecord}]
    BY <1>2 DEF Resolve
  <2>4. PICK T : T = {found[e] : e \in a.whom} \ {NoRecord} /\ targets' = [targets EXCEPT ![r] = T]
    BY <2>3
  <2>5. \A x \in T : Of(x) /\ x.email \in a.whom
    BY <2>3, <2>4, ResolvedOf
  <2>6. PICK place : Goto(r, place) /\ place = IF RefusesSelf(r) THEN "done" ELSE "next"
    BY <1>2 DEF Resolve
  <2>7. Fits(a, place, account[r], entry[r], T)
    BY <1>1, <2>1, <2>5, <2>6 DEF Fits, Path, HasAccount, HasEntry, RefusesSelf
  <2>8. PICK u : /\ account' = [account EXCEPT ![r] = u] /\ (u = NoRecord \/ Of(u))
                 /\ Fits(a, place, u, entry[r], T)
    BY <2>2, <2>7, KnownOf DEF RecordsInvariant, Types, Records
  <2>9. PICK w : /\ entry' = [entry EXCEPT ![r] = w] /\ (w = NoRecord \/ Of(w))
                 /\ Fits(a, place, u, w, T)
    BY <2>2, <2>8, KnownOf DEF RecordsInvariant, Types, Records
  <2>10. place \notin Early /\ UNCHANGED <<users, listed, ask>>
    BY <2>2, <2>6 DEF Early
  <2> QED BY <2>4, <2>5, <2>6, <2>8, <2>9, <2>10, ReadStep
<1>3. CASE NextTarget(r)
  <2>1. pc[r] = "next" /\ a.kind = "update"
    <3>1. pc[r] = "next"
      BY <1>3 DEF NextTarget
    <3> QED BY <1>1, <3>1 DEF Fits, Path, Administrative
  <2>2. UNCHANGED <<users, listed, ask, entry>>
    BY <1>3 DEF NextTarget
  <2>3. CASE targets[r] = {}
    <3>1. Goto(r, "done") /\ UNCHANGED <<users, listed, ask, account, entry, targets>>
      BY <1>3, <2>2, <2>3 DEF NextTarget
    <3>2. Fits(a, "done", account[r], entry[r], targets[r])
      BY <1>1 DEF Fits, HasAccount, HasEntry
    <3> QED BY <3>1, <3>2, MoveStep DEF Early
  <2>4. CASE targets[r] # {}
    <3>1. PICK u \in targets[r] : /\ account' = [account EXCEPT ![r] = u]
                                  /\ targets' = [targets EXCEPT ![r] = @ \ {u}]
                                  /\ Goto(r, "usersById")
      BY <1>3, <2>4 DEF NextTarget, Reads
    <3>2. PICK T : T = targets[r] \ {u} /\ targets' = [targets EXCEPT ![r] = T]
      BY <3>1
    <3>3. Of(u) /\ u # NoRecord /\ u.email \in a.whom /\ \A x \in T : Of(x)
      BY <1>1, <3>1, <3>2, KnownOf DEF RecordsInvariant, Records, Fits
    <3>4. Fits(a, "usersById", u, entry[r], T)
      BY <1>1, <2>1, <3>2, <3>3 DEF Fits, Path, HasEntry
    <3>5. PICK w : /\ entry' = [entry EXCEPT ![r] = w] /\ (w = NoRecord \/ Of(w))
                   /\ Fits(a, "usersById", u, w, T)
      BY <2>2, <3>4, KnownOf DEF RecordsInvariant, Types, Records
    <3>6. "usersById" \notin Early /\ UNCHANGED <<users, listed, ask>>
      BY <2>2 DEF Early
    <3> QED BY <3>1, <3>2, <3>3, <3>5, <3>6, ReadStep
  <2> QED BY <2>3, <2>4
<1>4. CASE WriteTarget(r)
  <2>1. pc[r] \in {"usersById", "listedById", "usersByEmail", "listedByEmail"} /\ a.kind = "update"
    <3>1. pc[r] \in {"usersById", "listedById", "usersByEmail", "listedByEmail"}
      BY <1>4 DEF WriteTarget, Steps
    <3> QED BY <1>1, <3>1 DEF Fits, Path, Administrative
  <2>2. UNCHANGED <<ask, account, entry, targets>>
    BY <1>4 DEF WriteTarget, Local
  <2>3. PICK place \in {"listedById", "usersByEmail", "listedByEmail", "link", "next"} : Goto(r, place)
    <3>1. PICK place : /\ Goto(r, place)
                       /\ place = IF Steps[pc[r]] = "link" /\ "active" \notin a.fields
                                  THEN "next" ELSE Steps[pc[r]]
      BY <1>4 DEF WriteTarget
    <3>2. Steps[pc[r]] \in {"listedById", "usersByEmail", "listedByEmail", "link"}
      BY <2>1 DEF Steps
    <3> QED BY <3>1, <3>2
  <2>4. Fits(a, place, account[r], entry[r], targets[r])
    BY <1>1, <2>1, <2>3 DEF Fits, Path, HasAccount, HasEntry
  <2>5. \/ users' \in UpdateOne(users, Matching(users, r), a) /\ UNCHANGED listed
        \/ listed' \in UpdateOne(listed, Matching(listed, r), a) /\ UNCHANGED users
    BY <1>4 DEF WriteTarget
  <2>6. Matching(users, r) \subseteq users /\ Matching(listed, r) \subseteq listed
    BY DEF Matching, WithId, WithEmail
  <2>7. \A x \in users' : \E u \in users : Same(x, u)
    <3>1. CASE users' \in UpdateOne(users, Matching(users, r), a)
      BY <2>6, <3>1, UpdateOneIs, StoredAreRecords
    <3> QED BY <2>5, <3>1, StoredAreRecords
  <2>8. \A x \in listed' : \E u \in listed : Same(x, u)
    <3>1. CASE listed' \in UpdateOne(listed, Matching(listed, r), a)
      BY <2>6, <3>1, UpdateOneIs, StoredAreRecords
    <3> QED BY <2>5, <3>1, StoredAreRecords
  <2>9. place \notin Early
    BY <2>3 DEF Early
  <2> QED BY <2>2, <2>3, <2>4, <2>7, <2>8, <2>9, WriteStep
<1>5. CASE Link(r)
  <2>1. pc[r] = "link" /\ a.kind = "update" /\ account[r] # NoRecord
    <3>1. pc[r] = "link"
      BY <1>5 DEF Link
    <3> QED BY <1>1, <3>1 DEF Fits, Path, HasAccount, Administrative
  <2>2. UNCHANGED <<users, listed, ask, entry, targets>> /\ Goto(r, "scan")
    BY <1>5 DEF Link, Local
  <2>3. PICK u : /\ account' = [account EXCEPT ![r] = u]
                 /\ \/ u = account[r]
                    \/ u # NoRecord /\ u \in FindOne(WithEmail(users, account[r].email))
    BY <1>5 DEF Link, Reads
  <2>4. Of(u) /\ u # NoRecord /\ u.email = account[r].email
    BY <2>1, <2>3, FoundOf, KnownOf DEF RecordsInvariant, Records
  <2>5. Fits(a, "scan", u, entry[r], targets[r])
    BY <1>1, <2>1, <2>4 DEF Fits, Path, HasEntry
  <2> QED BY <2>2, <2>3, <2>4, <2>5, AccountStep DEF Early
<1>6. CASE Scan(r) \/ FollowKey(r)
  <2>1. pc[r] \in {"scan", "keys"}
    BY <1>6 DEF Scan, FollowKey
  <2>2. UNCHANGED <<users, listed, ask, account, entry, targets>>
    BY <1>6 DEF Scan, FollowKey
  <2>3. \/ UNCHANGED pc
        \/ \E place : Goto(r, place) /\ \/ place = "keys"
                                        \/ place = "next" /\ a.kind = "update"
                                        \/ place = "done"
    BY <1>6 DEF Scan, FollowKey
  <2>4. PICK place : Goto(r, place) /\ \/ place \in {"keys", "done"}
                                       \/ place = "next" /\ a.kind = "update"
                                       \/ place = pc[r]
    BY <2>3 DEF Goto, RecordsInvariant, Types
  <2>5. Fits(a, place, account[r], entry[r], targets[r])
    BY <1>1, <2>1, <2>4 DEF Fits, Path, HasAccount, HasEntry, Administrative
  <2>6. place \notin Early
    BY <2>1, <2>4 DEF Early
  <2> QED BY <2>2, <2>4, <2>5, <2>6, MoveStep
<1> QED BY <1>2, <1>3, <1>4, <1>5, <1>6 DEF Administer

LEMMA WhitelistKeeps ==
    ASSUME RecordsInvariant, NEW r \in Requests, Whitelist(r)
    PROVE  RecordsInvariant'
<1> DEFINE a == ask[r]
<1>1. /\ a.kind \in {"login", "session", "settings"} \cup Administrative
      /\ a.kind # "update" => a.whom = {Email(r)}
      /\ a.kind \in {"addListed", "patchListed", "dropListed"} => a.whom \subseteq Guests
      /\ Fits(a, pc[r], account[r], entry[r], targets[r])
  BY AskOf
<1>2. CASE FindListed(r)
  <2>1. /\ pc[r] = "findListed" /\ a.whom = {Email(r)}
        /\ a.kind \in {"login", "addListed", "patchListed", "dropListed"}
    <3>1. pc[r] = "findListed"
      BY <1>2 DEF FindListed
    <3> QED BY <1>1, <3>1 DEF Fits, Path, Administrative
  <2>2. UNCHANGED <<users, listed, ask, account, targets>>
    BY <1>2 DEF FindListed
  <2>3. PICK w \in FindOne(WithEmail(listed, Email(r))) :
          /\ entry' = [entry EXCEPT ![r] = w]
          /\ Goto(r, IF (w = NoRecord) = (a.kind = "addListed")
                     THEN AfterListed[a.kind] ELSE "done")
    BY <1>2 DEF FindListed
  <2>4. PICK place : /\ Goto(r, place)
                     /\ \/ place = "list" /\ a.kind = "addListed"
                        \/ place = "done"
                        \/ place = "find" /\ a.kind = "login"
                        \/ place = "patch" /\ a.kind = "patchListed" /\ w # NoRecord
                        \/ place = "drop" /\ a.kind = "dropListed" /\ w # NoRecord
    BY <2>1, <2>3 DEF AfterListed
  <2>5. w = NoRecord \/ (Of(w) /\ w.email \in a.whom /\ w.email \in Guests)
    BY <2>1, FoundOf
  <2>6. Fits(a, place, account[r], w, targets[r])
    BY <1>1, <2>4, <2>5 DEF Fits, Path, HasAccount, HasEntry
  <2>7. PICK u : /\ account' = [account EXCEPT ![r] = u] /\ (u = NoRecord \/ Of(u))
                 /\ Fits(a, place, u, w, targets[r])
    BY <2>2, <2>6, KnownOf DEF RecordsInvariant, Types, Records
  <2>8. PICK T : /\ targets' = [targets EXCEPT ![r] = T] /\ (\A x \in T : Of(x))
                 /\ Fits(a, place, u, w, T)
    BY <2>2, <2>7, KnownOf DEF RecordsInvariant, Types, Records
  <2>9. pc[r] \in Early /\ UNCHANGED <<users, listed, ask>>
    BY <2>1, <2>2 DEF Early
  <2> QED BY <2>3, <2>4, <2>5, <2>7, <2>8, <2>9, ReadStep
<1>3. CASE Create(r) \/ List(r)
  <2>1. /\ pc[r] \in {"create", "list"} /\ a.whom = {Email(r)}
        /\ List(r) => Email(r) \in Guests
    <3>1. pc[r] \in {"create", "list"} /\ (List(r) => pc[r] = "list")
      BY <1>3 DEF Create, List
    <3> QED BY <1>1, <3>1 DEF Fits, Path, Administrative
  <2>2. UNCHANGED <<ask, account, entry, targets>> /\ Goto(r, "done")
    BY <1>3 DEF Create, List, Local
  <2>3. PICK active : active = TRUE
    OBVIOUS
  <2>4. PICK x : /\ x = Record(r, r, Email(r), active, a.role)
                 /\ \/ users' = users \cup {x} /\ UNCHANGED listed
                    \/ listed' = listed \cup {x} /\ UNCHANGED users /\ List(r)
    BY <1>3, <2>3 DEF Create, List
  <2>5. IsRecord(x) /\ x.oid = r /\ x.id = r /\ x.email = Email(r)
    BY <2>4, RecordIs
  <2>6. New(r, x) /\ (List(r) => x.email \in Guests)
    BY <2>1, <2>5 DEF New
  <2>7. Fits(a, "done", account[r], entry[r], targets[r])
    BY <1>1 DEF Fits, HasAccount, HasEntry
  <2>8. PICK u : /\ u = account[r] /\ account' = [account EXCEPT ![r] = u]
                 /\ Fits(a, "done", u, entry[r], targets[r])
    BY <2>2, <2>7 DEF RecordsInvariant, Types
  <2>9. pc[r] \in Early /\ "done" \notin Early /\ UNCHANGED <<ask, entry, targets>>
    BY <2>1, <2>2 DEF Early
  <2> QED BY <2>2, <2>4, <2>6, <2>8, <2>9, InsertStep
<1>4. CASE PatchListed(r) \/ DropListed(r)
  <2>1. pc[r] \in {"patch", "drop"} /\ a.kind \in {"patchListed", "dropListed"}
    <3>1. pc[r] \in {"patch", "drop"}
      BY <1>4 DEF PatchListed, DropListed
    <3> QED BY <1>1, <3>1 DEF Fits, Path, Administrative
  <2>2. UNCHANGED <<users, ask, account, entry, targets>> /\ Goto(r, "linkListed")
    BY <1>4 DEF PatchListed, DropListed, Local
  <2>3. \A x \in listed' : \E w \in listed : Same(x, w)
    <3>1. \A w \in listed : Same(w, w) /\ Same(Changed(w, a), w)
      BY StoredAreRecords, ChangedIs
    <3>2. CASE PatchListed(r)
      BY <3>1, <3>2 DEF PatchListed
    <3>3. CASE DropListed(r)
      BY <3>1, <3>3 DEF DropListed
    <3> QED BY <1>4, <3>2, <3>3
  <2>4. \A x \in users' : \E u \in users : Same(x, u)
    BY <2>2, StoredAreRecords
  <2>5. Fits(a, "linkListed", account[r], entry[r], targets[r])
    BY <1>1, <2>1 DEF Fits, Path, HasAccount, HasEntry
  <2> QED BY <2>2, <2>3, <2>4, <2>5, WriteStep DEF Early
<1>5. CASE LinkListed(r)
  <2>1. pc[r] = "linkListed" /\ a.kind \in {"patchListed", "dropListed"} /\ entry[r] # NoRecord
    <3>1. pc[r] = "linkListed"
      BY <1>5 DEF LinkListed
    <3> QED BY <1>1, <3>1 DEF Fits, Path, HasEntry, Administrative
  <2>2. UNCHANGED <<users, listed, ask, entry, targets>> /\ Goto(r, "changeLinked")
    BY <1>5 DEF LinkListed, Local
  <2>3. PICK u \in FindOne(WithEmail(users, entry[r].email)) : account' = [account EXCEPT ![r] = u]
    BY <1>5 DEF LinkListed, Reads
  <2>4. u = NoRecord \/ (Of(u) /\ u.email = entry[r].email)
    BY FoundOf
  <2>5. Fits(a, "changeLinked", u, entry[r], targets[r])
    BY <1>1, <2>1, <2>4 DEF Fits, Path, HasAccount, HasEntry
  <2> QED BY <2>2, <2>3, <2>4, <2>5, AccountStep DEF Early
<1>6. CASE ChangeLinked(r)
  <2>1. pc[r] = "changeLinked" /\ a.kind \in {"patchListed", "dropListed"}
    <3>1. pc[r] = "changeLinked"
      BY <1>6 DEF ChangeLinked
    <3> QED BY <1>1, <3>1 DEF Fits, Path, Administrative
  <2>2. UNCHANGED <<listed, ask, account, entry, targets>>
    BY <1>6 DEF ChangeLinked, Local
  <2>3. PICK place : Goto(r, place) /\ ((place = "scan" /\ account[r] # NoRecord) \/ place = "done")
    BY <1>6 DEF ChangeLinked
  <2>4. \A x \in users' : \E u \in users : Same(x, u)
    <3>1. WithEmail(users, entry[r].email) \subseteq users
      BY DEF WithEmail
    <3>2. users' \in UpdateOne(users, WithEmail(users, entry[r].email), Change(r))
      BY <1>6 DEF ChangeLinked
    <3> QED BY <3>1, <3>2, UpdateOneIs, StoredAreRecords
  <2>5. \A x \in listed' : \E w \in listed : Same(x, w)
    BY <2>2, StoredAreRecords
  <2>6. Fits(a, place, account[r], entry[r], targets[r])
    BY <1>1, <2>1, <2>3 DEF Fits, Path, HasAccount, HasEntry
  <2> QED BY <2>2, <2>3, <2>4, <2>5, <2>6, WriteStep DEF Early
<1> QED BY <1>2, <1>3, <1>4, <1>5, <1>6 DEF Whitelist

LEMMA StartKeeps ==
    ASSUME RecordsInvariant, NEW r \in Requests, Start(r) \/ Crash(r)
    PROVE  RecordsInvariant'
<1> DEFINE a == ask[r]
<1>1. /\ a.kind \in {"login", "session", "settings"} \cup Administrative
      /\ Fits(a, pc[r], account[r], entry[r], targets[r])
  BY AskOf
<1>2. UNCHANGED <<users, listed, ask, account, entry, targets>>
  BY DEF Start, Crash, Local
<1>3. CASE Crash(r)
  <2>1. Fits(a, "done", account[r], entry[r], targets[r]) /\ Goto(r, "done")
    BY <1>1, <1>3 DEF Crash, Fits, HasAccount, HasEntry
  <2> QED BY <1>2, <2>1, MoveStep DEF Early
<1>4. CASE Start(r)
  <2>1. PICK place \in {FirstPlace(r), "done"} : Goto(r, place) /\ pc[r] = "idle"
    BY <1>4 DEF Start
  <2>2. /\ place \in Path[a.kind] \cup {"done"}
        /\ place \in {"findListed", "find", "resolve", "create", "done"}
        /\ a.kind = "update" => place \in {"resolve", "done"}
    <3>1. CASE a.kind = "login"
      BY <2>1, <3>1 DEF FirstPlace, Path
    <3>5. CASE a.kind \in {"session", "settings"}
      BY <2>1, <3>5 DEF FirstPlace, Path
    <3>2. CASE a.kind = "update"
      BY <2>1, <3>2 DEF FirstPlace, Path
    <3>3. CASE a.kind = "createUser"
      BY <2>1, <3>3 DEF FirstPlace, Path
    <3>4. CASE a.kind \in {"addListed", "patchListed", "dropListed"}
      BY <2>1, <3>4 DEF FirstPlace, Path
    <3> QED BY <1>1, <3>1, <3>2, <3>3, <3>4, <3>5 DEF Administrative
  <2>3. Fits(a, place, account[r], entry[r], targets[r])
    BY <1>1, <2>2 DEF Fits, HasAccount, HasEntry
  <2>4. pc[r] \in Early
    BY <2>1 DEF Early
  <2> QED BY <1>2, <2>1, <2>3, <2>4, MoveStep
<1> QED BY <1>3, <1>4

\* The records stay sound: ids tell whose a record is, a request works only on
\* those whom it concerns, and the whitelist has guests only.
THEOREM RecordsStaySound == AccountsSpec => []RecordsInvariant
<1>1. AccountsInit => RecordsInvariant
  <2> SUFFICES ASSUME AccountsInit PROVE RecordsInvariant
    OBVIOUS
  <2>1. /\ users = FirstUsers /\ listed = FirstListed /\ ask \in [Requests -> Asks]
        /\ pc = [r \in Requests |-> "idle"]
        /\ account = [r \in Requests |-> NoRecord] /\ entry = [r \in Requests |-> NoRecord]
        /\ targets = [r \in Requests |-> {}]
    BY DEF AccountsInit
  <2>2. Known = FirstUsers \cup FirstListed
    BY <2>1 DEF Known
  <2>3. Records
    BY <2>1, <2>2, FirstRecordsAssumption
       DEF Records, RecordsAreRecords, IdsTell, IdsAreIds, NewRecordsFresh, StoredHaveIds,
           GuestsListed
  <2>4. RequestsFit
    BY <2>1 DEF RequestsFit, Fits, HasAccount, HasEntry
  <2> QED BY <2>1, <2>3, <2>4 DEF RecordsInvariant, Types
<1>2. RecordsInvariant /\ [AccountsNext]_accountVars => RecordsInvariant'
  <2> SUFFICES ASSUME RecordsInvariant, [AccountsNext]_accountVars PROVE RecordsInvariant'
    OBVIOUS
  <2>1. ASSUME NEW r \in Requests, SignIn(r) PROVE RecordsInvariant'
    BY <2>1, SignInReads, SignInWrites DEF SignIn
  <2>2. CASE UNCHANGED accountVars
    BY <2>2 DEF accountVars, RecordsInvariant, Types, Records, RecordsAreRecords, IdsTell,
                IdsAreIds, NewRecordsFresh, StoredHaveIds, GuestsListed, RequestsFit, Known
  <2> QED BY <2>1, <2>2, AdministerKeeps, WhitelistKeeps, StartKeeps DEF AccountsNext
<1> QED BY <1>1, <1>2, PTL DEF AccountsSpec

-----------------------------------------------------------------------------
(***************************************************************************)
(* There is always an active administrator.                                *)
(***************************************************************************)
HasAccess(e) == \E u \in users : u.email = e /\ u.active /\ u.role = "admin"
SomeAdmin == \E e \in Members : HasAccess(e)

\* A change has nobody in common with another request.
Apart ==
    \A r, q \in Requests :
        r # q /\ UnderWay(r) /\ UnderWay(q) /\ Changes(r) => Concerned(r) \cap Concerned(q) = {}
AskersOfUniversity == \A r \in Requests : Changes(r) => ask[r].by \in Members
AskersHaveAccess == \A r \in Requests : UnderWay(r) /\ Changes(r) => HasAccess(ask[r].by)

AdminInvariant ==
    /\ AskersOfUniversity
    /\ crossed = {} => Apart /\ AskersHaveAccess /\ SomeAdmin

\* A step of r.
StepOf(r) == Start(r) \/ SignIn(r) \/ Administer(r) \/ Whitelist(r) \/ Crash(r)

\* What every step does to the places.
LEMMA PlacesOf ==
    ASSUME Types, NEW r \in Requests, StepOf(r)
    PROVE  /\ UNCHANGED ask /\ crossed \subseteq crossed'
           /\ \A q \in Requests \ {r} : pc'[q] = pc[q]
           /\ pc[r] # "done"
           /\ Start(r) \/ (UnderWay(r) /\ UNCHANGED crossed)
<1>1. ASSUME Start(r)
      PROVE  /\ UNCHANGED ask /\ crossed \subseteq crossed' /\ pc[r] # "done"
             /\ \A q \in Requests \ {r} : pc'[q] = pc[q]
  BY <1>1 DEF Start, Goto, Types
<1>2. ASSUME SignIn(r)
      PROVE  /\ UNCHANGED <<ask, crossed>> /\ UnderWay(r)
             /\ \A q \in Requests \ {r} : pc'[q] = pc[q]
  <2>1. CASE Find(r)
    BY <2>1 DEF Find, Goto, Types, History, UnderWay
  <2>2. CASE FindStandIn(r) \/ Insert(r)
    BY <2>2 DEF FindStandIn, Insert, Goto, Types, History, UnderWay
  <2>3. CASE Sync(r)
    BY <2>3 DEF Sync, Goto, Types, History, UnderWay
  <2>4. CASE Reread(r) \/ FindOwn(r) \/ InsertOwn(r)
    BY <2>4 DEF Reread, FindOwn, InsertOwn, Goto, Types, History, UnderWay
  <2>5. CASE FindKey(r) \/ StoreKey(r)
    BY <2>5 DEF FindKey, StoreKey, Goto, Types, History, UnderWay
  <2> QED BY <1>2, <2>1, <2>2, <2>3, <2>4, <2>5 DEF SignIn
<1>3. ASSUME Administer(r)
      PROVE  /\ UNCHANGED <<ask, crossed>> /\ UnderWay(r)
             /\ \A q \in Requests \ {r} : pc'[q] = pc[q]
  <2>1. CASE Resolve(r)
    BY <2>1 DEF Resolve, Goto, Types, History, UnderWay
  <2>2. CASE NextTarget(r)
    BY <2>2 DEF NextTarget, Goto, Types, History, UnderWay
  <2>3. CASE WriteTarget(r)
    <3>1. UNCHANGED <<ask, crossed>> /\ pc[r] \in DOMAIN Steps /\ \E place : Goto(r, place)
      BY <2>3 DEF WriteTarget, History
    <3> QED BY <3>1 DEF Steps, Goto, Types, UnderWay
  <2>4. CASE Link(r)
    BY <2>4 DEF Link, Goto, Types, History, UnderWay
  <2>5. CASE Scan(r) \/ FollowKey(r)
    BY <2>5 DEF Scan, FollowKey, Goto, Types, History, UnderWay
  <2> QED BY <1>3, <2>1, <2>2, <2>3, <2>4, <2>5 DEF Administer
<1>4. ASSUME Whitelist(r)
      PROVE  /\ UNCHANGED <<ask, crossed>> /\ UnderWay(r)
             /\ \A q \in Requests \ {r} : pc'[q] = pc[q]
  <2>1. CASE FindListed(r)
    BY <2>1 DEF FindListed, Goto, Types, History, UnderWay
  <2>2. CASE Create(r) \/ List(r)
    BY <2>2 DEF Create, List, Goto, Types, UnderWay
  <2>3. CASE PatchListed(r)
    BY <2>3 DEF PatchListed, Goto, Types, History, UnderWay
  <2>4. CASE DropListed(r)
    BY <2>4 DEF DropListed, Goto, Types, History, UnderWay
  <2>5. CASE LinkListed(r) \/ ChangeLinked(r)
    BY <2>5 DEF LinkListed, ChangeLinked, Goto, Types, History, UnderWay
  <2> QED BY <1>4, <2>1, <2>2, <2>3, <2>4, <2>5 DEF Whitelist
<1>5. ASSUME Crash(r)
      PROVE  /\ UNCHANGED <<ask, crossed>> /\ UnderWay(r)
             /\ \A q \in Requests \ {r} : pc'[q] = pc[q]
  BY <1>5 DEF Crash, Goto, Types
<1>6. UnderWay(r) => pc[r] # "done"
  BY DEF UnderWay
<1> QED BY <1>1, <1>2, <1>3, <1>4, <1>5, <1>6 DEF StepOf

\* A step leaves alone what the others have read.
LEMMA LocalsOf ==
    ASSUME RecordsInvariant, NEW r \in Requests, StepOf(r)
    PROVE  /\ UNCHANGED ask
           /\ crossed \subseteq crossed' /\ cut \subseteq cut'
           /\ \A q \in Requests \ {r} :
                 pc'[q] = pc[q] /\ account'[q] = account[q] /\ entry'[q] = entry[q]
<1>1. /\ UNCHANGED ask /\ crossed \subseteq crossed'
      /\ \A q \in Requests \ {r} : pc'[q] = pc[q]
  BY PlacesOf DEF RecordsInvariant
<1>2. /\ account = [q \in Requests |-> account[q]] /\ entry = [q \in Requests |-> entry[q]]
  BY DEF RecordsInvariant, Types
<1>3. CASE SignIn(r)
  <2>1. UNCHANGED <<entry, cut>> /\ (UNCHANGED account \/ \E u : Reads(r, u))
    <3>1. CASE Find(r)
      BY <3>1 DEF Find, Local, History
    <3>2. CASE FindStandIn(r)
      BY <3>2 DEF FindStandIn, Local, History
    <3>3. CASE Reread(r)
      BY <3>3 DEF Reread, Local, History
    <3>4. CASE Insert(r) \/ Sync(r) \/ FindOwn(r) \/ InsertOwn(r)
      BY <3>4 DEF Insert, Sync, FindOwn, InsertOwn, Local, History
    <3>5. CASE FindKey(r) \/ StoreKey(r)
      BY <3>5 DEF FindKey, StoreKey, Local, History
    <3> QED BY <1>3, <3>1, <3>2, <3>3, <3>4, <3>5 DEF SignIn
  <2> QED BY <1>1, <1>2, <2>1 DEF Reads
<1>4. CASE Administer(r)
  <2>1. UNCHANGED <<entry, cut>> /\ (UNCHANGED account \/ \E u : Reads(r, u))
    <3>1. CASE Resolve(r) \/ NextTarget(r)
      BY <3>1 DEF Resolve, NextTarget, Local, History
    <3>2. CASE WriteTarget(r) \/ Scan(r)
      BY <3>2 DEF WriteTarget, Scan, Local, History
    <3>3. CASE Link(r)
      BY <3>3 DEF Link, Local, History
    <3>4. CASE FollowKey(r)
      BY <3>4 DEF FollowKey, Local, History
    <3> QED BY <1>4, <3>1, <3>2, <3>3, <3>4 DEF Administer
  <2> QED BY <1>1, <1>2, <2>1 DEF Reads
<1>5. CASE Whitelist(r)
  <2>1. /\ UNCHANGED account \/ \E u : Reads(r, u)
        /\ UNCHANGED entry \/ \E w : entry' = [entry EXCEPT ![r] = w]
        /\ cut \subseteq cut'
    <3>1. CASE FindListed(r)
      BY <3>1 DEF FindListed, Local, History
    <3>2. CASE Create(r) \/ List(r)
      BY <3>2 DEF Create, List, Alone, Local, History
    <3>3. CASE PatchListed(r) \/ DropListed(r)
      BY <3>3 DEF PatchListed, DropListed, Local, History
    <3>4. CASE LinkListed(r)
      BY <3>4 DEF LinkListed, Local, History
    <3>5. CASE ChangeLinked(r)
      BY <3>5 DEF ChangeLinked, Local, History
    <3> QED BY <1>5, <3>1, <3>2, <3>3, <3>4, <3>5 DEF Whitelist
  <2> QED BY <1>1, <1>2, <2>1 DEF Reads
<1>6. CASE Start(r) \/ Crash(r)
  BY <1>1, <1>2, <1>6 DEF Start, Crash, Local, History
<1> QED BY <1>3, <1>4, <1>5, <1>6 DEF StepOf

\* update_one takes an administrator's access only from one of those it matches.
LEMMA UpdateTakes ==
    ASSUME RecordsInvariant, NEW matching, matching \subseteq users, NEW a,
           users' \in UpdateOne(users, matching, a), NEW e, HasAccess(e),
           ~TakesAccess(a) \/ \A u \in matching : u.email # e
    PROVE  HasAccess(e)'
<1>1. PICK u \in users : u.email = e /\ u.active /\ u.role = "admin"
  BY DEF HasAccess
<1>2. CASE u \in users'
  BY <1>1, <1>2 DEF HasAccess
<1>3. CASE u \notin users'
  <2>1. u \in matching /\ Changed(u, a) \in users'
    BY <1>1, <1>3 DEF UpdateOne
  <2>2. ~TakesAccess(a)
    BY <1>1, <2>1
  <2>3. /\ Changed(u, a).email = e
        /\ Changed(u, a).active = IF "active" \in a.fields THEN a.active ELSE u.active
        /\ Changed(u, a).role = IF "role" \in a.fields THEN a.role ELSE u.role
    <3>1. IsRecord(u)
      BY <1>1, StoredAreRecords
    <3>2. Same(Changed(u, a), u)
      BY <3>1, ChangedIs
    <3>3. Changed(u, a).email = e
      BY <1>1, <3>2 DEF Same
    <3> QED BY <3>1, <3>3, ChangedIs
  <2>4. Changed(u, a).active /\ Changed(u, a).role = "admin"
    BY <1>1, <2>2, <2>3 DEF TakesAccess
  <2> QED BY <2>1, <2>3, <2>4 DEF HasAccess
<1> QED BY <1>2, <1>3

\* Only an administrator's change takes the access of one of the university, and
\* never his own.
LEMMA AccessTaken ==
    ASSUME RecordsInvariant, NEW r \in Requests, StepOf(r),
           NEW e \in Members, HasAccess(e)
    PROVE  HasAccess(e)' \/ (UnderWay(r) /\ Changes(r) /\ e \in ask[r].whom \ {ask[r].by})
<1> DEFINE a == ask[r]
<1>1. Fits(a, pc[r], account[r], entry[r], targets[r])
        /\ a.kind \in {"login", "session", "settings"} \cup Administrative
        /\ (a.kind # "update" => a.whom = {Email(r)})
  BY AskOf
<1>2. e \notin Guests
  BY EmailsAssumption
<1>3. ASSUME users \subseteq users' PROVE HasAccess(e)'
  BY <1>3 DEF HasAccess
<1>4. CASE Sync(r)
  <2>1. pc[r] = "sync"
    BY <1>4 DEF Sync
  <2>2. a.kind = "login" /\ account[r] # NoRecord /\ entry[r] # NoRecord
    BY <1>1, <2>1 DEF Fits, Path, HasAccount, HasEntry, Administrative
  <2>3. account[r].email \in Guests
    BY <1>1, <2>2 DEF Fits
  <2>4. PICK u \in users : u.email = e /\ u.active /\ u.role = "admin"
    BY DEF HasAccess
  <2>5. u.oid # account[r].oid
    <3>1. u \in Known /\ account[r] \in Known /\ u.oid # NoId
      BY <2>2, KnownOf DEF RecordsInvariant, Records, StoredHaveIds
    <3> QED BY <1>2, <2>3, <2>4, <3>1 DEF RecordsInvariant, Records, IdsTell
  <2>6. u \in users'
    BY <1>4, <2>5 DEF Sync
  <2> QED BY <2>4, <2>6 DEF HasAccess
<1>5. CASE WriteTarget(r)
  <2>1. pc[r] \in {"usersById", "listedById", "usersByEmail", "listedByEmail"}
    BY <1>5 DEF WriteTarget, Steps
  <2>2. a.kind = "update" /\ account[r] # NoRecord /\ UnderWay(r) /\ Changes(r)
    BY <1>1, <2>1 DEF Fits, Path, HasAccount, Administrative, UnderWay, Changes
  <2>3. account[r].email \in a.whom /\ ~(TakesAccess(a) /\ a.by \in a.whom)
    BY <1>1, <2>1, <2>2 DEF Fits
  <2>4. UNCHANGED users \/ users' \in UpdateOne(users, Matching(users, r), a)
    BY <1>5 DEF WriteTarget
  <2>5. ASSUME NEW u \in Matching(users, r) PROVE u \in users /\ u.email = account[r].email
    <3>1. u \in users /\ (u.id = account[r].id \/ u.email = account[r].email)
      BY DEF Matching, WithId, WithEmail
    <3>2. u \in Known /\ account[r] \in Known
      BY <2>2, <3>1, KnownOf DEF RecordsInvariant, Records
    <3> QED BY <3>1, <3>2 DEF RecordsInvariant, Records, IdsTell
  <2>6. CASE e = account[r].email /\ e # a.by
    BY <2>2, <2>3, <2>6
  <2>7. CASE e # account[r].email \/ e = a.by
    <3>1. ~TakesAccess(a) \/ \A u \in Matching(users, r) : u.email # e
      BY <2>3, <2>5, <2>7
    <3>2. CASE users' \in UpdateOne(users, Matching(users, r), a)
      BY <2>5, <3>1, <3>2, UpdateTakes
    <3> QED BY <1>3, <2>4, <3>2
  <2> QED BY <2>6, <2>7
<1>6. CASE ChangeLinked(r)
  <2>1. pc[r] = "changeLinked" /\ users' \in UpdateOne(users, WithEmail(users, entry[r].email), Change(r))
    BY <1>6 DEF ChangeLinked
  <2>2. entry[r] # NoRecord /\ entry[r].email \in Guests
    BY <1>1, <2>1 DEF Fits, HasEntry
  <2>3. /\ WithEmail(users, entry[r].email) \subseteq users
        /\ \A u \in WithEmail(users, entry[r].email) : u.email # e
    BY <1>2, <2>2 DEF WithEmail
  <2> QED BY <2>1, <2>3, UpdateTakes
<1>7. CASE ~Sync(r) /\ ~WriteTarget(r) /\ ~ChangeLinked(r)
  <2>1. users \subseteq users'
    <3>1. CASE SignIn(r)
      BY <1>7, <3>1 DEF SignIn, Find, FindStandIn, Insert, Reread, FindOwn, InsertOwn, FindKey, StoreKey
    <3>2. CASE Administer(r)
      BY <1>7, <3>2 DEF Administer, Resolve, NextTarget, Link, Scan, FollowKey
    <3>3. CASE Whitelist(r)
      BY <1>7, <3>3 DEF Whitelist, FindListed, Create, List, PatchListed, DropListed, LinkListed
    <3> QED BY <3>1, <3>2, <3>3 DEF StepOf, Start, Crash
  <2> QED BY <1>3, <2>1
<1> QED BY <1>4, <1>5, <1>6, <1>7

\* Whoever is let through to a change has access.
LEMMA LetThrough ==
    ASSUME RecordsInvariant, NEW r \in Requests, AskersOfUniversity, Start(r), UnderWay(r)', Changes(r)
    PROVE  HasAccess(ask[r].by)
<1>1. PICK u \in Resolved(ask[r].by) : Goto(r, IF MayAsk(r, u) THEN FirstPlace(r) ELSE "done")
  BY DEF Start, Requester
<1>2. MayAsk(r, u)
  BY <1>1 DEF Goto, RecordsInvariant, Types, UnderWay
<1>3. u # NoRecord /\ u.active /\ u.role = "admin"
  BY <1>2 DEF MayAsk, Changes, Administrative
<1>4. WithEmail(listed, ask[r].by) = {}
  BY EmailsAssumption DEF AskersOfUniversity, WithEmail, RecordsInvariant, Records, GuestsListed
<1>5. u \in users /\ u.email = ask[r].by
  BY <1>1, <1>3, <1>4 DEF Resolved, FindOne, WithEmail
<1> QED BY <1>3, <1>5 DEF HasAccess

LEMMA AdminKept ==
    ASSUME RecordsInvariant, AdminInvariant, NEW r \in Requests, StepOf(r)
    PROVE  AdminInvariant'
<1>1. /\ UNCHANGED ask /\ crossed \subseteq crossed'
      /\ \A q \in Requests \ {r} : pc'[q] = pc[q]
      /\ Start(r) \/ (UnderWay(r) /\ UNCHANGED crossed)
  BY PlacesOf DEF RecordsInvariant
<1>2. \A q \in Requests :
        /\ (Changes(q))' = Changes(q) /\ Concerned(q)' = Concerned(q)
        /\ UnderWay(q)' => UnderWay(q) \/ (q = r /\ Start(r))
        /\ ask[q].by \in Concerned(q) \/ ~Changes(q)
        /\ ask[q].whom \subseteq Concerned(q)
  BY <1>1 DEF Changes, Concerned, UnderWay
<1>3. AskersOfUniversity'
  BY <1>1 DEF AdminInvariant, AskersOfUniversity, Changes
<1>4. ASSUME crossed' = {} PROVE (Apart /\ AskersHaveAccess /\ SomeAdmin)'
  <2>1. Apart /\ AskersHaveAccess /\ SomeAdmin /\ AskersOfUniversity
    BY <1>1, <1>4 DEF AdminInvariant
  <2>2. Apart'
    <3>1. Start(r) => Overlaps(r) = {}
      BY <1>4 DEF Start
    <3>2. ASSUME Start(r), NEW q \in Requests \ {r}, UnderWay(q), Changes(q) \/ Changes(r)
          PROVE  Concerned(r) \cap Concerned(q) = {}
      BY <3>1, <3>2 DEF Overlaps
    <3> QED BY <1>2, <2>1, <3>2 DEF Apart
  <2>3. AskersHaveAccess'
    <3> SUFFICES ASSUME NEW q \in Requests, UnderWay(q)', Changes(q)
                 PROVE  HasAccess(ask[q].by)'
      BY <1>1, <1>2 DEF AskersHaveAccess
    <3>1. HasAccess(ask[q].by) /\ ask[q].by \in Members
      BY <1>2, <2>1, LetThrough DEF AskersHaveAccess, AskersOfUniversity
    <3>2. CASE UnderWay(q)
      <4>1. q # r /\ UnderWay(r) /\ Changes(r) => ask[q].by \notin ask[r].whom
        BY <1>2, <2>1, <3>2 DEF Apart
      <4>2. q = r => ask[q].by \notin ask[r].whom \ {ask[r].by}
        OBVIOUS
      <4>3. PICK e : e = ask[q].by /\ e \in Members /\ HasAccess(e)
                       /\ ~(UnderWay(r) /\ Changes(r) /\ e \in ask[r].whom \ {ask[r].by})
        BY <3>1, <4>1, <4>2
      <4>4. HasAccess(e)'
        BY <4>3, AccessTaken
      <4>5. e = (ask[q].by)'
        BY <1>1, <4>3
      <4> QED BY <4>4, <4>5
    <3>3. CASE q = r /\ Start(r)
      <4>1. ask'[q].by = ask[q].by /\ users' = users
        BY <3>3 DEF Start
      <4> QED BY <3>1, <4>1 DEF HasAccess
    <3> QED BY <1>2, <3>2, <3>3
  <2>4. SomeAdmin'
    <3>1. CASE UnderWay(r) /\ Changes(r)
      <4>1. PICK e \in Members : HasAccess(e) /\ e = ask[r].by
        BY <2>1, <3>1 DEF AskersHaveAccess, AskersOfUniversity
      <4>2. HasAccess(e)'
        BY <4>1, AccessTaken
      <4> QED BY <4>2 DEF SomeAdmin
    <3>2. CASE ~(UnderWay(r) /\ Changes(r))
      <4>1. PICK e \in Members : HasAccess(e)
        BY <2>1 DEF SomeAdmin
      <4>2. HasAccess(e)'
        BY <3>2, <4>1, AccessTaken
      <4> QED BY <4>2 DEF SomeAdmin
    <3> QED BY <3>1, <3>2
  <2> QED BY <2>2, <2>3, <2>4
<1> QED BY <1>3, <1>4 DEF AdminInvariant

\* The administrators do not lock themselves out: as long as no two requests worked
\* on the same person at once, somebody is an active administrator, if it was so
\* at first and only people of the university ask for changes.
THEOREM AdministratorsRemain ==
    AccountsSpec /\ SomeAdmin /\ AskersOfUniversity => []AdminRemains
<1>1. AccountsInit /\ SomeAdmin /\ AskersOfUniversity => AdminInvariant
  BY DEF AccountsInit, AdminInvariant, Apart, AskersHaveAccess, UnderWay
<1>2. RecordsInvariant /\ AdminInvariant /\ [AccountsNext]_accountVars => AdminInvariant'
  <2> SUFFICES ASSUME RecordsInvariant, AdminInvariant, [AccountsNext]_accountVars
               PROVE  AdminInvariant'
    OBVIOUS
  <2>1. ASSUME NEW r \in Requests, StepOf(r) PROVE AdminInvariant'
    BY <2>1, AdminKept
  <2>2. CASE UNCHANGED accountVars
    BY <2>2 DEF accountVars, AdminInvariant, AskersOfUniversity, Apart, AskersHaveAccess,
                SomeAdmin, HasAccess, UnderWay, Changes, Concerned
  <2> QED BY <2>1, <2>2 DEF AccountsNext, StepOf
<1>3. AdminInvariant => AdminRemains
  BY DEF AdminInvariant, SomeAdmin, HasAccess, AdminRemains
<1> QED BY <1>1, <1>2, <1>3, RecordsStaySound, PTL DEF AccountsSpec

-----------------------------------------------------------------------------
(***************************************************************************)
(* A key of a course that is off stays off.                                *)
(***************************************************************************)
\* The keys that are stored, and those that somebody has read.
KeyDocs ==
    keys \cup ({doc[r] : r \in Requests} \ {NoKey}) \cup UNION {todo[r] : r \in Requests}

KeysSound ==
    /\ doc = [r \in Requests |-> doc[r]] /\ todo = [r \in Requests |-> todo[r]]
    /\ \A k \in KeyDocs : IsKey(k)
    /\ \A k, l \in KeyDocs : k.id = l.id => k.scope = l.scope /\ k.owner = l.owner
    /\ \A k, l \in keys : k.id = l.id => k = l
    /\ \A r \in Requests : pc[r] # "done" => \A k \in KeyDocs : k.id # r
    /\ \A r \in Requests : doc[r] # NoKey => doc[r].scope = "user-default"

\* The copies are of the keys of whom the request works for.
CopiesOwned ==
    \A r \in Requests :
        /\ pc[r] = "store" /\ doc[r] # NoKey => doc[r].owner = OwnerId(account[r])
        /\ pc[r] = "keys" => \A k \in todo[r] : k.owner \in Identifiers(account[r])

KeysInvariant == KeysSound /\ CopiesOwned

Version(x, k) == IsKey(x) /\ x.id = k.id /\ x.scope = k.scope /\ x.owner = k.owner

\* A step of r that brings only versions of keys that are there.
LEMMA KeyVersions ==
    ASSUME KeysSound, NEW r \in Requests,
           \A q \in Requests \ {r} : pc'[q] = pc[q],
           pc[r] # "done",
           doc' = [q \in Requests |-> doc'[q]], todo' = [q \in Requests |-> todo'[q]],
           \A x \in KeyDocs' : \E k \in KeyDocs : Version(x, k),
           \A k, l \in keys' : k.id = l.id => k = l,
           \A q \in Requests : doc'[q] # NoKey => doc'[q].scope = "user-default"
    PROVE  KeysSound'
<1>1. \A x \in KeyDocs' : IsKey(x)
  BY DEF Version
<1>2. \A x, y \in KeyDocs' : x.id = y.id => x.scope = y.scope /\ x.owner = y.owner
  BY DEF Version, KeysSound
<1>3. \A q \in Requests : pc'[q] # "done" => \A x \in KeyDocs' : x.id # q
  BY DEF Version, KeysSound
<1> QED BY <1>1, <1>2, <1>3 DEF KeysSound

LEMMA KeyDocsOf ==
    ASSUME KeysSound
    PROVE  /\ \A k \in KeyDocs : Version(k, k)
           /\ keys \subseteq KeyDocs
           /\ \A r \in Requests : doc[r] = NoKey \/ doc[r] \in KeyDocs
           /\ \A r \in Requests : todo[r] \subseteq KeyDocs
<1>1. \A k \in KeyDocs : Version(k, k)
  BY DEF KeysSound, Version
<1> QED BY <1>1 DEF KeyDocs

LEMMA KeyDocsLater ==
    ASSUME NEW x \in KeyDocs'
    PROVE  \/ x \in keys'
           \/ \E r \in Requests : x = doc'[r] /\ x # NoKey
           \/ \E r \in Requests : x \in todo'[r]
BY DEF KeyDocs

\* Replacing a key by a version of it.
LEMMA ReplaceIs ==
    ASSUME KeysSound, NEW key, IsKey(key), NEW k \in KeyDocs, key.id = k.id, key.scope = k.scope,
           key.owner = k.owner, ReplaceKey(key)
    PROVE  /\ \A x \in keys' : x \in keys \/ x = key
           /\ \A x \in keys' : \E l \in KeyDocs : Version(x, l)
           /\ \A x, y \in keys' : x.id = y.id => x = y
<1>1. \A x \in keys' : x \in keys \/ x = key
  BY DEF ReplaceKey
<1>2. \A x \in keys' : \E l \in KeyDocs : Version(x, l)
  BY <1>1, KeyDocsOf DEF Version
<1>3. \A x, y \in keys' : x.id = y.id => x = y
  BY DEF ReplaceKey, KeysSound
<1> QED BY <1>1, <1>2, <1>3

\* What a step may do to the keys that are stored: one of a course that is off
\* is off afterwards.
CourseKeysOff ==
    \A k \in keys : k.scope = "course" /\ ~k.on => \A j \in keys' : j.id = k.id => ~j.on

LEMMA KeysKept ==
    ASSUME RecordsInvariant, KeysSound, CopiesOwned, NEW r \in Requests, StepOf(r)
    PROVE  KeysSound' /\ CourseKeysOff
<1> DEFINE u == account[r]
<1>1. pc[r] # "done" /\ \A q \in Requests \ {r} : pc'[q] = pc[q]
  BY PlacesOf DEF RecordsInvariant
<1>2. /\ \A k \in KeyDocs : Version(k, k)
      /\ keys \subseteq KeyDocs
      /\ \A q \in Requests : doc[q] = NoKey \/ doc[q] \in KeyDocs
      /\ \A q \in Requests : todo[q] \subseteq KeyDocs
  BY KeyDocsOf
<1>3. \A x, y \in keys : x.id = y.id => x = y
  BY DEF KeysSound
<1>4. UNCHANGED keys => CourseKeysOff
  BY <1>3 DEF CourseKeysOff
<1>5. CASE FindKey(r)
  <2>1. UNCHANGED <<keys, todo>>
    BY <1>5 DEF FindKey
  <2>2. PICK k : /\ doc' = [doc EXCEPT ![r] = k]
                 /\ k = NoKey \/ (k \in keys /\ k.scope = "user-default")
    BY <1>5 DEF FindKey, DefaultKeys
  <2>3. /\ doc' = [q \in Requests |-> doc'[q]] /\ todo' = [q \in Requests |-> todo'[q]]
        /\ doc'[r] = k /\ \A q \in Requests \ {r} : doc'[q] = doc[q]
    BY <2>1, <2>2 DEF KeysSound
  <2>4. \A q \in Requests : doc'[q] # NoKey => doc'[q].scope = "user-default" /\ doc'[q] \in KeyDocs
    BY <1>2, <2>2, <2>3 DEF KeysSound
  <2>5. \A x \in KeyDocs' : \E l \in KeyDocs : Version(x, l)
    BY <1>2, <2>1, <2>4, KeyDocsLater
  <2>6. \A x, y \in keys' : x.id = y.id => x = y
    BY <1>3, <2>1
  <2> QED BY <1>1, <1>4, <2>1, <2>3, <2>4, <2>5, <2>6, KeyVersions
<1>6. CASE Scan(r)
  <2>1. UNCHANGED <<keys, doc>>
    BY <1>6 DEF Scan
  <2>2. PICK T : todo' = [todo EXCEPT ![r] = T] /\ T \subseteq keys
    BY <1>6 DEF Scan
  <2>3. /\ doc' = [q \in Requests |-> doc'[q]] /\ todo' = [q \in Requests |-> todo'[q]]
        /\ \A q \in Requests : todo'[q] \subseteq KeyDocs
    BY <1>2, <2>1, <2>2 DEF KeysSound
  <2>4. \A q \in Requests : doc'[q] # NoKey => doc'[q].scope = "user-default"
    BY <2>1 DEF KeysSound
  <2>5. \A x \in KeyDocs' : \E l \in KeyDocs : Version(x, l)
    BY <1>2, <2>1, <2>3, KeyDocsLater
  <2>6. \A x, y \in keys' : x.id = y.id => x = y
    BY <1>3, <2>1
  <2> QED BY <1>1, <1>4, <2>1, <2>3, <2>4, <2>5, <2>6, KeyVersions
<1>7. CASE StoreKey(r)
  <2>1. UNCHANGED <<doc, todo>> /\ Goto(r, "done")
    BY <1>7 DEF StoreKey, Local
  <2>2. /\ doc' = [q \in Requests |-> doc'[q]] /\ todo' = [q \in Requests |-> todo'[q]]
        /\ \A q \in Requests : doc'[q] # NoKey => doc'[q].scope = "user-default"
    BY <2>1 DEF KeysSound
  <2>3. \A x \in KeyDocs' : x \in keys' \/ x \in KeyDocs
    BY <1>2, <2>1, KeyDocsLater
  <2> DEFINE new == NewDefaultKey(r)
  <2>4. IsKey(new) /\ new.id = r /\ new.scope = "user-default" /\ new.owner = OwnerId(u)
    BY DEF NewDefaultKey, IsKey, KeyFields
  <2> HIDE DEF new
  <2>5. CASE doc[r] = NoKey /\ keys' = keys \cup {new}
    <3>1. \A k \in KeyDocs : k.id # r
      BY <1>1 DEF KeysSound
    <3>2. \A x \in KeyDocs' : x = new \/ x \in KeyDocs
      BY <1>2, <2>3, <2>5
    <3>3. \A x \in KeyDocs' : IsKey(x)
      BY <2>4, <3>2 DEF KeysSound
    <3>4. \A x, y \in KeyDocs' : x.id = y.id => x.scope = y.scope /\ x.owner = y.owner
      BY <2>4, <3>1, <3>2 DEF KeysSound
    <3>5. \A x, y \in keys' : x.id = y.id => x = y
      BY <1>2, <1>3, <2>4, <2>5, <3>1
    <3>6. pc'[r] = "done"
      BY <2>1 DEF Goto, RecordsInvariant, Types
    <3>7. ASSUME NEW q \in Requests, pc'[q] # "done", NEW x \in KeyDocs' PROVE x.id # q
      BY <1>1, <2>4, <3>2, <3>6, <3>7 DEF KeysSound
    <3>8. CourseKeysOff
      BY <1>2, <1>3, <2>4, <2>5, <3>1 DEF CourseKeysOff
    <3>9. KeysSound'
      BY <2>2, <3>3, <3>4, <3>5, <3>7 DEF KeysSound
    <3> QED BY <3>8, <3>9
  <2>6. CASE doc[r] # NoKey /\ ReplaceKey([new EXCEPT !.id = doc[r].id])
    <3> DEFINE key == [new EXCEPT !.id = doc[r].id]
    <3>1. /\ IsKey(key) /\ key.id = doc[r].id /\ key.scope = "user-default"
          /\ key.owner = OwnerId(u)
      BY <2>4 DEF IsKey, KeyFields
    <3>2. ReplaceKey(key)
      BY <2>6
    <3> HIDE DEF key
    <3>3. doc[r] \in KeyDocs /\ doc[r].scope = "user-default" /\ doc[r].owner = OwnerId(u)
      <4>1. pc[r] = "store"
        BY <1>7 DEF StoreKey
      <4> QED BY <1>2, <2>6, <4>1 DEF KeysSound, CopiesOwned
    <3>4. PICK k \in KeyDocs : key.id = k.id /\ key.scope = k.scope /\ key.owner = k.owner
      BY <3>1, <3>3
    <3>5. /\ \A x \in keys' : x \in keys \/ x = key
          /\ \A x \in keys' : \E l \in KeyDocs : Version(x, l)
          /\ \A x, y \in keys' : x.id = y.id => x = y
      BY <3>1, <3>2, <3>4, ReplaceIs
    <3>6. \A x \in KeyDocs' : \E l \in KeyDocs : Version(x, l)
      BY <1>2, <2>3, <3>5
    <3>7. CourseKeysOff
      <4>1. \A l \in keys : l.id = key.id => l.scope = "user-default"
        BY <1>2, <3>1, <3>3 DEF KeysSound
      <4> QED BY <1>3, <3>5, <4>1 DEF CourseKeysOff
    <3> QED BY <1>1, <2>2, <3>5, <3>6, <3>7, KeyVersions
  <2>7. CASE UNCHANGED keys
    <3>1. \A x \in KeyDocs' : \E l \in KeyDocs : Version(x, l)
      BY <1>2, <2>3, <2>7
    <3>2. \A x, y \in keys' : x.id = y.id => x = y
      BY <1>3, <2>7
    <3> QED BY <1>1, <1>4, <2>2, <2>7, <3>1, <3>2, KeyVersions
  <2> QED BY <1>7, <2>5, <2>6, <2>7 DEF StoreKey, new
<1>8. CASE FollowKey(r) /\ todo[r] # {}
  <2>1. UNCHANGED doc
    BY <1>8 DEF FollowKey
  <2>2. PICK k \in todo[r] :
          /\ todo' = [todo EXCEPT ![r] = @ \ {k}]
          /\ IF Follows(k, Opens(r)) THEN ReplaceKey(Followed(k, Opens(r))) ELSE UNCHANGED keys
    BY <1>8 DEF FollowKey
  <2>3. /\ doc' = [q \in Requests |-> doc'[q]] /\ todo' = [q \in Requests |-> todo'[q]]
        /\ \A q \in Requests : todo'[q] \subseteq todo[q]
    BY <2>1, <2>2 DEF KeysSound
  <2>4. \A q \in Requests : doc'[q] # NoKey => doc'[q].scope = "user-default"
    BY <2>1 DEF KeysSound
  <2>5. \A x \in KeyDocs' : x \in keys' \/ x \in KeyDocs
    BY <1>2, <2>1, <2>3, KeyDocsLater
  <2>6. CASE UNCHANGED keys
    <3>1. \A x \in KeyDocs' : \E l \in KeyDocs : Version(x, l)
      BY <1>2, <2>5, <2>6
    <3>2. \A x, y \in keys' : x.id = y.id => x = y
      BY <1>3, <2>6
    <3> QED BY <1>1, <1>4, <2>3, <2>4, <2>6, <3>1, <3>2, KeyVersions
  <2>7. CASE Follows(k, Opens(r)) /\ ReplaceKey(Followed(k, Opens(r)))
    <3> DEFINE key == Followed(k, Opens(r))
    <3>1. k \in KeyDocs /\ IsKey(k)
      BY <1>2 DEF KeysSound
    <3>2. /\ IsKey(key) /\ key.id = k.id /\ key.scope = k.scope /\ key.owner = k.owner
          /\ key.on = Opens(r)
      BY <3>1 DEF Followed, IsKey, KeyFields
    <3>3. ReplaceKey(key)
      BY <2>7
    <3> HIDE DEF key
    <3>4. /\ \A x \in keys' : x \in keys \/ x = key
          /\ \A x \in keys' : \E l \in KeyDocs : Version(x, l)
          /\ \A x, y \in keys' : x.id = y.id => x = y
      BY <3>1, <3>2, <3>3, ReplaceIs
    <3>5. \A x \in KeyDocs' : \E l \in KeyDocs : Version(x, l)
      BY <1>2, <2>5, <3>4
    <3>6. CourseKeysOff
      <4>1. k.scope = "course" => ~Opens(r)
        BY <2>7 DEF Follows
      <4>2. \A l \in keys : l.id = key.id => l.scope = k.scope
        BY <1>2, <3>1, <3>2 DEF KeysSound
      <4>3. k.scope = "course" => ~key.on
        BY <3>2, <4>1
      <4> QED BY <1>3, <3>4, <4>2, <4>3 DEF CourseKeysOff
    <3> QED BY <1>1, <2>3, <2>4, <3>4, <3>5, <3>6, KeyVersions
  <2> QED BY <2>2, <2>6, <2>7
<1>9. CASE ~FindKey(r) /\ ~Scan(r) /\ ~StoreKey(r) /\ ~(FollowKey(r) /\ todo[r] # {})
  <2>1. UNCHANGED <<keys, doc, todo>>
    <3>1. CASE SignIn(r)
      BY <1>9, <3>1 DEF SignIn, Find, FindStandIn, Insert, Sync, Reread, FindOwn, InsertOwn, Local
    <3>2. CASE Administer(r)
      BY <1>9, <3>2 DEF Administer, Resolve, NextTarget, WriteTarget, Link, FollowKey, Local
    <3>3. CASE Whitelist(r)
      BY <1>9, <3>3 DEF Whitelist, FindListed, Create, List, PatchListed, DropListed, LinkListed,
                        ChangeLinked, Local
    <3> QED BY <3>1, <3>2, <3>3 DEF StepOf, Start, Crash, Local
  <2>2. /\ doc' = [q \in Requests |-> doc'[q]] /\ todo' = [q \in Requests |-> todo'[q]]
        /\ \A q \in Requests : doc'[q] # NoKey => doc'[q].scope = "user-default"
    BY <2>1 DEF KeysSound
  <2>3. \A x \in KeyDocs' : \E l \in KeyDocs : Version(x, l)
    BY <1>2, <2>1, KeyDocsLater
  <2>4. \A x, y \in keys' : x.id = y.id => x = y
    BY <1>3, <2>1
  <2> QED BY <1>1, <1>4, <2>1, <2>2, <2>3, <2>4, KeyVersions
<1> QED BY <1>5, <1>6, <1>7, <1>8, <1>9

\* Where two of the steps lead.
LEMMA StartTo ==
    ASSUME RecordsInvariant, NEW r \in Requests, Start(r)
    PROVE  /\ pc[r] = "idle" /\ UNCHANGED <<users, listed, keys, ask>>
           /\ pc'[r] \in {"findListed", "find", "resolve", "create", "done"}
           /\ ask[r].kind = "login" /\ pc'[r] = "find" => ~(ask[r].whom \subseteq Guests)
<1>1. pc[r] = "idle" /\ pc'[r] \in {FirstPlace(r), "done"} /\ UNCHANGED <<users, listed, keys, ask>>
  BY DEF Start, Goto, RecordsInvariant, Types
<1>2. ask[r].kind \in {"login", "session", "settings"} \cup Administrative
  BY AskOf
<1> QED BY <1>1, <1>2 DEF FirstPlace, Administrative

LEMMA FindListedTo ==
    ASSUME RecordsInvariant, NEW r \in Requests, FindListed(r)
    PROVE  pc'[r] \in {"list", "find", "patch", "drop", "done"}
<1>1. pc[r] = "findListed" /\ pc'[r] \in {AfterListed[ask[r].kind], "done"}
  BY DEF FindListed, Goto, RecordsInvariant, Types
<1>2. /\ ask[r].kind \in {"login", "session", "settings"} \cup Administrative
      /\ pc[r] \in Path[ask[r].kind] \cup {"idle", "done"}
  BY AskOf DEF Fits
<1>3. ask[r].kind \in {"login", "addListed", "patchListed", "dropListed"}
  BY <1>1, <1>2 DEF Path, Administrative
<1> QED BY <1>1, <1>3 DEF AfterListed

\* The copies stay those of whom the request works for.
LEMMA CopiesKept ==
    ASSUME RecordsInvariant, KeysSound, CopiesOwned, NEW r \in Requests, StepOf(r)
    PROVE  /\ CopiesOwned'
           /\ \A q \in Requests \ {r} : doc'[q] = doc[q] /\ todo'[q] = todo[q]
<1>1. \A q \in Requests \ {r} : pc'[q] = pc[q] /\ account'[q] = account[q]
  BY LocalsOf
<1>2. \A place : Goto(r, place) => pc'[r] = place
  BY DEF Goto, RecordsInvariant, Types
<1>3. /\ doc = [q \in Requests |-> doc[q]] /\ todo = [q \in Requests |-> todo[q]]
  BY DEF KeysSound
<1>4. ASSUME \A q \in Requests \ {r} : doc'[q] = doc[q] /\ todo'[q] = todo[q],
             pc'[r] = "store" /\ doc'[r] # NoKey => doc'[r].owner = OwnerId(account'[r]),
             pc'[r] = "keys" => \A k \in todo'[r] : k.owner \in Identifiers(account'[r])
      PROVE  CopiesOwned'
  <2> SUFFICES ASSUME NEW q \in Requests
               PROVE  /\ pc'[q] = "store" /\ doc'[q] # NoKey => doc'[q].owner = OwnerId(account'[q])
                      /\ pc'[q] = "keys" => \A k \in todo'[q] : k.owner \in Identifiers(account'[q])
    BY DEF CopiesOwned
  <2> QED BY <1>1, <1>4 DEF CopiesOwned
<1>5. CASE FindKey(r)
  <2>1. PICK k : doc' = [doc EXCEPT ![r] = k] /\ (k = NoKey \/ k.owner = OwnerId(account[r]))
    BY <1>5 DEF FindKey, DefaultKeys
  <2>2. UNCHANGED <<account, todo>> /\ pc'[r] = "store"
    BY <1>2, <1>5 DEF FindKey
  <2>3. doc'[r] = k /\ \A q \in Requests \ {r} : doc'[q] = doc[q] /\ todo'[q] = todo[q]
    BY <1>3, <2>1, <2>2
  <2> QED BY <1>4, <2>1, <2>2, <2>3
<1>6. CASE Scan(r)
  <2>1. PICK T : /\ todo' = [todo EXCEPT ![r] = T]
                 /\ T = {k \in keys : k.owner \in Identifiers(account[r])}
    BY <1>6 DEF Scan
  <2>2. UNCHANGED <<account, doc>> /\ pc'[r] = "keys"
    BY <1>2, <1>6 DEF Scan
  <2>3. todo'[r] = T /\ \A q \in Requests \ {r} : doc'[q] = doc[q] /\ todo'[q] = todo[q]
    BY <1>3, <2>1, <2>2
  <2> QED BY <1>4, <2>1, <2>2, <2>3
<1>7. CASE FollowKey(r)
  <2>1. UNCHANGED <<account, doc>> /\ pc[r] = "keys" /\ pc'[r] \in {"next", "done", "keys"}
    BY <1>2, <1>7 DEF FollowKey
  <2>2. PICK T : todo' = [todo EXCEPT ![r] = T] /\ T \subseteq todo[r]
    <3>1. CASE todo[r] = {}
      BY <1>3, <1>7, <3>1 DEF FollowKey
    <3>2. CASE todo[r] # {}
      BY <1>7, <3>2 DEF FollowKey
    <3> QED BY <3>1, <3>2
  <2>3. todo'[r] = T /\ \A q \in Requests \ {r} : doc'[q] = doc[q] /\ todo'[q] = todo[q]
    BY <1>3, <2>1, <2>2
  <2>4. \A k \in T : k.owner \in Identifiers(account'[r])
    BY <2>1, <2>2 DEF CopiesOwned
  <2> QED BY <1>4, <2>1, <2>3, <2>4
<1>8. CASE ~FindKey(r) /\ ~Scan(r) /\ ~FollowKey(r)
  <2>1. UNCHANGED <<doc, todo>>
    <3>1. CASE SignIn(r)
      BY <1>8, <3>1 DEF SignIn, Find, FindStandIn, Insert, Sync, Reread, FindOwn, InsertOwn,
                        StoreKey, Local
    <3>2. CASE Administer(r)
      BY <1>8, <3>2 DEF Administer, Resolve, NextTarget, WriteTarget, Link, Local
    <3>3. CASE Whitelist(r)
      BY <3>3 DEF Whitelist, FindListed, Create, List, PatchListed, DropListed, LinkListed,
                  ChangeLinked, Local
    <3> QED BY <3>1, <3>2, <3>3 DEF StepOf, Start, Crash, Local
  <2>2. pc'[r] \notin {"store", "keys"}
    <3>1. CASE Find(r)
      <4>1. pc[r] \in {"find", "findAgain"}
            /\ ask[r].kind \in {"login", "session", "settings"} \cup Administrative
            /\ pc[r] \in Path[ask[r].kind] \cup {"idle", "done"}
        BY <3>1, AskOf DEF Find, Fits
      <4>2. ask[r].kind \in {"login", "session", "settings"}
        BY <4>1 DEF Path, Administrative
      <4>3. \/ pc'[r] \in Found(r) \cup {"key"}
            \/ pc'[r] \in {NotFound(r), "key"}
        BY <1>2, <3>1 DEF Find
      <4> QED BY <4>2, <4>3 DEF Found, NotFound
    <3>2. CASE SignIn(r) /\ ~Find(r)
      BY <1>2, <1>8, <3>2 DEF SignIn, FindStandIn, Insert, Sync, Reread, FindOwn, InsertOwn,
                              StoreKey
    <3>3. CASE Administer(r) /\ ~WriteTarget(r)
      BY <1>2, <1>8, <3>3 DEF Administer, Resolve, NextTarget, Link
    <3>4. CASE WriteTarget(r)
      BY <1>2, <3>4 DEF WriteTarget, Steps
    <3>5. CASE FindListed(r)
      BY <1>2, <3>5, FindListedTo
    <3>6. CASE Whitelist(r) /\ ~FindListed(r)
      BY <1>2, <3>6 DEF Whitelist, Create, List, PatchListed, DropListed, LinkListed, ChangeLinked
    <3>7. CASE Start(r)
      BY <1>2, <3>7, StartTo
    <3>8. CASE Crash(r)
      BY <1>2, <3>8 DEF Crash
    <3> QED BY <3>1, <3>2, <3>3, <3>4, <3>5, <3>6, <3>7, <3>8 DEF StepOf
  <2> QED BY <1>4, <2>1, <2>2
<1> QED BY <1>5, <1>6, <1>7, <1>8

LEMMA KeysAtFirst == AccountsInit => KeysInvariant
<1> SUFFICES ASSUME AccountsInit PROVE KeysInvariant
  OBVIOUS
<1>1. /\ doc = [r \in Requests |-> NoKey] /\ todo = [r \in Requests |-> {}]
      /\ keys = FirstKeys
  BY DEF AccountsInit
<1>2. KeyDocs = FirstKeys
  BY <1>1 DEF KeyDocs
<1> QED BY <1>1, <1>2, FirstRecordsAssumption DEF KeysInvariant, KeysSound, CopiesOwned

LEMMA KeysStep ==
    ASSUME RecordsInvariant, KeysInvariant, [AccountsNext]_accountVars
    PROVE  KeysInvariant' /\ (CourseKeysOff \/ UNCHANGED keys)
<1>1. CASE \E r \in Requests : StepOf(r)
  BY <1>1, KeysKept, CopiesKept DEF KeysInvariant
<1>2. CASE UNCHANGED accountVars
  BY <1>2 DEF accountVars, KeysInvariant, KeysSound, CopiesOwned, KeyDocs
<1> QED BY <1>1, <1>2 DEF AccountsNext, StepOf

\* A course key that is off stays off, whatever becomes of its owner's account.
THEOREM CourseKeysUntouched == AccountsSpec => CourseKeysStayOff
<1>1. CourseKeysOff \/ UNCHANGED keys <=>
        [\A k \in keys : k.scope = "course" /\ ~k.on =>
            \A j \in keys' : j.id = k.id => ~j.on]_keys
  BY DEF CourseKeysOff
<1>2. RecordsInvariant /\ KeysInvariant /\ [AccountsNext]_accountVars
        => KeysInvariant' /\ (CourseKeysOff \/ UNCHANGED keys)
  BY KeysStep
<1> QED BY <1>1, <1>2, KeysAtFirst, RecordsStaySound, PTL DEF AccountsSpec, CourseKeysStayOff

-----------------------------------------------------------------------------
(***************************************************************************)
(* The whitelist and the accounts agree.                                   *)
(***************************************************************************)
\* The accounts and the entries of an address.
Accts(e) == WithEmail(users, e)
Entries(e) == WithEmail(listed, e)

Sole(S) == \A x, y \in S : x = y
Agree(u, w) == u.active = w.active /\ ((u.role = "admin") <=> (w.role = "admin"))
Agreeing(e) == \A u \in Accts(e), w \in Entries(e) : Agree(u, w)

\* They will agree when both are changed as a says.
Half(a, e) == \A u \in Accts(e), w \in Entries(e) : Agree(Changed(u, a), Changed(w, a))

Working(r, e) == UnderWay(r) /\ e \in ask[r].whom
ApartAt(e) ==
    \A r, q \in Requests : r # q /\ Working(r, e) /\ Working(q, e) => ~Changes(r)

WritesUsersOrListed == {"usersById", "listedById", "usersByEmail", "listedByEmail"}

\* What r knows at its place of the accounts and the entries of e, and what it has
\* made of them.
Informed(r, e) ==
    /\ e \in Guests /\ pc[r] \in {"find", "insert", "sync"} /\ ask[r].kind = "login" =>
          entry[r] \in Entries(e)
    /\ pc[r] = "sync" => \E u \in Accts(e) : u.oid = account[r].oid
    /\ pc[r] = "findOwn" => \/ \E u \in Accts(e) : u.id = account[r].id
                            \/ \E w \in Entries(e) : account[r] = StandIn(w)
    /\ pc[r] = "insertOwn" => \E w \in Entries(e) : account[r] = StandIn(w)
    /\ pc[r] \in {"patch", "drop"} => entry[r] \in Entries(e)
    /\ pc[r] = "list" => Entries(e) = {}
    /\ pc[r] \in {"linkListed", "changeLinked"} =>
          \/ Entries(e) = {}
          \/ /\ ask[r].kind = "patchListed" /\ Half(ask[r], e)
             /\ \A w \in Entries(e) : Changed(w, ask[r]) = w
    /\ pc[r] \in WritesUsersOrListed /\ account[r].email = e =>
          /\ Half(ask[r], e)
          /\ pc[r] = "listedByEmail" => \A u \in Accts(e) : Changed(u, ask[r]) = u

\* r has changed one of the two, perhaps, and not yet the other.
Between(r, e) ==
    /\ Working(r, e)
    /\ \/ pc[r] \in {"linkListed", "changeLinked"}
       \/ pc[r] \in WritesUsersOrListed /\ account[r].email = e

\* Nothing has gone wrong with e.
Calm(e) == e \notin crossed \cup cut /\ Sole(Accts(e))

Agreement(e) ==
    /\ Sole(Entries(e))
    /\ \A r \in Requests : Working(r, e) => Informed(r, e)
    /\ Agreeing(e) \/ \E r \in Requests : Between(r, e)

\* An account has an id of its own, and a step neither loses it nor makes two of it.
UsersUnique == IsFiniteSet(users) /\ \A u, v \in users : u.oid = v.oid => u = v
UsersLast == \A u \in users : \E v \in users' : Same(v, u)

AgreementInvariant ==
    /\ UsersUnique
    /\ \A e \in Addresses : e \notin crossed => ApartAt(e)
    /\ \A e \in Addresses : Calm(e) => Agreement(e)

\* A change made twice is made once, and keeps an agreement.
LEMMA ChangedTwice ==
    ASSUME NEW u, IsRecord(u), NEW a
    PROVE  Changed(Changed(u, a), a) = Changed(u, a)
BY DEF Changed, IsRecord, RecordFields

LEMMA ChangedAgree ==
    ASSUME NEW u, IsRecord(u), NEW w, IsRecord(w), Agree(u, w), NEW a
    PROVE  Agree(Changed(u, a), Changed(w, a))
<1> DEFINE x == Changed(u, a)
           y == Changed(w, a)
<1>1. /\ x.active = IF "active" \in a.fields THEN a.active ELSE u.active
      /\ x.role = IF "role" \in a.fields THEN a.role ELSE u.role
  BY ChangedIs
<1>2. /\ y.active = IF "active" \in a.fields THEN a.active ELSE w.active
      /\ y.role = IF "role" \in a.fields THEN a.role ELSE w.role
  BY ChangedIs
<1> HIDE DEF x, y
<1>3. Agree(x, y)
  BY <1>1, <1>2 DEF Agree
<1> QED BY <1>3 DEF x, y

\* What update_one does to the documents of an address.
LEMMA UpdateAt ==
    ASSUME NEW docs, \A u \in docs : IsRecord(u), NEW email, NEW matching,
           matching \subseteq WithEmail(docs, email),
           NEW a, NEW later \in UpdateOne(docs, matching, a), NEW e
    PROVE  /\ e # email => WithEmail(later, e) = WithEmail(docs, e)
           /\ matching = {} => later = docs
           /\ Sole(WithEmail(docs, email)) /\ matching # {} =>
                 \E u \in docs : /\ WithEmail(docs, email) = {u}
                                 /\ WithEmail(later, email) = {Changed(u, a)}
<1>1. CASE matching = {}
  BY <1>1 DEF UpdateOne
<1>2. CASE matching # {}
  <2>1. PICK u \in matching : later = (docs \ {u}) \cup {Changed(u, a)}
    BY <1>2 DEF UpdateOne
  <2>2. u \in docs /\ u.email = email /\ Changed(u, a).email = email
    BY ChangedIs DEF WithEmail, Same
  <2> DEFINE x == Changed(u, a)
  <2> HIDE DEF x
  <2>3. later = (docs \ {u}) \cup {x} /\ x.email = email
    BY <2>1, <2>2 DEF x
  <2>4. e # email => WithEmail(later, e) = WithEmail(docs, e)
    BY <2>2, <2>3 DEF WithEmail
  <2>5. Sole(WithEmail(docs, email)) => WithEmail(docs, email) = {u}
    BY <2>2 DEF WithEmail, Sole
  <2>6. Sole(WithEmail(docs, email)) => WithEmail(later, email) = {x}
    BY <2>2, <2>3 DEF WithEmail, Sole
  <2> QED BY <1>2, <2>2, <2>4, <2>5, <2>6 DEF x
<1> QED BY <1>1, <1>2

LEMMA UpdateUnique ==
    ASSUME NEW docs, \A u \in docs : IsRecord(u), IsFiniteSet(docs),
           \A u, v \in docs : u.oid = v.oid => u = v,
           NEW matching, matching \subseteq docs, NEW a, NEW later \in UpdateOne(docs, matching, a)
    PROVE  /\ IsFiniteSet(later)
           /\ \A u, v \in later : u.oid = v.oid => u = v
           /\ \A u \in docs : \E v \in later : Same(v, u)
<1>1. CASE matching = {}
  BY <1>1 DEF UpdateOne, Same
<1>2. CASE matching # {}
  <2>1. PICK u \in docs : later = (docs \ {u}) \cup {Changed(u, a)}
    BY <1>2 DEF UpdateOne
  <2> DEFINE x == Changed(u, a)
  <2>2. Same(x, u)
    BY ChangedIs
  <2> HIDE DEF x
  <2>3. later = (docs \ {u}) \cup {x}
    BY <2>1 DEF x
  <2>4. IsFiniteSet(docs \ {u})
    BY FS_RemoveElement
  <2>5. IsFiniteSet(later)
    BY <2>3, <2>4, FS_AddElement
  <2>6. \A v, w \in later : v.oid = w.oid => v = w
    BY <2>2, <2>3 DEF Same
  <2>7. \A v \in docs : \E w \in later : Same(w, v)
    BY <2>2, <2>3 DEF Same
  <2> QED BY <2>5, <2>6, <2>7
<1> QED BY <1>1, <1>2

\* A document that is inserted has an id of its own.
LEMMA InsertUnique ==
    ASSUME RecordsInvariant, UsersUnique, NEW r \in Requests, pc[r] \in Early,
           NEW x, x.oid = r, users' = users \cup {x}
    PROVE  UsersUnique' /\ UsersLast
<1>1. \A u \in users : u.oid # r
  BY KnownOf DEF RecordsInvariant, Records, NewRecordsFresh
<1>2. IsFiniteSet(users')
  BY FS_AddElement DEF UsersUnique
<1>3. UsersLast
  BY StoredAreRecords DEF UsersLast, Same
<1> QED BY <1>1, <1>2, <1>3 DEF UsersUnique

\* What an insertion puts among the accounts.
LEMMA Inserted ==
    ASSUME RecordsInvariant, NEW r \in Requests, Insert(r) \/ Create(r) \/ InsertOwn(r)
    PROVE  /\ pc[r] \in Early /\ UNCHANGED listed
           /\ \E x : /\ users' = users \cup {x}
                     /\ x.oid = r /\ x.email \in ask[r].whom
                     /\ Insert(r) /\ entry[r] # NoRecord => Agree(x, entry[r])
                     /\ InsertOwn(r) => Agree(x, account[r])
<1>1. pc[r] \in Early /\ UNCHANGED listed
  BY DEF Insert, InsertOwn, Create, Early
<1>2. Fits(ask[r], pc[r], account[r], entry[r], targets[r])
  BY AskOf
<1>3. CASE Insert(r) \/ Create(r)
  <2>1. pc[r] \notin {"insertOwn", "idle"} /\ ~InsertOwn(r)
    BY <1>3 DEF Insert, Create, InsertOwn
  <2>2. ask[r].kind # "update"
    <3>1. pc[r] \in {"insert", "create"} /\ pc[r] \in Path[ask[r].kind] \cup {"idle", "done"}
      BY <1>2, <1>3 DEF Insert, Create, Fits
    <3>2. Path["update"] \cap {"insert", "create"} = {}
      BY DEF Path
    <3> QED BY <3>1, <3>2
  <2>3. Email(r) \in ask[r].whom
    BY <2>2, AskOf
  <2>4. PICK active, role :
          /\ users' = users \cup {Record(r, r, Email(r), active, role)}
          /\ Insert(r) /\ entry[r] # NoRecord => active = entry[r].active /\ role = entry[r].role
    <3>1. CASE Insert(r) /\ entry[r] = NoRecord
      BY <3>1 DEF Insert
    <3>2. CASE Insert(r) /\ entry[r] # NoRecord
      BY <3>2 DEF Insert
    <3>3. CASE Create(r)
      BY <3>3 DEF Insert, Create
    <3> QED BY <1>3, <3>1, <3>2, <3>3
  <2> DEFINE x == Record(r, r, Email(r), active, role)
  <2>5. x.oid = r /\ x.email = Email(r) /\ x.active = active /\ x.role = role
    BY RecordIs
  <2> HIDE DEF x
  <2>6. users' = users \cup {x}
    BY <2>4 DEF x
  <2>7. Insert(r) /\ entry[r] # NoRecord => Agree(x, entry[r])
    BY <2>4, <2>5 DEF Agree
  <2> QED BY <1>1, <2>1, <2>3, <2>5, <2>6, <2>7
<1>4. CASE InsertOwn(r)
  <2>1. account[r] # NoRecord /\ account[r].email \in ask[r].whom
    BY <1>2, <1>4 DEF InsertOwn, Fits, HasAccount
  <2>2. IsRecord(account[r])
    BY <2>1, KnownOf DEF RecordsInvariant, Records
  <2> DEFINE role == IF account[r].role = "admin" THEN "admin" ELSE "student"
             x == [account[r] EXCEPT !.oid = r, !.role = role]
  <2>3. users' = users \cup {x}
    BY <1>4, <2>2 DEF InsertOwn, IsRecord, RecordFields
  <2> HIDE DEF role
  <2>4. /\ x.oid = r /\ x.email = account[r].email /\ x.active = account[r].active
        /\ x.role = role
    BY <2>2 DEF IsRecord, RecordFields
  <2> HIDE DEF x
  <2>5. Agree(x, account[r])
    BY <2>4 DEF Agree, role
  <2>6. ~Insert(r)
    BY <1>4 DEF Insert, InsertOwn
  <2> QED BY <1>1, <2>1, <2>3, <2>4, <2>5, <2>6
<1> QED BY <1>3, <1>4

\* The steps that write no account and no entry.
LEMMA StoresStay ==
    ASSUME NEW r \in Requests, StepOf(r),
           ~(\/ Insert(r) \/ Create(r) \/ InsertOwn(r) \/ List(r) \/ Sync(r) \/ PatchListed(r)
             \/ DropListed(r) \/ WriteTarget(r) \/ ChangeLinked(r))
    PROVE  UNCHANGED <<users, listed>>
<1>1. CASE SignIn(r)
  BY <1>1 DEF SignIn, Find, FindStandIn, Reread, FindOwn, FindKey, StoreKey
<1>2. CASE Administer(r)
  BY <1>2 DEF Administer, Resolve, NextTarget, Link, Scan, FollowKey
<1>3. CASE Whitelist(r)
  BY <1>3 DEF Whitelist, FindListed, LinkListed
<1> QED BY <1>1, <1>2, <1>3 DEF StepOf, Start, Crash

\* No step loses an account, or makes two of one.
LEMMA UsersStay ==
    ASSUME RecordsInvariant, UsersUnique, NEW r \in Requests, StepOf(r)
    PROVE  UsersUnique' /\ UsersLast
<1>1. \A u \in users : IsRecord(u) /\ Same(u, u)
  BY StoredAreRecords
<1>2. CASE UNCHANGED users
  BY <1>1, <1>2 DEF UsersUnique, UsersLast
<1>3. CASE Insert(r) \/ InsertOwn(r) \/ Create(r)
  <2>1. PICK x : users' = users \cup {x} /\ x.oid = r
    BY <1>3, Inserted
  <2>2. pc[r] \in Early
    BY <1>3, Inserted
  <2> QED BY <2>1, <2>2, InsertUnique
<1>4. CASE Sync(r)
  <2> DEFINE put(u) == IF u.oid = account[r].oid
                       THEN [u EXCEPT !.active = entry[r].active, !.role = entry[r].role] ELSE u
  <2>1. users' = {put(u) : u \in users}
    BY <1>4 DEF Sync
  <2>2. \A u \in users : Same(put(u), u)
    BY <1>1, PutIs DEF Put
  <2>3. IsFiniteSet(users')
    <3> DEFINE f == [u \in users |-> put(u)]
    <3> HIDE DEF put
    <3>1. f \in Surjection(users, users')
      BY <2>1 DEF Surjection
    <3> QED BY <3>1, FS_Surjection DEF UsersUnique
  <2> HIDE DEF put
  <2>4. \A u, v \in users' : u.oid = v.oid => u = v
    BY <2>1, <2>2 DEF UsersUnique, Same
  <2>5. UsersLast
    BY <2>1, <2>2 DEF UsersLast
  <2> QED BY <2>3, <2>4, <2>5 DEF UsersUnique
<1>5. CASE \E matching, a : matching \subseteq users /\ users' \in UpdateOne(users, matching, a)
  <2>1. PICK matching, a : matching \subseteq users /\ users' \in UpdateOne(users, matching, a)
    BY <1>5
  <2> QED BY <1>1, <2>1, UpdateUnique DEF UsersUnique, UsersLast
<1>6. CASE WriteTarget(r) \/ ChangeLinked(r)
  BY <1>2, <1>5, <1>6 DEF WriteTarget, ChangeLinked, Matching, WithId, WithEmail
<1>7. CASE List(r) \/ PatchListed(r) \/ DropListed(r)
  BY <1>2, <1>7 DEF List, PatchListed, DropListed
<1> QED BY <1>2, <1>3, <1>4, <1>6, <1>7, StoresStay

\* The ids of what a request has read tell whose it is.
LEMMA AccountTells ==
    ASSUME RecordsInvariant, NEW r \in Requests, pc[r] \in HasAccount
    PROVE  /\ IsRecord(account[r]) /\ account[r].email \in ask[r].whom
           /\ \A u \in users \cup listed :
                 u.id = account[r].id \/ u.oid = account[r].oid => u.email = account[r].email
<1>1. account[r] # NoRecord /\ account[r].email \in ask[r].whom
  BY AskOf DEF Fits
<1>2. account[r] \in Known /\ IsRecord(account[r]) /\ users \cup listed \subseteq Known
  BY <1>1, KnownOf DEF RecordsInvariant, Records
<1>3. \A u \in users \cup listed : u.oid # NoId
  BY DEF RecordsInvariant, Records, StoredHaveIds
<1> QED BY <1>1, <1>2, <1>3 DEF RecordsInvariant, Records, IdsTell

LEMMA EntryTells ==
    ASSUME RecordsInvariant, NEW r \in Requests, pc[r] \in HasEntry
    PROVE  /\ IsRecord(entry[r]) /\ entry[r].email \in ask[r].whom
           /\ \A u \in listed : u.oid = entry[r].oid => u.email = entry[r].email
<1>1. entry[r] # NoRecord /\ entry[r].email \in ask[r].whom
  BY AskOf DEF Fits
<1>2. entry[r] \in Known /\ IsRecord(entry[r]) /\ listed \subseteq Known
  BY <1>1, KnownOf DEF RecordsInvariant, Records
<1>3. \A u \in listed : u.oid # NoId
  BY DEF RecordsInvariant, Records, StoredHaveIds
<1> QED BY <1>1, <1>2, <1>3 DEF RecordsInvariant, Records, IdsTell

\* What each of the administrators' writes does, and to whom.
LEMMA Written ==
    ASSUME RecordsInvariant, NEW r \in Requests, WriteTarget(r)
    PROVE  /\ pc[r] \in HasAccount
           /\ Matching(users, r) \subseteq WithEmail(users, account[r].email)
           /\ Matching(listed, r) \subseteq WithEmail(listed, account[r].email)
           /\ IF pc[r] \in {"usersById", "usersByEmail"}
              THEN users' \in UpdateOne(users, Matching(users, r), ask[r]) /\ UNCHANGED listed
              ELSE listed' \in UpdateOne(listed, Matching(listed, r), ask[r]) /\ UNCHANGED users
<1>1. pc[r] \in HasAccount
  BY DEF WriteTarget, Steps, HasAccount
<1>2. /\ Matching(users, r) \subseteq WithEmail(users, account[r].email)
      /\ Matching(listed, r) \subseteq WithEmail(listed, account[r].email)
  BY <1>1, AccountTells DEF Matching, WithId, WithEmail
<1> QED BY <1>1, <1>2 DEF WriteTarget

\* A step touches the accounts and the entries of those whom it concerns.
LEMMA OthersUntouched ==
    ASSUME RecordsInvariant, NEW r \in Requests, StepOf(r), NEW e, e \notin ask[r].whom
    PROVE  WithEmail(users', e) = WithEmail(users, e) /\ WithEmail(listed', e) = WithEmail(listed, e)
<1>1. \A u \in users \cup listed : IsRecord(u)
  BY StoredAreRecords
<1>2. CASE Insert(r) \/ Create(r) \/ InsertOwn(r)
  <2>1. PICK x : users' = users \cup {x} /\ x.email \in ask[r].whom
    BY <1>2, Inserted
  <2> QED BY <1>2, <2>1, Inserted DEF WithEmail
<1>3. CASE List(r)
  <2>1. Fits(ask[r], pc[r], account[r], entry[r], targets[r]) /\ pc[r] = "list"
    BY <1>3, AskOf DEF List
  <2>2. Email(r) \in ask[r].whom
    BY <2>1, AskOf DEF Fits, Path
  <2>4. PICK active : /\ listed' = listed \cup {Record(r, r, Email(r), active, ask[r].role)}
                     /\ UNCHANGED users
    BY <1>3 DEF List
  <2> DEFINE x == Record(r, r, Email(r), active, ask[r].role)
  <2>3. x.email = Email(r)
    BY RecordIs
  <2>5. listed' = listed \cup {x} /\ UNCHANGED users
    BY <2>4
  <2> HIDE DEF x
  <2> QED BY <2>2, <2>3, <2>5 DEF WithEmail
<1>4. CASE Sync(r)
  <2>1. pc[r] \in HasAccount
    BY <1>4 DEF Sync, HasAccount
  <2> DEFINE put(u) == IF u.oid = account[r].oid THEN Put(u, entry[r].active, entry[r].role)
                       ELSE u
  <2>2. users' = {put(u) : u \in users} /\ UNCHANGED listed
    BY <1>4 DEF Sync, Put
  <2>3. \A u \in users : put(u).email = u.email
    BY <1>1, PutIs DEF Same
  <2>4. \A u \in users : u.email = e => put(u) = u
    BY <2>1, AccountTells
  <2> HIDE DEF put
  <2> QED BY <2>2, <2>3, <2>4 DEF WithEmail
<1>5. CASE PatchListed(r)
  <2>1. pc[r] \in HasEntry
    BY <1>5 DEF PatchListed, HasEntry
  <2> DEFINE patch(w) == IF w.oid = entry[r].oid THEN Changed(w, ask[r]) ELSE w
  <2>2. listed' = {patch(w) : w \in listed} /\ UNCHANGED users
    BY <1>5 DEF PatchListed
  <2>3. \A w \in listed : patch(w).email = w.email
    BY <1>1, ChangedIs DEF Same
  <2>4. \A w \in listed : w.email = e => patch(w) = w
    BY <2>1, EntryTells
  <2> HIDE DEF patch
  <2> QED BY <2>2, <2>3, <2>4 DEF WithEmail
<1>6. CASE DropListed(r)
  <2>1. pc[r] \in HasEntry
    BY <1>6 DEF DropListed, HasEntry
  <2>2. listed' = {w \in listed : w.oid # entry[r].oid} /\ UNCHANGED users
    BY <1>6 DEF DropListed
  <2> QED BY <2>1, <2>2, EntryTells DEF WithEmail
<1>7. CASE WriteTarget(r)
  <2>1. account[r].email # e
    BY <1>7, Written, AccountTells
  <2>2. CASE pc[r] \in {"usersById", "usersByEmail"}
    <3>1. PICK email, matching, a :
             /\ email # e /\ matching \subseteq WithEmail(users, email)
             /\ users' \in UpdateOne(users, matching, a) /\ UNCHANGED listed
      BY <1>7, <2>1, <2>2, Written
    <3>2. \A u \in users : IsRecord(u)
      BY <1>1
    <3>3. WithEmail(users', e) = WithEmail(users, e)
      BY <3>1, <3>2, UpdateAt
    <3> QED BY <3>1, <3>3
  <2>3. CASE pc[r] \notin {"usersById", "usersByEmail"}
    <3>1. PICK email, matching, a :
             /\ email # e /\ matching \subseteq WithEmail(listed, email)
             /\ listed' \in UpdateOne(listed, matching, a) /\ UNCHANGED users
      BY <1>7, <2>1, <2>3, Written
    <3>2. \A u \in listed : IsRecord(u)
      BY <1>1
    <3>3. WithEmail(listed', e) = WithEmail(listed, e)
      BY <3>1, <3>2, UpdateAt
    <3> QED BY <3>1, <3>3
  <2> QED BY <2>2, <2>3
<1>8. CASE ChangeLinked(r)
  <2>1. pc[r] \in HasEntry
    BY <1>8 DEF ChangeLinked, HasEntry
  <2>2. entry[r].email # e
    BY <2>1, EntryTells
  <2>3. PICK email, matching, a :
           /\ email # e /\ matching \subseteq WithEmail(users, email)
           /\ users' \in UpdateOne(users, matching, a) /\ UNCHANGED listed
    BY <1>8, <2>2 DEF ChangeLinked
  <2>4. \A u \in users : IsRecord(u)
    BY <1>1
  <2>5. WithEmail(users', e) = WithEmail(users, e)
    BY <2>3, <2>4, UpdateAt
  <2> QED BY <2>3, <2>5
<1>9. CASE UNCHANGED <<users, listed>>
  BY <1>9
<1>10. CASE ~(\/ Insert(r) \/ Create(r) \/ InsertOwn(r) \/ List(r) \/ Sync(r) \/ PatchListed(r)
              \/ DropListed(r) \/ WriteTarget(r) \/ ChangeLinked(r))
  BY <1>9, <1>10, StoresStay
<1> QED BY <1>2, <1>3, <1>4, <1>5, <1>6, <1>7, <1>8, <1>10

\* What is known of an address stays known while its accounts and entries do.
LEMMA InformedStays ==
    ASSUME NEW q \in Requests, NEW e, Informed(q, e),
           UNCHANGED ask, pc'[q] = pc[q], account'[q] = account[q], entry'[q] = entry[q],
           Accts(e)' = Accts(e), Entries(e)' = Entries(e)
    PROVE  Informed(q, e)'
BY DEF Informed, Half

\* The account of one who signs in may come, or be changed in part.
LEMMA InformedGrows ==
    ASSUME NEW q \in Requests, NEW e, Informed(q, e), ~Changes(q),
           RecordsInvariant,
           UNCHANGED ask, pc'[q] = pc[q], account'[q] = account[q], entry'[q] = entry[q],
           \A u \in Accts(e) : \E v \in Accts(e)' : Same(v, u), Entries(e)' = Entries(e)
    PROVE  Informed(q, e)'
<1>1. pc[q] \notin WritesUsersOrListed \cup {"patch", "drop", "list", "linkListed", "changeLinked"}
  <2>1. Fits(ask[q], pc[q], account[q], entry[q], targets[q])
        /\ ask[q].kind \in {"login", "session", "settings"}
    BY AskOf DEF Changes
  <2>2. pc[q] \in Path["login"] \cup Path["session"] \cup Path["settings"] \cup {"idle", "done"}
    BY <2>1 DEF Fits
  <2> QED BY <2>2 DEF Path, WritesUsersOrListed
<1>2. /\ pc[q] = "sync" => \E u \in Accts(e)' : u.oid = account[q].oid
      /\ pc[q] = "findOwn" => \/ \E u \in Accts(e)' : u.id = account[q].id
                              \/ \E w \in Entries(e)' : account[q] = StandIn(w)
  BY DEF Informed, Same
<1>3. /\ e \in Guests /\ pc[q] \in {"find", "insert", "sync"} /\ ask[q].kind = "login" =>
            entry[q] \in Entries(e)'
      /\ pc[q] = "insertOwn" => \E w \in Entries(e)' : account[q] = StandIn(w)
  BY DEF Informed
<1> QED BY <1>1, <1>2, <1>3 DEF Informed, WritesUsersOrListed

\* A step that is no change by an administrator.
LEMMA AgreementFree ==
    ASSUME RecordsInvariant, NEW r \in Requests, StepOf(r), NEW e, Agreement(e),
           Accts(e)' = Accts(e), Entries(e)' = Entries(e),
           Working(r, e)' => Informed(r, e)',
           Between(r, e) => Between(r, e)' \/ Agreeing(e)
    PROVE  Agreement(e)'
<1>1. /\ UNCHANGED ask
      /\ \A q \in Requests \ {r} :
            pc'[q] = pc[q] /\ account'[q] = account[q] /\ entry'[q] = entry[q]
  BY LocalsOf
<1>2. Sole(Entries(e)') /\ (Agreeing(e) => Agreeing(e)')
  BY DEF Agreement, Agreeing
<1>3. ASSUME NEW q \in Requests, Working(q, e)' PROVE Informed(q, e)'
  <2>1. CASE q = r
    BY <1>3, <2>1
  <2>2. CASE q # r
    <3>1. Working(q, e)
      BY <1>1, <1>3, <2>2 DEF Working, UnderWay
    <3> QED BY <1>1, <2>2, <3>1, InformedStays DEF Agreement
  <2> QED BY <2>1, <2>2
<1>4. \A q \in Requests \ {r} : Between(q, e) => Between(q, e)'
  BY <1>1 DEF Between, Working, UnderWay
<1> QED BY <1>2, <1>3, <1>4 DEF Agreement

\* A sign-in that makes the account as the entry is.
LEMMA AgreementMade ==
    ASSUME RecordsInvariant, NEW r \in Requests, StepOf(r), NEW e, Agreement(e),
           \A q \in Requests \ {r} : Working(q, e) => ~Changes(q),
           \A u \in Accts(e) : \E v \in Accts(e)' : Same(v, u), Entries(e)' = Entries(e),
           Working(r, e)' => Informed(r, e)', Agreeing(e)'
    PROVE  Agreement(e)'
<1>1. /\ UNCHANGED ask
      /\ \A q \in Requests \ {r} :
            pc'[q] = pc[q] /\ account'[q] = account[q] /\ entry'[q] = entry[q]
  BY LocalsOf
<1>2. Sole(Entries(e)')
  BY DEF Agreement
<1>3. ASSUME NEW q \in Requests, Working(q, e)' PROVE Informed(q, e)'
  <2>1. CASE q = r
    BY <1>3, <2>1
  <2>2. CASE q # r
    <3>1. Working(q, e)
      BY <1>1, <1>3, <2>2 DEF Working, UnderWay
    <3> QED BY <1>1, <2>2, <3>1, InformedGrows DEF Agreement
  <2> QED BY <2>1, <2>2
<1> QED BY <1>2, <1>3 DEF Agreement

\* A step of a change, which no other request meets.
LEMMA AgreementAlone ==
    ASSUME RecordsInvariant, NEW r \in Requests, StepOf(r), NEW e,
           \A q \in Requests \ {r} : ~Working(q, e),
           Sole(Entries(e))', Working(r, e)' => Informed(r, e)', Agreeing(e)' \/ Between(r, e)'
    PROVE  Agreement(e)'
<1>1. /\ UNCHANGED ask
      /\ \A q \in Requests \ {r} : pc'[q] = pc[q]
  BY LocalsOf
<1>2. \A q \in Requests \ {r} : ~Working(q, e)'
  BY <1>1 DEF Working, UnderWay
<1> QED BY <1>2 DEF Agreement

LEMMA SignInIs ==
    ASSUME RecordsInvariant, NEW r \in Requests, SignIn(r), NEW e, e \in ask[r].whom
    PROVE  /\ ask[r].kind \in {"login", "session", "settings"} /\ ~Changes(r)
           /\ Email(r) = e /\ Working(r, e) /\ ~Between(r, e)
           /\ StepOf(r)
<1>1. pc[r] \in {"find", "findAgain", "standIn", "insert", "sync", "reread", "findOwn",
                 "insertOwn", "key", "store"}
  BY DEF SignIn, Find, FindStandIn, Insert, Sync, Reread, FindOwn, InsertOwn, FindKey, StoreKey
<1>2. /\ ask[r].kind \in {"login", "session", "settings"} \cup Administrative
      /\ pc[r] \in Path[ask[r].kind] \cup {"idle", "done"}
  BY AskOf DEF Fits
<1>3. ask[r].kind \in {"login", "session", "settings"}
  BY <1>1, <1>2 DEF Path, Administrative
<1>4. ~Changes(r) /\ Email(r) = e
  BY <1>3, AskOf DEF Changes, Administrative
<1> QED BY <1>1, <1>3, <1>4 DEF Working, UnderWay, Between, WritesUsersOrListed, StepOf

\* What a sign-in reads informs it.
LEMMA SignInInformed ==
    ASSUME RecordsInvariant, NEW r \in Requests, SignIn(r), NEW e,
           e \in ask[r].whom, Informed(r, e),
           ~(Insert(r) \/ Sync(r) \/ InsertOwn(r))
    PROVE  Informed(r, e)'
<1>1. /\ ask[r].kind \in {"login", "session", "settings"} /\ Email(r) = e
  BY SignInIs
<1>2. UNCHANGED <<users, listed, ask, entry>> /\ \A place : Goto(r, place) => pc'[r] = place
  BY DEF SignIn, Find, FindStandIn, Reread, FindOwn, FindKey, StoreKey, Local, Goto,
         RecordsInvariant, Types
<1>3. \A u : Reads(r, u) => account'[r] = u
  BY DEF Reads, RecordsInvariant, Types
<1>4. CASE Find(r)
  <2>1. PICK u \in FindOne(WithEmail(users, e)) :
          IF u # NoRecord
          THEN /\ Reads(r, u)
               /\ \E place \in Found(r) : Goto(r, IF pc[r] = "findAgain" THEN "key" ELSE place)
          ELSE /\ UNCHANGED account
               /\ Goto(r, IF pc[r] = "findAgain" THEN "key" ELSE NotFound(r))
    BY <1>1, <1>4 DEF Find
  <2>2. e \in Guests /\ pc[r] = "find" /\ ask[r].kind = "login" => entry[r] \in Entries(e)
    BY DEF Informed
  <2>3. CASE u # NoRecord
    <3>1. u \in Accts(e) /\ account'[r] = u
      BY <1>3, <2>1, <2>3 DEF FindOne, Accts
    <3>2. pc'[r] = "sync" => pc[r] = "find" /\ ask[r].kind = "login"
      BY <1>1, <1>2, <1>4, <2>1, <2>3 DEF Find, Found
    <3>3. pc'[r] \in {"key", "reread", "sync", "findAgain", "findOwn"}
      BY <1>1, <1>2, <2>1, <2>3 DEF Found
    <3> QED BY <1>2, <2>2, <3>1, <3>2, <3>3 DEF Informed, Accts, Entries, WritesUsersOrListed
  <2>4. CASE u = NoRecord
    <3>1. /\ pc'[r] \in {"key", "insert", "standIn"}
          /\ pc'[r] = "insert" => pc[r] = "find" /\ ask[r].kind = "login"
      BY <1>1, <1>2, <1>4, <2>1, <2>4 DEF Find, NotFound
    <3> QED BY <1>2, <2>2, <3>1 DEF Informed, Accts, Entries, WritesUsersOrListed
  <2> QED BY <2>3, <2>4
<1>5. CASE FindStandIn(r)
  <2>1. PICK w \in FindOne(WithEmail(listed, e)) :
          IF w = NoRecord
          THEN Goto(r, "done") /\ UNCHANGED account
          ELSE /\ Reads(r, StandIn(w))
               /\ Goto(r, IF ask[r].kind = "session" THEN "key" ELSE "findOwn")
    BY <1>1, <1>5 DEF FindStandIn
  <2>2. CASE w = NoRecord
    BY <1>2, <2>1, <2>2 DEF Informed, WritesUsersOrListed
  <2>3. CASE w # NoRecord
    <3>1. w \in Entries(e) /\ account'[r] = StandIn(w)
      BY <1>3, <2>1, <2>3 DEF FindOne, Entries
    <3>2. pc'[r] \in {"key", "findOwn"}
      BY <1>2, <2>1, <2>3
    <3> QED BY <1>2, <3>1, <3>2 DEF Informed, Entries, WritesUsersOrListed
  <2> QED BY <2>2, <2>3
<1>6. CASE FindOwn(r)
  <2>1. UNCHANGED account /\ pc[r] = "findOwn"
    BY <1>6 DEF FindOwn
  <2>2. pc'[r] \in {"insertOwn", "done"}
        /\ (pc'[r] = "insertOwn" => WithId(users, account[r].id) = {})
    BY <1>2, <1>6 DEF FindOwn
  <2>3. pc'[r] = "insertOwn" => \E w \in Entries(e) : account[r] = StandIn(w)
    BY <2>1, <2>2 DEF Informed, WithId, Accts, WithEmail
  <2> QED BY <1>2, <2>1, <2>2, <2>3 DEF Informed, Entries, WritesUsersOrListed
<1>7. CASE Reread(r) \/ FindKey(r) \/ StoreKey(r)
  <2>1. pc'[r] \in {"done", "key", "store"}
    BY <1>2, <1>7 DEF Reread, FindKey, StoreKey
  <2> QED BY <2>1 DEF Informed, WritesUsersOrListed
<1> QED BY <1>4, <1>5, <1>6, <1>7 DEF SignIn

LEMMA SignInAgrees ==
    ASSUME RecordsInvariant, UsersUnique, NEW r \in Requests, SignIn(r), NEW e,
           e \in ask[r].whom, ApartAt(e), Agreement(e), Sole(Accts(e)), Sole(Accts(e))'
    PROVE  Agreement(e)'
<1>1. /\ ask[r].kind \in {"login", "session", "settings"} /\ ~Changes(r)
      /\ Email(r) = e /\ Working(r, e) /\ ~Between(r, e) /\ StepOf(r)
  BY SignInIs
<1>2. Informed(r, e) /\ Sole(Entries(e))
  BY <1>1 DEF Agreement
<1>3. \A q \in Requests \ {r} : Working(q, e) => ~Changes(q)
  BY <1>1 DEF ApartAt
<1>4. CASE ~(Insert(r) \/ Sync(r) \/ InsertOwn(r))
  <2>1. UNCHANGED <<users, listed>>
    BY <1>4 DEF SignIn, Find, FindStandIn, Reread, FindOwn, FindKey, StoreKey
  <2>2. Accts(e)' = Accts(e) /\ Entries(e)' = Entries(e)
    BY <2>1 DEF Accts, Entries
  <2>3. Informed(r, e)'
    BY <1>2, <1>4, SignInInformed
  <2> QED BY <1>1, <2>2, <2>3, AgreementFree
<1>5. ASSUME Insert(r) \/ Sync(r) \/ InsertOwn(r), Agreeing(e)',
             \A u \in Accts(e) : \E v \in Accts(e)' : Same(v, u)
      PROVE  Agreement(e)'
  <2>1. Entries(e)' = Entries(e)
    BY <1>5 DEF Insert, Sync, InsertOwn, Entries
  <2>2. pc'[r] \in {"reread", "done"}
    BY <1>5 DEF Insert, Sync, InsertOwn, Goto, RecordsInvariant, Types
  <2>3. Informed(r, e)'
    BY <2>2 DEF Informed, WritesUsersOrListed
  <2> QED BY <1>1, <1>3, <1>5, <2>1, <2>3, AgreementMade
<1>6. CASE Insert(r) \/ InsertOwn(r)
  <2>1. PICK x : /\ users' = users \cup {x} /\ x.email \in ask[r].whom
                 /\ Insert(r) /\ entry[r] # NoRecord => Agree(x, entry[r])
                 /\ InsertOwn(r) => Agree(x, account[r])
    BY <1>6, Inserted
  <2>2. x.email = e
    BY <1>1, <2>1, AskOf
  <2>3. Accts(e)' = Accts(e) \cup {x}
    BY <2>1, <2>2 DEF Accts, WithEmail
  <2>4. \A u \in Accts(e)' : u = x
    BY <2>3 DEF Sole
  <2>5. ASSUME NEW w \in Entries(e) PROVE Agree(x, w)
    <3> e \in Guests
      BY DEF Entries, WithEmail, RecordsInvariant, Records, GuestsListed
    <3>1. CASE Insert(r)
      <4>1. pc[r] = "insert"
        BY <3>1 DEF Insert
      <4>2. ask[r].kind = "login"
        BY <1>1, <4>1, AskOf DEF Fits, Path
      <4>3. entry[r] \in Entries(e)
        BY <1>2, <4>1, <4>2 DEF Informed
      <4>4. entry[r] # NoRecord
        BY <4>3, StoredAreRecords, NoRecordIsNone DEF Entries, WithEmail
      <4> QED BY <1>2, <2>1, <3>1, <4>3, <4>4 DEF Sole
    <3>2. CASE InsertOwn(r)
      <4>1. account[r] = StandIn(w)
        BY <1>2, <3>2 DEF InsertOwn, Informed, Sole
      <4>2. IsRecord(w)
        BY StoredAreRecords DEF Entries, WithEmail
      <4>3. account[r].active = w.active /\ account[r].role = w.role
        BY <4>1, <4>2 DEF StandIn, IsRecord, RecordFields
      <4> QED BY <1>2, <2>1, <3>2, <4>3 DEF Sole, Agree
    <3> QED BY <1>6, <3>1, <3>2
  <2>6. Entries(e)' = Entries(e)
    BY <1>6 DEF Insert, InsertOwn, Entries
  <2>7. Agreeing(e)'
    BY <2>4, <2>5, <2>6 DEF Agreeing
  <2>8. \A u \in Accts(e) : \E v \in Accts(e)' : Same(v, u)
    BY <2>3, StoredAreRecords DEF Accts, WithEmail
  <2> QED BY <1>5, <1>6, <2>7, <2>8
<1>7. CASE Sync(r)
  <2>1. entry[r] \in Entries(e) /\ \E u \in Accts(e) : u.oid = account[r].oid
    <3>1. pc[r] = "sync"
      BY <1>7 DEF Sync
    <3>2. ask[r].kind = "login"
      BY <1>1, <3>1, AskOf DEF Fits, Path
    <3>3. e \in Guests
      BY <1>1, <3>1, AskOf DEF Fits, HasEntry
    <3> QED BY <1>2, <3>1, <3>2, <3>3 DEF Informed
  <2>2. \A u \in Accts(e) : u.oid = account[r].oid /\ u \in users /\ IsRecord(u)
    BY <2>1, StoredAreRecords DEF Sole, Accts, WithEmail
  <2> DEFINE put(u) == IF u.oid = account[r].oid THEN Put(u, entry[r].active, entry[r].role)
                       ELSE u
  <2>3. users' = {put(u) : u \in users} /\ UNCHANGED listed
    BY <1>7 DEF Sync, Put
  <2>4. \A u \in users : Same(put(u), u)
    BY StoredAreRecords, PutIs
  <2>5. \A u \in Accts(e) : put(u).active = entry[r].active /\ put(u).role = entry[r].role
    BY <2>2, PutIs
  <2> HIDE DEF put
  <2>6. Accts(e)' = {put(u) : u \in Accts(e)} /\ Entries(e)' = Entries(e)
    BY <2>3, <2>4 DEF Accts, Entries, WithEmail, Same
  <2>7. Agreeing(e)'
    BY <1>2, <2>1, <2>5, <2>6 DEF Agreeing, Agree, Sole
  <2>8. \A u \in Accts(e) : \E v \in Accts(e)' : Same(v, u)
    BY <2>2, <2>4, <2>6
  <2> QED BY <1>5, <1>7, <2>7, <2>8
<1> QED BY <1>4, <1>6, <1>7

\* One of the four writes of a change.
\* A write touches those whose record it has read.
LEMMA WrittenElsewhere ==
    ASSUME RecordsInvariant, NEW r \in Requests, WriteTarget(r), NEW e, account[r].email # e
    PROVE  Accts(e)' = Accts(e) /\ Entries(e)' = Entries(e)
<1>1. \A u \in users \cup listed : IsRecord(u)
  BY StoredAreRecords
<1>2. CASE pc[r] \in {"usersById", "usersByEmail"}
  <2>1. PICK email, matching, b :
           /\ email # e /\ matching \subseteq WithEmail(users, email)
           /\ users' \in UpdateOne(users, matching, b) /\ UNCHANGED listed
    BY <1>2, Written
  <2>2. \A u \in users : IsRecord(u)
    BY <1>1
  <2>3. WithEmail(users', e) = WithEmail(users, e)
    BY <2>1, <2>2, UpdateAt
  <2> QED BY <2>1, <2>3 DEF Accts, Entries
<1>3. CASE pc[r] \notin {"usersById", "usersByEmail"}
  <2>1. PICK email, matching, b :
           /\ email # e /\ matching \subseteq WithEmail(listed, email)
           /\ listed' \in UpdateOne(listed, matching, b) /\ UNCHANGED users
    BY <1>3, Written
  <2>2. \A u \in listed : IsRecord(u)
    BY <1>1
  <2>3. WithEmail(listed', e) = WithEmail(listed, e)
    BY <2>1, <2>2, UpdateAt
  <2> QED BY <2>1, <2>3 DEF Accts, Entries
<1> QED BY <1>2, <1>3

LEMMA WriteTargetAgrees ==
    ASSUME RecordsInvariant, NEW r \in Requests, WriteTarget(r), NEW e, e \in ask[r].whom,
           \A q \in Requests \ {r} : ~Working(q, e), Agreement(e), Sole(Accts(e))
    PROVE  Agreement(e)'
<1> DEFINE a == ask[r]
<1>1. /\ pc[r] \in WritesUsersOrListed /\ pc'[r] \in {Steps[pc[r]], "next"}
      /\ pc'[r] = "next" => Steps[pc[r]] = "link"
      /\ account'[r] = account[r] /\ UNCHANGED ask
  BY DEF WriteTarget, WritesUsersOrListed, Steps, Goto, RecordsInvariant, Types
<1>2. Working(r, e) /\ StepOf(r) /\ Working(r, e)'
  BY <1>1 DEF Working, UnderWay, WritesUsersOrListed, StepOf, Administer, Steps
<1>3. Informed(r, e) /\ Sole(Entries(e))
  BY <1>2 DEF Agreement
<1>4. \A u \in users \cup listed : IsRecord(u)
  BY StoredAreRecords
<1>5. CASE account[r].email # e
  <2>1. Accts(e)' = Accts(e) /\ Entries(e)' = Entries(e)
    BY <1>5, WrittenElsewhere
  <2>2. ~Between(r, e)
    BY <1>1, <1>5 DEF Between, WritesUsersOrListed
  <2>3. Informed(r, e)'
    BY <1>1, <1>5 DEF Informed, Steps, WritesUsersOrListed
  <2> QED BY <1>2, <2>1, <2>2, <2>3, AgreementFree
<1>6. CASE account[r].email = e
  <2>1. /\ \A u \in Accts(e), w \in Entries(e) : Agree(Changed(u, a), Changed(w, a))
        /\ pc[r] = "listedByEmail" => \A u \in Accts(e) : Changed(u, a) = u
    BY <1>1, <1>3, <1>6 DEF Informed, Half
  <2>2. CASE pc[r] \in {"usersById", "usersByEmail"}
    <3>1. PICK matching :
            /\ matching \subseteq WithEmail(users, e)
            /\ users' \in UpdateOne(users, matching, a) /\ UNCHANGED listed
            /\ pc[r] = "usersByEmail" => matching = WithEmail(users, e)
      BY <1>6, <2>2, Written DEF Matching
    <3>2. \A u \in users : IsRecord(u)
      BY <1>4
    <3>3. /\ matching = {} => users' = users
          /\ matching # {} => \E u \in users : /\ WithEmail(users, e) = {u}
                                               /\ WithEmail(users', e) = {Changed(u, a)}
      BY <3>1, <3>2, UpdateAt DEF Accts
    <3>4. \A v \in Accts(e)' : Changed(v, a) = v \/ v \in Accts(e)
      BY <3>2, <3>3, ChangedTwice DEF Accts
    <3>5. \A v \in Accts(e)' : \E u \in Accts(e) : Changed(v, a) = Changed(u, a)
      BY <3>2, <3>3, ChangedTwice DEF Accts
    <3>6. pc[r] = "usersByEmail" => \A v \in Accts(e)' : Changed(v, a) = v
      BY <3>1, <3>2, <3>3, ChangedTwice DEF Accts
    <3>7. Entries(e)' = Entries(e) /\ Sole(Entries(e))'
      BY <1>3, <3>1 DEF Entries
    <3>8. Half(a, e)'
      BY <1>1, <2>1, <3>5, <3>7 DEF Half
    <3>9. pc'[r] \in {"listedById", "listedByEmail"}
          /\ (pc'[r] = "listedByEmail" => pc[r] = "usersByEmail")
      BY <1>1, <2>2 DEF Steps
    <3>10. Informed(r, e)'
      BY <1>1, <3>6, <3>8, <3>9 DEF Informed, WritesUsersOrListed
    <3>11. Between(r, e)'
      BY <1>1, <1>2, <1>6, <3>9 DEF Between, WritesUsersOrListed
    <3> QED BY <1>2, <3>7, <3>10, <3>11, AgreementAlone
  <2>3. CASE pc[r] \in {"listedById", "listedByEmail"}
    <3>1. PICK matching :
            /\ matching \subseteq WithEmail(listed, e)
            /\ listed' \in UpdateOne(listed, matching, a) /\ UNCHANGED users
            /\ pc[r] = "listedByEmail" => matching = WithEmail(listed, e)
      BY <1>6, <2>3, Written DEF Matching
    <3>2. \A u \in listed : IsRecord(u)
      BY <1>4
    <3>3. /\ matching = {} => listed' = listed
          /\ matching # {} => \E u \in listed : /\ WithEmail(listed, e) = {u}
                                                /\ WithEmail(listed', e) = {Changed(u, a)}
      BY <1>3, <3>1, <3>2, UpdateAt DEF Entries
    <3>4. \A v \in Entries(e)' : \E w \in Entries(e) : Changed(v, a) = Changed(w, a)
      BY <3>2, <3>3, ChangedTwice DEF Entries
    <3>5. Accts(e)' = Accts(e)
      BY <3>1 DEF Accts
    <3>6. Sole(Entries(e))'
      BY <1>3, <3>3 DEF Entries, Sole
    <3>7. CASE pc[r] = "listedById"
      <4>1. pc'[r] = "usersByEmail"
        BY <1>1, <3>7 DEF Steps
      <4>2. Half(a, e)'
        BY <1>1, <2>1, <3>4, <3>5 DEF Half
      <4>3. Informed(r, e)'
        BY <1>1, <4>1, <4>2 DEF Informed, WritesUsersOrListed
      <4>4. Between(r, e)'
        BY <1>1, <1>2, <1>6, <4>1 DEF Between, WritesUsersOrListed
      <4> QED BY <1>2, <3>6, <4>3, <4>4, AgreementAlone
    <3>8. CASE pc[r] = "listedByEmail"
      <4>1. \A v \in Entries(e)' : \E w \in Entries(e) : v = Changed(w, a)
        BY <3>1, <3>3, <3>8 DEF Entries
      <4>2. Agreeing(e)'
        BY <2>1, <3>5, <3>8, <4>1 DEF Agreeing
      <4>3. Informed(r, e)'
        BY <1>1, <3>8 DEF Informed, WritesUsersOrListed, Steps
      <4> QED BY <1>2, <3>6, <4>2, <4>3, AgreementAlone
    <3> QED BY <2>3, <3>7, <3>8
  <2> QED BY <1>1, <2>2, <2>3 DEF WritesUsersOrListed
<1> QED BY <1>5, <1>6

LEMMA AdministerAgrees ==
    ASSUME RecordsInvariant, NEW r \in Requests, Administer(r), NEW e, e \in ask[r].whom,
           ApartAt(e), Agreement(e), Sole(Accts(e))
    PROVE  Agreement(e)'
<1>1. pc[r] \in {"resolve", "next", "link", "scan", "keys"} \cup WritesUsersOrListed
  BY DEF Administer, Resolve, NextTarget, WriteTarget, Link, Scan, FollowKey, Steps,
         WritesUsersOrListed
<1>2. Working(r, e) /\ StepOf(r) /\ Changes(r)
  <2>1. /\ ask[r].kind \in {"login", "session", "settings"} \cup Administrative
        /\ pc[r] \in Path[ask[r].kind] \cup {"idle", "done"}
    BY AskOf DEF Fits
  <2>2. Changes(r)
    BY <1>1, <2>1 DEF Path, Changes, WritesUsersOrListed
  <2> QED BY <1>1, <2>2 DEF Working, UnderWay, StepOf, WritesUsersOrListed
<1>3. \A q \in Requests \ {r} : ~Working(q, e)
  BY <1>2 DEF ApartAt
<1>4. CASE WriteTarget(r)
  BY <1>3, <1>4, WriteTargetAgrees
<1>5. CASE ~WriteTarget(r)
  <2>1. UNCHANGED <<users, listed, ask>> /\ \A place : Goto(r, place) => pc'[r] = place
    BY <1>5 DEF Administer, Resolve, NextTarget, Link, Scan, FollowKey, Goto, RecordsInvariant,
                Types
  <2>2. Accts(e)' = Accts(e) /\ Entries(e)' = Entries(e)
    BY <2>1 DEF Accts, Entries
  <2>3. ~Between(r, e)
    BY <1>5 DEF Administer, Resolve, NextTarget, Link, Scan, FollowKey, Between,
                WritesUsersOrListed
  <2>4. Agreeing(e)
    BY <1>3, <2>3 DEF Agreement, Between
  <2>5. Half(ask[r], e)'
    BY <2>1, <2>2, <2>4, ChangedAgree, StoredAreRecords DEF Half, Agreeing, Accts, Entries,
                                                            WithEmail
  <2>6. pc'[r] \in {"next", "done", "usersById", "scan", "keys"}
    <3>1. CASE Resolve(r) \/ NextTarget(r)
      BY <2>1, <3>1 DEF Resolve, NextTarget
    <3>2. CASE Link(r) \/ Scan(r)
      BY <2>1, <3>2 DEF Link, Scan
    <3>3. CASE FollowKey(r)
      BY <2>1, <3>3 DEF FollowKey
    <3> QED BY <1>5, <3>1, <3>2, <3>3 DEF Administer
  <2>7. Informed(r, e)'
    BY <2>1, <2>5, <2>6 DEF Informed, WritesUsersOrListed
  <2> QED BY <1>2, <2>2, <2>3, <2>7, AgreementFree
<1> QED BY <1>4, <1>5

LEMMA WhitelistIs ==
    ASSUME RecordsInvariant, NEW r \in Requests, Whitelist(r), NEW e, e \in ask[r].whom
    PROVE  /\ pc[r] \in {"findListed", "create", "list", "patch", "drop", "linkListed",
                         "changeLinked"}
           /\ Working(r, e) /\ StepOf(r) /\ Email(r) = e
           /\ pc[r] # "findListed" => Changes(r)
           /\ pc[r] \in HasEntry => entry[r].email = e /\ IsRecord(entry[r])
           /\ pc[r] = "patch" => ask[r].kind = "patchListed"
           /\ pc[r] = "drop" => ask[r].kind = "dropListed"
           /\ pc[r] \in {"linkListed", "changeLinked"} =>
                 ask[r].kind \in {"patchListed", "dropListed"}
<1>1. pc[r] \in {"findListed", "create", "list", "patch", "drop", "linkListed", "changeLinked"}
  BY DEF Whitelist, FindListed, Create, List, PatchListed, DropListed, LinkListed, ChangeLinked
<1>2. /\ ask[r].kind \in {"login", "session", "settings"} \cup Administrative
      /\ pc[r] \in Path[ask[r].kind] \cup {"idle", "done"}
  BY AskOf DEF Fits
<1>3. /\ pc[r] # "findListed" => Changes(r)
      /\ pc[r] = "patch" => ask[r].kind = "patchListed"
      /\ pc[r] = "drop" => ask[r].kind = "dropListed"
      /\ pc[r] \in {"linkListed", "changeLinked"} =>
            ask[r].kind \in {"patchListed", "dropListed"}
      /\ ask[r].kind # "update"
  BY <1>1, <1>2 DEF Path, Changes, Administrative
<1>4. Email(r) = e /\ ask[r].whom = {e}
  BY <1>3, AskOf
<1>5. pc[r] \in HasEntry => entry[r].email = e /\ IsRecord(entry[r])
  BY <1>4, EntryTells
<1> QED BY <1>1, <1>3, <1>4, <1>5 DEF Working, UnderWay, StepOf

LEMMA WhitelistAgrees ==
    ASSUME RecordsInvariant, NEW r \in Requests, Whitelist(r), NEW e, e \in ask[r].whom,
           ApartAt(e), Agreement(e), Sole(Accts(e)), e \notin cut'
    PROVE  Agreement(e)'
<1> DEFINE a == ask[r]
<1>1. Working(r, e) /\ StepOf(r) /\ Email(r) = e
  BY WhitelistIs
<1>2. Informed(r, e) /\ Sole(Entries(e))
  BY <1>1 DEF Agreement
<1>3. UNCHANGED ask /\ \A place : Goto(r, place) => pc'[r] = place
  BY <1>1, LocalsOf DEF Goto, RecordsInvariant, Types
<1>4. \A u \in users \cup listed : IsRecord(u)
  BY StoredAreRecords
<1>5. ASSUME pc[r] # "findListed"
      PROVE  \A q \in Requests \ {r} : ~Working(q, e)
  BY <1>1, <1>5, WhitelistIs DEF ApartAt
<1>6. ASSUME pc[r] # "findListed", ~Between(r, e)
      PROVE  Agreeing(e)
  BY <1>5, <1>6 DEF Agreement, Between
<1>7. CASE FindListed(r)
  <2>1. pc[r] = "findListed" /\ UNCHANGED <<users, listed>>
    BY <1>7 DEF FindListed
  <2>2. PICK w \in FindOne(WithEmail(listed, e)) :
          /\ entry' = [entry EXCEPT ![r] = w]
          /\ pc'[r] = IF (w = NoRecord) = (a.kind = "addListed") THEN AfterListed[a.kind]
                      ELSE "done"
    BY <1>1, <1>3, <1>7 DEF FindListed
  <2>3. entry'[r] = w /\ (w # NoRecord => w \in Entries(e))
    BY <2>2 DEF FindOne, Entries, RecordsInvariant, Types
  <2>4. w = NoRecord => Entries(e) = {}
    <3>1. \A x \in Entries(e) : x # NoRecord
      BY StoredAreRecords, NoRecordIsNone DEF Entries, WithEmail
    <3> QED BY <2>2, <3>1 DEF FindOne, Entries
  <2>5. a.kind \in {"login", "addListed", "patchListed", "dropListed"}
    <3>1. /\ a.kind \in {"login", "session", "settings"} \cup Administrative
          /\ pc[r] \in Path[a.kind] \cup {"idle", "done"}
      BY AskOf DEF Fits
    <3> QED BY <2>1, <3>1 DEF Path, Administrative
  <2>6. \/ pc'[r] = "done"
        \/ w # NoRecord /\ pc'[r] \in {"find", "patch", "drop"}
        \/ w = NoRecord /\ pc'[r] = "list"
    BY <2>2, <2>5 DEF AfterListed
  <2>7. Informed(r, e)'
    BY <2>1, <2>3, <2>4, <2>6 DEF Informed, Entries, WritesUsersOrListed
  <2>8. ~Between(r, e)
    BY <2>1 DEF Between, WritesUsersOrListed
  <2>9. Accts(e)' = Accts(e) /\ Entries(e)' = Entries(e)
    BY <2>1 DEF Accts, Entries
  <2> QED BY <1>1, <2>7, <2>8, <2>9, AgreementFree
<1>8. CASE Create(r)
  <2>1. pc[r] = "create" /\ pc'[r] = "done" /\ UNCHANGED listed /\ Alone(r, listed)
    BY <1>3, <1>8 DEF Create
  <2>2. Entries(e)' = {}
    BY <1>1, <2>1 DEF Alone, Entries
  <2>3. Informed(r, e)' /\ Sole(Entries(e))' /\ Agreeing(e)'
    BY <2>1, <2>2 DEF Informed, Sole, Agreeing, WritesUsersOrListed
  <2> QED BY <1>1, <1>5, <2>1, <2>3, AgreementAlone
<1>9. CASE List(r)
  <2>1. pc[r] = "list" /\ pc'[r] = "done" /\ UNCHANGED users /\ Alone(r, users)
    BY <1>3, <1>9 DEF List
  <2>2. Accts(e)' = {}
    BY <1>1, <2>1 DEF Alone, Accts
  <2>3. Entries(e) = {}
    BY <1>2, <2>1 DEF Informed
  <2>4. PICK x : listed' = listed \cup {x}
    BY <1>9 DEF List
  <2>5. Sole(Entries(e))'
    BY <2>3, <2>4 DEF Entries, WithEmail, Sole
  <2>6. Informed(r, e)' /\ Agreeing(e)'
    BY <2>1, <2>2 DEF Informed, Agreeing, WritesUsersOrListed
  <2> QED BY <1>1, <1>5, <2>1, <2>5, <2>6, AgreementAlone
<1>10. CASE PatchListed(r)
  <2>1. pc[r] = "patch" /\ pc'[r] = "linkListed" /\ UNCHANGED users
    BY <1>3, <1>10 DEF PatchListed
  <2>2. a.kind = "patchListed"
    BY <2>1, WhitelistIs
  <2>3. entry[r] \in Entries(e)
    BY <1>2, <2>1 DEF Informed
  <2>4. Agreeing(e)
    BY <1>6, <2>1 DEF Between, WritesUsersOrListed
  <2> DEFINE patch(w) == IF w.oid = entry[r].oid THEN Changed(w, a) ELSE w
  <2>5. listed' = {patch(w) : w \in listed}
    BY <1>10 DEF PatchListed
  <2>6. \A w \in listed : Same(patch(w), w)
    BY <1>4, StoredAreRecords, ChangedIs
  <2>7. patch(entry[r]) = Changed(entry[r], a)
    OBVIOUS
  <2> HIDE DEF patch
  <2>8. \A w \in Entries(e)' : w = Changed(entry[r], a)
    BY <1>2, <2>3, <2>5, <2>6, <2>7 DEF Entries, WithEmail, Same, Sole
  <2>9. IsRecord(entry[r]) /\ \A u \in Accts(e) : IsRecord(u) /\ Agree(u, entry[r])
    BY <1>4, <2>3, <2>4 DEF Agreeing, Accts, Entries, WithEmail
  <2>10. Accts(e)' = Accts(e)
    BY <2>1 DEF Accts
  <2>11. \A w \in Entries(e)' : Changed(w, a) = w
    BY <2>8, <2>9, ChangedTwice
  <2>12. Half(a, e)'
    <3>1. \A u \in Accts(e) : Agree(Changed(u, a), Changed(entry[r], a))
      BY <2>9, ChangedAgree
    <3> QED BY <1>3, <2>8, <2>10, <2>11, <3>1 DEF Half
  <2>13. Informed(r, e)'
    BY <1>3, <2>1, <2>2, <2>11, <2>12 DEF Informed, WritesUsersOrListed
  <2>14. Between(r, e)' /\ Sole(Entries(e))'
    BY <1>1, <1>3, <2>1, <2>8 DEF Between, Working, UnderWay, Sole
  <2> QED BY <1>1, <1>5, <2>1, <2>13, <2>14, AgreementAlone
<1>11. CASE DropListed(r)
  <2>1. /\ pc[r] = "drop" /\ pc'[r] = "linkListed"
        /\ listed' = {w \in listed : w.oid # entry[r].oid}
    BY <1>3, <1>11 DEF DropListed
  <2>2. entry[r] \in Entries(e)
    BY <1>2, <2>1 DEF Informed
  <2>3. Entries(e)' = {}
    BY <1>2, <2>1, <2>2 DEF Entries, WithEmail, Sole
  <2>4. Informed(r, e)' /\ Sole(Entries(e))' /\ Agreeing(e)'
    BY <2>1, <2>3 DEF Informed, Sole, Agreeing, WritesUsersOrListed
  <2> QED BY <1>1, <1>5, <2>1, <2>4, AgreementAlone
<1>12. CASE LinkListed(r)
  <2>1. pc[r] = "linkListed" /\ pc'[r] = "changeLinked" /\ UNCHANGED <<users, listed>>
    BY <1>3, <1>12 DEF LinkListed
  <2>2. Accts(e)' = Accts(e) /\ Entries(e)' = Entries(e)
    BY <2>1 DEF Accts, Entries
  <2>3. Informed(r, e)'
    BY <1>2, <1>3, <2>1, <2>2 DEF Informed, Half, WritesUsersOrListed
  <2>4. Between(r, e)'
    BY <1>1, <1>3, <2>1 DEF Between, Working, UnderWay
  <2> QED BY <1>1, <2>2, <2>3, <2>4, AgreementFree
<1>13. CASE ChangeLinked(r)
  <2>1. pc[r] = "changeLinked" /\ pc'[r] \in {"scan", "done"} /\ UNCHANGED listed
    BY <1>3, <1>13 DEF ChangeLinked
  <2>2. Entries(e)' = Entries(e)
    BY <2>1 DEF Entries
  <2>3. Informed(r, e)'
    BY <2>1 DEF Informed, WritesUsersOrListed
  <2>4. Agreeing(e)'
    <3>1. CASE Entries(e) = {}
      BY <2>2, <3>1 DEF Agreeing
    <3>2. CASE Entries(e) # {}
      <4>1. /\ a.kind = "patchListed"
            /\ \A u \in Accts(e), w \in Entries(e) : Agree(Changed(u, a), Changed(w, a))
            /\ \A w \in Entries(e) : Changed(w, a) = w
        BY <1>2, <2>1, <3>2 DEF Informed, Half
      <4>2. entry[r].email = e /\ Change(r) = a
        BY <2>1, <4>1, WhitelistIs DEF HasEntry, Change
      <4>3. PICK matching : /\ matching \subseteq WithEmail(users, e)
                            /\ WithEmail(users, e) \subseteq matching
                            /\ users' \in UpdateOne(users, matching, a)
        BY <1>13, <4>2 DEF ChangeLinked
      <4>4. \A u \in users : IsRecord(u)
        BY <1>4
      <4>5. /\ matching = {} => users' = users
            /\ matching # {} => \E u \in users : /\ WithEmail(users, e) = {u}
                                                 /\ WithEmail(users', e) = {Changed(u, a)}
        BY <4>3, <4>4, UpdateAt DEF Accts
      <4>6. \A v \in Accts(e)' : \E u \in Accts(e) : v = Changed(u, a)
        BY <4>3, <4>5 DEF Accts
      <4> QED BY <2>2, <4>1, <4>6 DEF Agreeing
    <3> QED BY <3>1, <3>2
  <2>5. Sole(Entries(e))'
    BY <1>2, <2>2
  <2> QED BY <1>1, <1>5, <2>1, <2>3, <2>4, <2>5, AgreementAlone
<1> QED BY <1>7, <1>8, <1>9, <1>10, <1>11, <1>12, <1>13 DEF Whitelist

LEMMA StartAgrees ==
    ASSUME RecordsInvariant, NEW r \in Requests, Start(r), NEW e, e \in ask[r].whom,
           Agreement(e)
    PROVE  Agreement(e)'
<1>1. /\ pc[r] = "idle" /\ pc'[r] \in {FirstPlace(r), "done"}
      /\ UNCHANGED <<users, listed, ask>>
  BY DEF Start, Goto, RecordsInvariant, Types
<1>2. /\ ask[r].kind \in {"login", "session", "settings"} \cup Administrative
      /\ ask[r].kind # "update" => ask[r].whom = {Email(r)}
  BY AskOf
<1>3. ask[r].kind = "login" /\ e \in Guests => ask[r].whom \subseteq Guests
  BY <1>2
<1>4. /\ pc'[r] \in {"findListed", "find", "resolve", "create", "done"}
      /\ ask[r].kind = "login" /\ e \in Guests => pc'[r] \in {"findListed", "done"}
  BY <1>1, <1>2, <1>3 DEF FirstPlace, Administrative
<1>5. Informed(r, e)'
  BY <1>1, <1>4 DEF Informed, WritesUsersOrListed
<1>6. Accts(e)' = Accts(e) /\ Entries(e)' = Entries(e) /\ ~Between(r, e)
  BY <1>1 DEF Accts, Entries, Between, Working, UnderWay
<1> QED BY <1>5, <1>6, AgreementFree DEF StepOf

\* A change that dies is cut.
LEMMA CrashAgrees ==
    ASSUME RecordsInvariant, NEW r \in Requests, Crash(r), NEW e, e \in ask[r].whom,
           Agreement(e), e \notin cut'
    PROVE  Agreement(e)'
<1>1. ~Changes(r)
  BY DEF Crash
<1>2. /\ ask[r].kind \in {"login", "session", "settings"} \cup Administrative
      /\ pc[r] \in Path[ask[r].kind] \cup {"idle", "done"}
  BY AskOf DEF Fits
<1>3. pc[r] \notin WritesUsersOrListed \cup {"linkListed", "changeLinked"}
  BY <1>1, <1>2 DEF Changes, Path, WritesUsersOrListed
<1>4. UNCHANGED <<users, listed>> /\ pc'[r] = "done"
  BY DEF Crash, Goto, RecordsInvariant, Types
<1>5. Accts(e)' = Accts(e) /\ Entries(e)' = Entries(e) /\ ~Between(r, e) /\ ~Working(r, e)'
  BY <1>3, <1>4 DEF Accts, Entries, Between, Working, UnderWay
<1> QED BY <1>5, AgreementFree DEF StepOf

LEMMA SoleBefore ==
    ASSUME UsersUnique, UsersLast, NEW e, Sole(Accts(e))'
    PROVE  Sole(Accts(e))
<1>1. \A x, y \in Accts(e)' : x = y
  BY DEF Sole
<1>2. ASSUME NEW x \in Accts(e), NEW y \in Accts(e) PROVE x = y
  <2>1. PICK v \in users' : Same(v, x)
    BY <1>2 DEF UsersLast, Accts, WithEmail
  <2>2. PICK w \in users' : Same(w, y)
    BY <1>2 DEF UsersLast, Accts, WithEmail
  <2>3. v = w
    BY <1>1, <1>2, <2>1, <2>2 DEF Accts, WithEmail, Same
  <2> QED BY <1>2, <2>1, <2>2, <2>3 DEF UsersUnique, Same, Accts, WithEmail
<1> QED BY <1>2 DEF Sole

LEMMA AgreementKept ==
    ASSUME RecordsInvariant, AgreementInvariant, NEW r \in Requests, StepOf(r)
    PROVE  AgreementInvariant'
<1>1. UsersUnique /\ UsersUnique' /\ UsersLast
  BY UsersStay DEF AgreementInvariant
<1>2. /\ UNCHANGED ask /\ crossed \subseteq crossed' /\ cut \subseteq cut'
      /\ \A q \in Requests \ {r} :
            pc'[q] = pc[q] /\ account'[q] = account[q] /\ entry'[q] = entry[q]
      /\ Start(r) \/ (UnderWay(r) /\ UNCHANGED crossed)
  BY LocalsOf, PlacesOf DEF RecordsInvariant
<1>3. ASSUME NEW e \in Addresses, e \notin crossed'
      PROVE  ApartAt(e)'
  <2>1. ApartAt(e)
    BY <1>2, <1>3 DEF AgreementInvariant
  <2>2. CASE UnderWay(r)
    BY <1>2, <2>1, <2>2 DEF ApartAt, Working, UnderWay, Changes
  <2>3. CASE Start(r)
    <3>1. e \notin Overlaps(r)
      BY <1>3, <2>3 DEF Start
    <3>2. e \in ask[r].whom =>
            \A q \in Requests \ {r} : Working(q, e) => ~Changes(q) /\ ~Changes(r)
      BY <3>1 DEF Overlaps, Concerned, Working
    <3>3. \A q \in Requests : Working(q, e)' => Working(q, e) \/ (q = r /\ e \in ask[r].whom)
      BY <1>2 DEF Working, UnderWay
    <3>4. \A q \in Requests : Changes(q)' = Changes(q)
      BY <1>2 DEF Changes
    <3> QED BY <2>1, <3>2, <3>3, <3>4 DEF ApartAt
  <2> QED BY <1>2, <2>2, <2>3
<1>4. ASSUME NEW e \in Addresses, Calm(e)'
      PROVE  Agreement(e)'
  <2>1. Sole(Accts(e)) /\ Sole(Accts(e))' /\ e \notin cut' /\ e \notin crossed'
    BY <1>1, <1>4, SoleBefore DEF Calm
  <2>2. Agreement(e) /\ ApartAt(e)
    BY <1>2, <2>1 DEF AgreementInvariant, Calm
  <2>3. CASE e \notin ask[r].whom
    <3>1. Accts(e)' = Accts(e) /\ Entries(e)' = Entries(e)
      BY <2>3, OthersUntouched DEF Accts, Entries
    <3>2. ~Working(r, e)' /\ ~Between(r, e)
      BY <1>2, <2>3 DEF Working, Between
    <3> QED BY <2>2, <3>1, <3>2, AgreementFree
  <2>4. CASE e \in ask[r].whom
    <3>1. CASE SignIn(r)
      BY <1>1, <2>1, <2>2, <2>4, <3>1, SignInAgrees
    <3>2. CASE Administer(r)
      BY <2>1, <2>2, <2>4, <3>2, AdministerAgrees
    <3>3. CASE Whitelist(r)
      BY <2>1, <2>2, <2>4, <3>3, WhitelistAgrees
    <3>4. CASE Start(r)
      BY <2>2, <2>4, <3>4, StartAgrees
    <3>5. CASE Crash(r)
      BY <2>1, <2>2, <2>4, <3>5, CrashAgrees
    <3> QED BY <3>1, <3>2, <3>3, <3>4, <3>5 DEF StepOf
  <2> QED BY <2>3, <2>4
<1> QED BY <1>1, <1>3, <1>4 DEF AgreementInvariant

\* How the collections are found: a guest who has one account has one entry at most,
\* and the two agree.
ListsAgree ==
    \A e \in Guests : Sole(Accts(e)) => Sole(Entries(e)) /\ Agreeing(e)

LEMMA AgreementAtFirst == AccountsInit /\ ListsAgree => AgreementInvariant
<1> SUFFICES ASSUME AccountsInit, ListsAgree PROVE AgreementInvariant
  OBVIOUS
<1>1. users = FirstUsers /\ pc = [r \in Requests |-> "idle"]
  BY DEF AccountsInit
<1>2. IsFiniteSet(users) /\ \A u, v \in users : u.oid = v.oid => u = v
  BY <1>1, FirstRecordsAssumption
<1>3. \A r \in Requests : \A e : ~Working(r, e)
  BY <1>1 DEF Working, UnderWay
<1>4. \A e : ApartAt(e)
  BY <1>3 DEF ApartAt
<1>5. \A e \in Addresses : e \notin Guests => Entries(e) = {}
  BY FirstRecordsAssumption DEF AccountsInit, Entries, WithEmail
<1>6. \A e \in Addresses : Calm(e) => Agreement(e)
  BY <1>3, <1>5 DEF Calm, Agreement, ListsAgree, Agreeing, Sole
<1> QED BY <1>2, <1>4, <1>6 DEF AgreementInvariant, UsersUnique

LEMMA AgreementStep ==
    ASSUME RecordsInvariant, AgreementInvariant, [AccountsNext]_accountVars
    PROVE  AgreementInvariant'
<1>1. CASE \E r \in Requests : StepOf(r)
  BY <1>1, AgreementKept
<1>2. CASE UNCHANGED accountVars
  BY <1>2 DEF accountVars, AgreementInvariant, UsersUnique, ApartAt, Calm, Agreement, Working, UnderWay,
              Changes, Accts, Entries, Informed, Between, Agreeing, Half
<1> QED BY <1>1, <1>2 DEF AccountsNext, StepOf

LEMMA OneIsSole ==
    ASSUME UsersUnique, NEW e, One(e)
    PROVE  Sole(Accts(e))
<1>1. Accts(e) \subseteq users
  BY DEF Accts, WithEmail
<1>2. IsFiniteSet(Accts(e)) /\ Cardinality(Accts(e)) = 1
  BY <1>1, FS_Subset DEF UsersUnique, One, Accts
<1>3. \E x : Accts(e) = {x}
  BY <1>2, FS_Singleton
<1> QED BY <1>3 DEF Sole

\* A guest's account and his entry say the same, though no call writes both.
THEOREM ListsStayTrue == AccountsSpec /\ ListsAgree => []ListAndAccountAgree
<1>1. RecordsInvariant /\ AgreementInvariant /\ [AccountsNext]_accountVars
        => AgreementInvariant'
  BY AgreementStep
<1>2. RecordsInvariant /\ AgreementInvariant => ListAndAccountAgree
  <2> SUFFICES ASSUME RecordsInvariant, AgreementInvariant,
                      NEW u \in users, NEW w \in listed, u.email = w.email,
                      AtRest(u.email), One(u.email), u.email \notin crossed \cup cut
               PROVE  Agree(u, w)
    BY DEF ListAndAccountAgree, Agree
  <2> DEFINE e == u.email
  <2>1. e \in Addresses
    BY DEF RecordsInvariant, Records, GuestsListed, Addresses
  <2>2. u \in Accts(e) /\ w \in Entries(e)
    BY DEF Accts, Entries, WithEmail
  <2>3. Sole(Accts(e))
    BY OneIsSole DEF AgreementInvariant
  <2>4. Agreement(e)
    BY <2>1, <2>3 DEF AgreementInvariant, Calm
  <2>5. \A r \in Requests : ~Working(r, e)
    BY DEF AtRest, Working
  <2>6. Agreeing(e)
    BY <2>4, <2>5 DEF Agreement, Between
  <2> QED BY <2>2, <2>6 DEF Agreeing
<1> QED BY <1>1, <1>2, AgreementAtFirst, RecordsStaySound, PTL DEF AccountsSpec

-----------------------------------------------------------------------------
(***************************************************************************)
(* The keys follow the accounts.                                           *)
(***************************************************************************)
\* A key as an account that is open or not wants it: any key that it owns, whatever
\* the field that says so, and one that has been made or changed for it.
Done(k, open) == open \/ ~k.on
Made(k, open) == k.on = open /\ k.reason = IF open THEN "none" ELSE "account-inactive"

KeysFollowed(e) == \A u \in Accts(e) : KeysFollow(u)

\* r is to make the keys of e follow, and has perhaps changed the account.
Following(r, e) ==
    /\ Working(r, e) /\ account[r].email = e
    /\ pc[r] \in WritesUsersOrListed \cup {"link", "scan", "keys"}
    /\ "active" \in Change(r).fields

\* What r knows at its place of the account whose keys it makes follow: that the one
\* it has read is as active as the one there is, or is the one that it has changed,
\* and which of the keys it has done.
KeyInformed(r, e) ==
    /\ ask[r].kind = "settings" /\ Accts(e) = {} => \A w \in Entries(e) : w.active
    /\ pc[r] \in {"findAgain", "key", "store"} =>
          \/ \E u \in Accts(e) : u.oid = account[r].oid /\ u.active = account[r].active
          \/ \E w \in Entries(e) : account[r] = StandIn(w)
    /\ pc[r] = "changeLinked" =>
          IF account[r] = NoRecord THEN Accts(e) = {}
          ELSE \A u \in Accts(e) : u.id = account[r].id /\ u.oid = account[r].oid
    /\ pc[r] = "link" => "active" \in ask[r].fields
    /\ pc[r] \in {"listedByEmail", "link"} /\ account[r].email = e /\ "active" \in ask[r].fields =>
          \A u \in Accts(e) : u.active = Opens(r)
    /\ pc[r] \in {"scan", "keys"} /\ account[r].email = e =>
          /\ \A u \in Accts(e) :
                u.id = account[r].id /\ u.oid = account[r].oid /\ u.active = Opens(r)
          /\ "active" \in Change(r).fields
    /\ pc[r] = "keys" /\ account[r].email = e =>
          \A u \in Accts(e) : \A k \in KeysOf(u) : Done(k, Opens(r)) \/ k \in todo[r]

KeysAgreement(e) ==
    /\ \A r \in Requests : Working(r, e) => KeyInformed(r, e)
    /\ KeysFollowed(e) \/ \E r \in Requests : Following(r, e)

\* Nobody owns a key who is not there.
OwnersKnown ==
    /\ \A u \in users : u.email \in Addresses
    /\ \A r \in Requests : pc[r] \in Early => \A k \in keys : k.owner # r
    /\ \A k \in keys : k.owner \in Addresses => Accts(k.owner) # {}

FollowInvariant == OwnersKnown /\ \A e \in Addresses : Calm(e) => KeysAgreement(e)

LEMMA DoneFollow ==
    ASSUME NEW u, \A k \in KeysOf(u) : Done(k, u.active)
    PROVE  KeysFollow(u)
BY DEF Done, KeysFollow

LEMMA MadeDone ==
    ASSUME NEW k, NEW open, Made(k, open)
    PROVE  Done(k, open)
BY DEF Made, Done

\* The keys follow a version of an account that is as active.
LEMMA FollowSame ==
    ASSUME NEW u, NEW v, Same(v, u), v.active = u.active, KeysFollow(u)
    PROVE  KeysFollow(v)
BY DEF Same, KeysFollow, KeysOf, OwnerId

\* What a step does to the keys.
LEMMA KeyTouched ==
    ASSUME RecordsInvariant, KeysInvariant, NEW r \in Requests, StepOf(r)
    PROVE  \/ UNCHANGED keys
           \/ /\ StoreKey(r) /\ pc[r] = "store"
              /\ \E key : /\ key.owner = OwnerId(account[r]) /\ Made(key, account[r].active)
                          /\ keys' \subseteq keys \cup {key}
                          /\ \A k \in keys : k \in keys' \/ k.owner = key.owner
           \/ /\ FollowKey(r) /\ pc[r] = "keys"
              /\ \E k \in todo[r] : \E key :
                    /\ key.owner = k.owner /\ k.owner \in Identifiers(account[r])
                    /\ \E l \in keys : l.owner = key.owner
                    /\ Made(key, Opens(r)) /\ keys' \subseteq keys \cup {key}
                    /\ \A l \in keys : l \in keys' \/ l.owner = key.owner
<1>1. /\ keys \subseteq KeyDocs
      /\ doc[r] = NoKey \/ doc[r] \in KeyDocs
      /\ todo[r] \subseteq KeyDocs
      /\ \A k \in KeyDocs : IsKey(k)
      /\ \A k, l \in KeyDocs : k.id = l.id => k.owner = l.owner
  BY KeyDocsOf DEF KeysInvariant, KeysSound
<1>2. CASE StoreKey(r)
  <2> DEFINE u == account[r]
             new == NewDefaultKey(r)
  <2>1. pc[r] = "store"
    BY <1>2 DEF StoreKey
  <2>2. IsKey(new) /\ new.owner = OwnerId(u) /\ new.on = u.active
        /\ new.reason = IF u.active THEN "none" ELSE "account-inactive"
    BY DEF NewDefaultKey, IsKey, KeyFields
  <2> HIDE DEF new
  <2>3. CASE doc[r] = NoKey /\ keys' = keys \cup {new}
    BY <1>2, <2>1, <2>2, <2>3 DEF Made
  <2>4. CASE doc[r] # NoKey /\ ReplaceKey([new EXCEPT !.id = doc[r].id])
    <3> DEFINE key == [new EXCEPT !.id = doc[r].id]
    <3>1. /\ key.id = doc[r].id /\ key.owner = OwnerId(u) /\ key.on = u.active
          /\ key.reason = IF u.active THEN "none" ELSE "account-inactive"
      BY <2>2 DEF IsKey, KeyFields
    <3>2. ReplaceKey(key)
      BY <2>4
    <3> HIDE DEF key
    <3>3. doc[r].owner = key.owner /\ doc[r] \in KeyDocs
      BY <1>1, <2>1, <2>4, <3>1 DEF KeysInvariant, CopiesOwned
    <3>4. keys' \subseteq keys \cup {key} /\ \A k \in keys : k \in keys' \/ k.id = key.id
      BY <3>2 DEF ReplaceKey
    <3>5. \A k \in keys : k \in keys' \/ k.owner = key.owner
      BY <1>1, <3>1, <3>3, <3>4
    <3>6. Made(key, u.active)
      BY <3>1 DEF Made
    <3> QED BY <1>2, <2>1, <3>1, <3>4, <3>5, <3>6
  <2> QED BY <1>2, <2>3, <2>4 DEF StoreKey, new
<1>3. CASE FollowKey(r) /\ ~UNCHANGED keys
  <2>1. PICK k \in todo[r] : Follows(k, Opens(r)) /\ ReplaceKey(Followed(k, Opens(r)))
    BY <1>3 DEF FollowKey
  <2>2. pc[r] = "keys" /\ k \in KeyDocs /\ IsKey(k) /\ k.owner \in Identifiers(account[r])
    BY <1>1, <1>3, <2>1 DEF FollowKey, KeysInvariant, CopiesOwned
  <2> DEFINE key == Followed(k, Opens(r))
  <2>3. /\ key.id = k.id /\ key.owner = k.owner /\ key.on = Opens(r)
        /\ key.reason = IF Opens(r) THEN "none" ELSE "account-inactive"
    BY <2>2 DEF Followed, IsKey, KeyFields
  <2>4. ReplaceKey(key)
    BY <2>1
  <2> HIDE DEF key
  <2>5. /\ keys' \subseteq keys \cup {key} /\ \A l \in keys : l \in keys' \/ l.id = key.id
        /\ \E l \in keys : l.id = key.id
    BY <1>3, <2>4 DEF ReplaceKey
  <2>6. /\ \A l \in keys : l \in keys' \/ l.owner = key.owner
        /\ \E l \in keys : l.owner = key.owner
    BY <1>1, <2>2, <2>3, <2>5
  <2>7. Made(key, Opens(r))
    BY <2>3 DEF Made
  <2> QED BY <1>3, <2>2, <2>3, <2>5, <2>6, <2>7
<1>4. CASE ~StoreKey(r) /\ ~FollowKey(r)
  <2>1. CASE SignIn(r)
    BY <1>4, <2>1 DEF SignIn, Find, FindStandIn, Insert, Sync, Reread, FindOwn, InsertOwn, FindKey
  <2>2. CASE Administer(r)
    BY <1>4, <2>2 DEF Administer, Resolve, NextTarget, WriteTarget, Link, Scan
  <2>3. CASE Whitelist(r)
    BY <2>3 DEF Whitelist, FindListed, Create, List, PatchListed, DropListed, LinkListed,
                ChangeLinked
  <2> QED BY <2>1, <2>2, <2>3 DEF StepOf, Start, Crash
<1> QED BY <1>2, <1>3, <1>4

\* The ids of two people have nothing in common.
LEMMA IdsApart ==
    ASSUME RecordsInvariant, OwnersKnown, NEW u \in users, NEW r \in Requests,
           pc[r] \in HasAccount, account[r].email # u.email
    PROVE  Identifiers(account[r]) \cap {u.oid, u.id, u.email} = {}
<1>1. account[r] # NoRecord /\ account[r].email \in Addresses
  BY AskOf DEF Fits
<1>2. account[r] \in Known /\ u \in Known /\ u.oid # NoId
  BY <1>1, KnownOf DEF RecordsInvariant, Records, StoredHaveIds
<1>3. u.email \in Addresses
  BY DEF OwnersKnown
<1>4. {account[r].id, account[r].oid, u.id, u.oid} \cap Addresses = {}
  BY <1>2 DEF RecordsInvariant, Records, IdsAreIds
<1>5. account[r].id \notin {u.id, u.oid} /\ account[r].oid \notin {u.id, u.oid}
  BY <1>2 DEF RecordsInvariant, Records, IdsTell
<1> QED BY <1>1, <1>3, <1>4, <1>5 DEF Identifiers

LEMMA OwnerOf ==
    ASSUME RecordsInvariant, NEW r \in Requests, pc[r] \in HasAccount
    PROVE  /\ account[r] \in Known /\ OwnerId(account[r]) \in Identifiers(account[r])
           /\ OwnerId(account[r]) \in {account[r].id, account[r].oid}
           /\ OwnerId(account[r]) \notin Addresses
<1>1. account[r] # NoRecord
  BY AskOf DEF Fits
<1>2. account[r] \in Known
  BY <1>1, KnownOf DEF RecordsInvariant, Records
<1>3. {account[r].id, account[r].oid} \cap Addresses = {} /\ account[r].id # NoId
  BY <1>2 DEF RecordsInvariant, Records, IdsAreIds
<1> QED BY <1>2, <1>3 DEF OwnerId, Identifiers

\* A step leaves the keys of those whom it does not concern.
LEMMA OthersKeys ==
    ASSUME RecordsInvariant, KeysInvariant, OwnersKnown, NEW r \in Requests, StepOf(r),
           NEW u \in users, pc[r] \in {"store", "keys"} => account[r].email # u.email
    PROVE  KeysOf(u)' = KeysOf(u)
<1>1. CASE UNCHANGED keys
  BY <1>1 DEF KeysOf
<1>2. CASE ~UNCHANGED keys
  <2>1. PICK key : /\ pc[r] \in {"store", "keys"} /\ key.owner \in Identifiers(account[r])
                   /\ keys' \subseteq keys \cup {key}
                   /\ \A k \in keys : k \in keys' \/ k.owner = key.owner
    BY <1>2, KeyTouched, OwnerOf DEF HasAccount
  <2>2. key.owner \notin {u.oid, u.id, u.email}
    BY <2>1, IdsApart DEF HasAccount
  <2> QED BY <2>1, <2>2 DEF KeysOf
<1> QED BY <1>1, <1>2

\* Who has inserted a record inserts no other.
LEMMA EarlyBefore ==
    ASSUME RecordsInvariant, NEW r \in Requests, StepOf(r), pc'[r] \in Early
    PROVE  pc[r] \in Early
<1>1. \A place : Goto(r, place) => pc'[r] = place
  BY DEF Goto, RecordsInvariant, Types
<1>2. CASE Find(r) \/ FindStandIn(r) \/ Insert(r) \/ FindOwn(r) \/ InsertOwn(r)
  <2>1. pc[r] \in Early \/ pc[r] = "findAgain"
    BY <1>2 DEF Find, FindStandIn, Insert, FindOwn, InsertOwn, Early
  <2>2. pc[r] = "findAgain" => pc'[r] = "key"
    BY <1>1, <1>2 DEF Find, FindStandIn, Insert, FindOwn, InsertOwn
  <2> QED BY <2>1, <2>2 DEF Early
<1>3. CASE Sync(r) \/ Reread(r) \/ FindKey(r) \/ StoreKey(r)
  BY <1>1, <1>3 DEF Sync, Reread, FindKey, StoreKey, Early
<1>4. CASE Administer(r)
  <2>1. CASE WriteTarget(r)
    BY <1>1, <2>1 DEF WriteTarget, Steps, Early
  <2>2. CASE FollowKey(r)
    BY <1>1, <2>2 DEF FollowKey, Early
  <2> QED BY <1>1, <1>4, <2>1, <2>2 DEF Administer, Resolve, NextTarget, Link, Scan, Early
<1>5. CASE Whitelist(r)
  BY <1>1, <1>5 DEF Whitelist, FindListed, Create, List, PatchListed, DropListed, LinkListed,
                    ChangeLinked, Early
<1>6. CASE Start(r) \/ Crash(r)
  BY <1>1, <1>6 DEF Start, Crash, Early
<1> QED BY <1>2, <1>3, <1>4, <1>5, <1>6 DEF StepOf, SignIn

LEMMA OwnersKept ==
    ASSUME RecordsInvariant, KeysInvariant, OwnersKnown, UsersLast, NEW r \in Requests, StepOf(r)
    PROVE  OwnersKnown'
<1>1. ASSUME NEW u \in users' PROVE u.email \in Addresses
  <2>1. CASE u.email \in ask[r].whom
    BY <2>1, AskOf
  <2>2. CASE u.email \notin ask[r].whom
    <3>1. PICK e : e = u.email /\ e \notin ask[r].whom
      BY <2>2
    <3>2. WithEmail(users', e) = WithEmail(users, e)
      BY <3>1, OthersUntouched
    <3>3. u \in users
      BY <3>1, <3>2 DEF WithEmail
    <3> QED BY <3>3 DEF OwnersKnown
  <2> QED BY <2>1, <2>2
<1>2. ASSUME NEW k \in keys'
      PROVE  \/ \E l \in keys : l.owner = k.owner
             \/ /\ k.owner \in {account[r].id, account[r].oid} /\ account[r] \in Known
                /\ k.owner \notin Addresses
  BY <1>2, KeyTouched, OwnerOf DEF HasAccount
<1>3. ASSUME NEW q \in Requests, pc'[q] \in Early, NEW k \in keys'
      PROVE  k.owner # q
  <2>1. pc[q] \in Early
    BY <1>3, LocalsOf, EarlyBefore
  <2>2. (\A l \in keys : l.owner # q) /\ \A u \in Known : u.id # q /\ u.oid # q
    BY <2>1 DEF OwnersKnown, RecordsInvariant, Records, NewRecordsFresh
  <2> QED BY <1>2, <2>2
<1>4. ASSUME NEW k \in keys', k.owner \in Addresses
      PROVE  Accts(k.owner)' # {}
  <2>1. PICK e : e = k.owner
    OBVIOUS
  <2>2. Accts(e) # {}
    BY <1>2, <1>4, <2>1 DEF OwnersKnown
  <2>3. PICK u \in users : u.email = e
    BY <2>2 DEF Accts, WithEmail
  <2>4. PICK v \in users' : Same(v, u)
    BY <2>3 DEF UsersLast
  <2>5. v \in Accts(e)'
    BY <2>3, <2>4 DEF Accts, WithEmail, Same
  <2> QED BY <2>1, <2>5
<1> QED BY <1>1, <1>3, <1>4 DEF OwnersKnown

\* The agreement after a step of r, whoever else works for the person.
LEMMA FollowFree ==
    ASSUME RecordsInvariant, KeysInvariant, NEW r \in Requests, StepOf(r), NEW e, KeysAgreement(e),
           Accts(e)' = Accts(e), Entries(e)' = Entries(e),
           \A u \in Accts(e) : KeysOf(u)' = KeysOf(u),
           Working(r, e)' => KeyInformed(r, e)',
           Following(r, e) => Following(r, e)' \/ KeysFollowed(e)
    PROVE  KeysAgreement(e)'
<1>1. /\ UNCHANGED ask
      /\ \A q \in Requests \ {r} : /\ pc'[q] = pc[q] /\ account'[q] = account[q]
                                   /\ todo'[q] = todo[q]
  BY LocalsOf, CopiesKept DEF KeysInvariant
<1>2. KeysFollowed(e) => KeysFollowed(e)'
  BY DEF KeysFollowed, KeysFollow
<1>3. ASSUME NEW q \in Requests, Working(q, e)' PROVE KeyInformed(q, e)'
  <2>1. CASE q = r
    BY <1>3, <2>1
  <2>2. CASE q # r
    <3>1. KeyInformed(q, e)
      BY <1>1, <1>3, <2>2 DEF Working, UnderWay, KeysAgreement
    <3>2. Opens(q)' = Opens(q) /\ Change(q)' = Change(q)
      BY <1>1 DEF Opens, Change
    <3> QED BY <1>1, <2>2, <3>1, <3>2 DEF KeyInformed
  <2> QED BY <2>1, <2>2
<1>4. ASSUME NEW q \in Requests \ {r}, Following(q, e) PROVE Following(q, e)'
  BY <1>1, <1>4 DEF Following, Working, UnderWay, Change
<1> QED BY <1>2, <1>3, <1>4 DEF KeysAgreement

\* Where only sign-ins and settings are under way.
LEMMA FollowMade ==
    ASSUME RecordsInvariant, NEW r \in Requests, StepOf(r), NEW e, KeysAgreement(e),
           \A q \in Requests \ {r} : Working(q, e) => ~Changes(q),
           \A u \in Accts(e) : \E v \in Accts(e)' : Same(v, u) /\ v.active = u.active,
           Entries(e)' = Entries(e),
           Working(r, e)' => KeyInformed(r, e)', KeysFollowed(e)'
    PROVE  KeysAgreement(e)'
<1>1. /\ UNCHANGED ask
      /\ \A q \in Requests \ {r} : pc'[q] = pc[q] /\ account'[q] = account[q]
  BY LocalsOf
<1>2. ASSUME NEW q \in Requests, Working(q, e)' PROVE KeyInformed(q, e)'
  <2>1. CASE q = r
    BY <1>2, <2>1
  <2>2. CASE q # r
    <3>1. Working(q, e) /\ KeyInformed(q, e)
      BY <1>1, <1>2, <2>2 DEF Working, UnderWay, KeysAgreement
    <3>2. ~Changes(q)
      BY <2>2, <3>1
    <3>3. pc[q] \notin {"changeLinked", "listedByEmail", "link", "scan", "keys"}
      <4>1. /\ ask[q].kind \in {"login", "session", "settings"}
            /\ pc[q] \in Path[ask[q].kind] \cup {"idle", "done"}
        BY <3>2, AskOf DEF Changes, Fits
      <4> QED BY <4>1 DEF Path
    <3>4. ask[q].kind = "settings" /\ Accts(e)' = {} => \A w \in Entries(e)' : w.active
      BY <3>1 DEF KeyInformed
    <3>5. pc[q] \in {"findAgain", "key", "store"} =>
            \/ \E v \in Accts(e)' : v.oid = account[q].oid /\ v.active = account[q].active
            \/ \E w \in Entries(e)' : account[q] = StandIn(w)
      BY <3>1 DEF KeyInformed, Same
    <3> QED BY <1>1, <2>2, <3>3, <3>4, <3>5 DEF KeyInformed
  <2> QED BY <2>1, <2>2
<1> QED BY <1>2 DEF KeysAgreement

\* A step of a change, which no other request meets.
LEMMA FollowAlone ==
    ASSUME RecordsInvariant, NEW r \in Requests, StepOf(r), NEW e,
           \A q \in Requests \ {r} : ~Working(q, e),
           Working(r, e)' => KeyInformed(r, e)', KeysFollowed(e)' \/ Following(r, e)'
    PROVE  KeysAgreement(e)'
<1>1. /\ UNCHANGED ask
      /\ \A q \in Requests \ {r} : pc'[q] = pc[q]
  BY LocalsOf
<1>2. \A q \in Requests \ {r} : ~Working(q, e)'
  BY <1>1 DEF Working, UnderWay
<1> QED BY <1>2 DEF KeysAgreement

\* Where an account comes, none was there, and nobody owned a key of it.
LEMMA NewFollowed ==
    ASSUME RecordsInvariant, UsersUnique, OwnersKnown, NEW r \in Requests,
           Insert(r) \/ Create(r) \/ InsertOwn(r), NEW e, e \in Addresses, Email(r) = e,
           ask[r].whom = {e}, Sole(Accts(e))',
           InsertOwn(r) /\ Accts(e) = {} => account[r].active
    PROVE  KeysFollowed(e)' /\ Accts(e) = {}
<1>1. /\ pc[r] \in Early /\ UNCHANGED <<listed, keys>>
      /\ \A u \in users : u.oid # r
      /\ \A k \in keys : k.owner # r
  <2>1. pc[r] \in Early
    BY DEF Insert, Create, InsertOwn, Early
  <2>2. UNCHANGED <<listed, keys>>
    BY DEF Insert, Create, InsertOwn
  <2> QED BY <2>1, <2>2, KnownOf DEF RecordsInvariant, Records, NewRecordsFresh, OwnersKnown
<1>2. PICK x : /\ users' = users \cup {x} /\ x.oid = r /\ x.email = e
               /\ x.id = r \/ (InsertOwn(r) /\ x.active = account[r].active)
  <2>1. CASE Insert(r) \/ Create(r)
    <3>1. PICK active, role : users' = users \cup {Record(r, r, e, active, role)}
      <4>1. CASE Insert(r) /\ entry[r] = NoRecord
        BY <4>1 DEF Insert
      <4>2. CASE Insert(r) /\ entry[r] # NoRecord
        BY <4>2 DEF Insert
      <4>3. CASE Create(r)
        BY <4>3 DEF Create
      <4> QED BY <2>1, <4>1, <4>2, <4>3
    <3> DEFINE x == Record(r, r, e, active, role)
    <3>2. x.oid = r /\ x.id = r /\ x.email = e
      BY RecordIs
    <3>3. users' = users \cup {x}
      BY <3>1
    <3> HIDE DEF x
    <3> QED BY <3>2, <3>3
  <2>2. CASE InsertOwn(r)
    <3>1. pc[r] \in HasAccount
      BY <2>2 DEF InsertOwn, HasAccount
    <3>2. IsRecord(account[r]) /\ account[r].email = e
      BY <3>1, AccountTells
    <3> DEFINE role == IF account[r].role = "admin" THEN "admin" ELSE "student"
               x == [account[r] EXCEPT !.oid = r, !.role = role]
    <3>3. users' = users \cup {x}
      BY <2>2, <3>2 DEF InsertOwn, IsRecord, RecordFields
    <3> HIDE DEF role
    <3>4. x.oid = r /\ x.email = account[r].email /\ x.active = account[r].active
      BY <3>2 DEF IsRecord, RecordFields
    <3> HIDE DEF x
    <3> QED BY <2>2, <3>2, <3>3, <3>4
  <2> QED BY <2>1, <2>2
<1>3. x \in Accts(e)' /\ Accts(e)' = Accts(e) \cup {x}
  BY <1>2 DEF Accts, WithEmail
<1>4. Accts(e) = {}
  <2>1. \A u \in Accts(e) : u.oid # x.oid /\ u = x
    BY <1>1, <1>2, <1>3 DEF Sole, Accts, WithEmail
  <2> QED BY <2>1
<1>5. \A k \in keys' : k.owner # r /\ k.owner # e
  BY <1>1, <1>4 DEF OwnersKnown
<1>6. KeysFollow(x)'
  <2>1. r # NoId
    BY RequestsAssumption
  <2>2. CASE x.id = r
    <3>1. KeysOf(x)' = {}
      BY <1>2, <1>5, <2>2 DEF KeysOf
    <3> QED BY <3>1 DEF KeysFollow
  <2>3. CASE InsertOwn(r) /\ x.active = account[r].active
    <3>1. OwnerId(x) = r /\ x.active
      BY <1>2, <1>4, <2>1, <2>3 DEF OwnerId
    <3> QED BY <1>5, <3>1 DEF KeysFollow, KeysOf
  <2> QED BY <1>2, <2>2, <2>3
<1> QED BY <1>3, <1>4, <1>6 DEF KeysFollowed

\* The account that a request of its owner has read is as active as the one there is.
LEMMA ReadTrue ==
    ASSUME RecordsInvariant, NEW r \in Requests, NEW e, Agreeing(e),
           KeyInformed(r, e), Sole(Accts(e)), pc[r] \in {"findAgain", "key", "store"}
    PROVE  \A u \in Accts(e) : u.active = account[r].active
<1>1. CASE \E u \in Accts(e) : u.oid = account[r].oid /\ u.active = account[r].active
  BY <1>1 DEF Sole
<1>2. CASE \E w \in Entries(e) : account[r] = StandIn(w)
  <2>1. PICK w \in Entries(e) : account[r] = StandIn(w)
    BY <1>2
  <2>2. IsRecord(w)
    BY <2>1, StoredAreRecords DEF Entries, WithEmail
  <2>3. account[r].active = w.active
    BY <2>1, <2>2 DEF StandIn, IsRecord, RecordFields
  <2> QED BY <2>1, <2>3 DEF Agreeing, Agree
<1> QED BY <1>1, <1>2 DEF KeyInformed

\* What a sign-in, a session or the settings read informs them.
LEMMA SignInKnows ==
    ASSUME RecordsInvariant, NEW r \in Requests, SignIn(r), NEW e,
           e \in ask[r].whom, KeyInformed(r, e),
           \A u \in Accts(e) : \E v \in Accts(e)' : Same(v, u) /\ v.active = u.active,
           Entries(e)' = Entries(e)
    PROVE  KeyInformed(r, e)'
<1>1. /\ ask[r].kind \in {"login", "session", "settings"} /\ Email(r) = e /\ UNCHANGED ask
      /\ ask[r].whom = {e}
  <2>1. ask[r].kind \in {"login", "session", "settings"} /\ Email(r) = e /\ StepOf(r)
    BY SignInIs
  <2> QED BY <2>1, AskOf, LocalsOf DEF Administrative
<1>2. \A place : Goto(r, place) => pc'[r] = place
  BY DEF Goto, RecordsInvariant, Types
<1>3. \A u : Reads(r, u) => account'[r] = u
  BY DEF Reads, RecordsInvariant, Types
<1>4. ask[r].kind = "settings" /\ Accts(e)' = {} => \A w \in Entries(e)' : w.active
  BY DEF KeyInformed
<1>5. ASSUME pc'[r] \notin {"changeLinked", "listedByEmail", "link", "scan", "keys"},
             pc'[r] \in {"findAgain", "key", "store"} =>
                \/ \E u \in Accts(e)' : u.oid = account'[r].oid /\ u.active = account'[r].active
                \/ \E w \in Entries(e)' : account'[r] = StandIn(w)
      PROVE  KeyInformed(r, e)'
  BY <1>1, <1>4, <1>5 DEF KeyInformed
<1>6. ASSUME pc[r] \in {"findAgain", "key", "store"}, account'[r] = account[r]
      PROVE  \/ \E u \in Accts(e)' : u.oid = account'[r].oid /\ u.active = account'[r].active
             \/ \E w \in Entries(e)' : account'[r] = StandIn(w)
  BY <1>6 DEF KeyInformed, Same
<1>7. CASE Find(r)
  <2>1. PICK u \in FindOne(WithEmail(users, e)) :
          IF u # NoRecord
          THEN /\ Reads(r, u)
               /\ \E place \in Found(r) : Goto(r, IF pc[r] = "findAgain" THEN "key" ELSE place)
          ELSE /\ UNCHANGED account
               /\ Goto(r, IF pc[r] = "findAgain" THEN "key" ELSE NotFound(r))
    BY <1>1, <1>7 DEF Find
  <2>2. UNCHANGED users
    BY <1>7 DEF Find
  <2>3. CASE u # NoRecord
    <3>1. u \in Accts(e)' /\ account'[r] = u
      BY <1>3, <2>1, <2>2, <2>3 DEF FindOne, Accts
    <3>2. pc'[r] \in {"key", "reread", "sync", "findAgain", "findOwn"}
      BY <1>1, <1>2, <2>1, <2>3 DEF Found
    <3> QED BY <1>5, <3>1, <3>2
  <2>4. CASE u = NoRecord
    <3>1. /\ pc'[r] \in {"key", "insert", "standIn"} /\ account'[r] = account[r]
          /\ pc'[r] = "key" => pc[r] = "findAgain"
      BY <1>1, <1>2, <1>7, <2>1, <2>4 DEF Find, NotFound
    <3> QED BY <1>5, <1>6, <3>1
  <2> QED BY <2>3, <2>4
<1>8. CASE FindStandIn(r)
  <2>1. PICK w \in FindOne(WithEmail(listed, e)) :
          IF w = NoRecord
          THEN Goto(r, "done") /\ UNCHANGED account
          ELSE /\ Reads(r, StandIn(w))
               /\ Goto(r, IF ask[r].kind = "session" THEN "key" ELSE "findOwn")
    BY <1>1, <1>8 DEF FindStandIn
  <2>2. CASE w = NoRecord
    BY <1>2, <1>5, <2>1, <2>2
  <2>3. CASE w # NoRecord
    <3>1. w \in Entries(e)' /\ account'[r] = StandIn(w)
      BY <1>3, <2>1, <2>3 DEF FindOne, Entries
    <3>2. pc'[r] \in {"key", "findOwn"}
      BY <1>2, <2>1, <2>3
    <3> QED BY <1>5, <3>1, <3>2
  <2> QED BY <2>2, <2>3
<1>9. CASE Reread(r)
  <2>1. PICK u \in FindOne({x \in users : x.oid = account[r].oid}) :
          Reads(r, u) /\ Goto(r, IF u = NoRecord THEN "done" ELSE "key")
    BY <1>9 DEF Reread
  <2>2. pc[r] \in HasAccount /\ UNCHANGED users
    BY <1>9 DEF Reread, HasAccount
  <2>3. CASE u = NoRecord
    BY <1>2, <1>5, <2>1, <2>3
  <2>4. CASE u # NoRecord
    <3>1. u \in users /\ u.oid = account[r].oid
      BY <2>1, <2>4 DEF FindOne
    <3>2. u.email = e
      BY <1>1, <2>2, <3>1, AccountTells
    <3>3. u \in Accts(e)' /\ account'[r] = u /\ pc'[r] = "key"
      BY <1>2, <1>3, <2>1, <2>2, <2>4, <3>1, <3>2 DEF Accts, WithEmail
    <3> QED BY <1>5, <3>3
  <2> QED BY <2>3, <2>4
<1>10. CASE FindKey(r)
  <2>1. pc[r] = "key" /\ pc'[r] = "store" /\ account'[r] = account[r]
    BY <1>2, <1>10 DEF FindKey
  <2> QED BY <1>5, <1>6, <2>1
<1>11. CASE Insert(r) \/ Sync(r) \/ FindOwn(r) \/ InsertOwn(r) \/ StoreKey(r)
  <2>1. pc'[r] \in {"reread", "insertOwn", "done"}
    BY <1>2, <1>11 DEF Insert, Sync, FindOwn, InsertOwn, StoreKey
  <2> QED BY <1>5, <2>1
<1> QED BY <1>7, <1>8, <1>9, <1>10, <1>11 DEF SignIn

\* A sign-in, a session or the settings: the account stays as active as it is, or
\* comes, and the default key is made or changed as the account is.
LEMMA SignInFollows ==
    ASSUME RecordsInvariant, UsersUnique, KeysInvariant, OwnersKnown, NEW r \in Requests, SignIn(r),
           NEW e, e \in Addresses, e \in ask[r].whom, ApartAt(e), Agreement(e),
           KeysAgreement(e), Sole(Accts(e)), Sole(Accts(e))'
    PROVE  KeysAgreement(e)'
<1>1. /\ ask[r].kind \in {"login", "session", "settings"} /\ ~Changes(r)
      /\ Email(r) = e /\ Working(r, e) /\ StepOf(r) /\ ask[r].whom = {e}
  <2>1. /\ ask[r].kind \in {"login", "session", "settings"} /\ ~Changes(r)
        /\ Email(r) = e /\ Working(r, e) /\ StepOf(r)
    BY SignInIs
  <2> QED BY <2>1, AskOf
<1>2. \A q \in Requests : Working(q, e) => ~Changes(q)
  BY <1>1 DEF ApartAt
<1>3. /\ Agreeing(e) /\ Informed(r, e) /\ Sole(Entries(e))
      /\ KeyInformed(r, e) /\ KeysFollowed(e)
  <2>1. \A q \in Requests : Working(q, e) =>
          pc[q] \notin WritesUsersOrListed
                         \cup {"linkListed", "changeLinked", "link", "scan", "keys"}
    <3> SUFFICES ASSUME NEW q \in Requests, Working(q, e)
                 PROVE  pc[q] \notin WritesUsersOrListed
                                 \cup {"linkListed", "changeLinked", "link", "scan", "keys"}
      OBVIOUS
    <3>1. /\ ask[q].kind \in {"login", "session", "settings"}
          /\ pc[q] \in Path[ask[q].kind] \cup {"idle", "done"}
      BY <1>2, AskOf DEF Changes, Fits
    <3> QED BY <3>1 DEF Path, WritesUsersOrListed
  <2>2. \A q \in Requests : ~Between(q, e) /\ ~Following(q, e)
    BY <2>1 DEF Between, Following
  <2> QED BY <1>1, <2>2 DEF Agreement, KeysAgreement
<1>4. Entries(e)' = Entries(e)
  BY DEF SignIn, Find, FindStandIn, Insert, Sync, Reread, FindOwn, InsertOwn, FindKey, StoreKey,
         Entries
<1>5. \A u \in Accts(e) : IsRecord(u) /\ Same(u, u) /\ u \in users
  BY StoredAreRecords DEF Accts, WithEmail
<1>6. ASSUME \A u \in Accts(e) : \E v \in Accts(e)' : Same(v, u) /\ v.active = u.active,
             KeysFollowed(e)'
      PROVE  KeysAgreement(e)'
  <2>1. KeyInformed(r, e)'
    BY <1>1, <1>3, <1>4, <1>6, SignInKnows
  <2> QED BY <1>1, <1>2, <1>4, <1>6, <2>1, FollowMade
<1>7. CASE Insert(r) \/ InsertOwn(r)
  <2>1. ASSUME InsertOwn(r), Accts(e) = {} PROVE account[r].active
    <3>1. pc[r] = "insertOwn"
      BY <2>1 DEF InsertOwn
    <3>2. ask[r].kind = "settings"
      BY <1>1, <3>1, AskOf DEF Fits, Path
    <3>3. PICK w \in Entries(e) : account[r] = StandIn(w)
      BY <1>3, <3>1 DEF Informed
    <3>4. IsRecord(w) /\ w.active
      BY <1>3, <2>1, <3>2, StoredAreRecords DEF Entries, WithEmail, KeyInformed
    <3> QED BY <3>3, <3>4 DEF StandIn, IsRecord, RecordFields
  <2>2. KeysFollowed(e)' /\ Accts(e) = {}
    BY <1>1, <1>7, <2>1, NewFollowed
  <2> QED BY <1>6, <2>2
<1>8. CASE Sync(r)
  <2>1. entry[r] \in Entries(e)
    <3>1. pc[r] = "sync"
      BY <1>8 DEF Sync
    <3>2. ask[r].kind = "login" /\ e \in Guests
      BY <1>1, <3>1, AskOf DEF Fits, Path, HasEntry
    <3> QED BY <1>3, <3>1, <3>2 DEF Informed
  <2> DEFINE put(u) == IF u.oid = account[r].oid THEN Put(u, entry[r].active, entry[r].role)
                       ELSE u
  <2>2. users' = {put(u) : u \in users} /\ UNCHANGED keys
    BY <1>8 DEF Sync, Put
  <2>3. \A u \in users : Same(put(u), u)
    BY StoredAreRecords, PutIs
  <2>4. \A u \in Accts(e) : put(u).active = u.active
    <3>1. \A u \in Accts(e) : u.active = entry[r].active
      BY <1>3, <2>1 DEF Agreeing, Agree
    <3> QED BY <1>5, <3>1, PutIs
  <2> HIDE DEF put
  <2>5. Accts(e)' = {put(u) : u \in Accts(e)}
    BY <2>2, <2>3 DEF Accts, WithEmail, Same
  <2>6. \A u \in Accts(e) : \E v \in Accts(e)' : Same(v, u) /\ v.active = u.active
    BY <1>5, <2>3, <2>4, <2>5
  <2>7. ASSUME NEW v \in Accts(e)' PROVE KeysFollow(v)'
    <3>1. PICK u \in Accts(e) : v = put(u)
      BY <2>5
    <3>2. KeysFollow(v)
      BY <1>3, <1>5, <2>3, <2>4, <3>1, FollowSame DEF KeysFollowed
    <3> QED BY <2>2, <3>2 DEF KeysFollow, KeysOf
  <2> QED BY <1>6, <2>6, <2>7 DEF KeysFollowed
<1>9. CASE ~(Insert(r) \/ InsertOwn(r) \/ Sync(r))
  <2>1. UNCHANGED users
    BY <1>9 DEF SignIn, Find, FindStandIn, Reread, FindOwn, FindKey, StoreKey
  <2>2. Accts(e)' = Accts(e)
    BY <2>1 DEF Accts
  <2>3. \A u \in Accts(e) : \E v \in Accts(e)' : Same(v, u) /\ v.active = u.active
    BY <1>5, <2>2
  <2>4. CASE UNCHANGED keys
    BY <1>3, <1>6, <2>2, <2>3, <2>4 DEF KeysFollowed, KeysFollow, KeysOf
  <2>5. CASE StoreKey(r) /\ ~UNCHANGED keys
    <3>1. pc[r] # "keys"
      BY <2>5 DEF StoreKey
    <3>2. PICK key : pc[r] = "store" /\ Made(key, account[r].active) /\ keys' \subseteq keys \cup {key}
      BY <1>1, <2>5, <3>1, KeyTouched
    <3>3. \A u \in Accts(e) : u.active = account[r].active
      BY <1>3, <3>2, ReadTrue
    <3>4. ASSUME NEW u \in Accts(e) PROVE KeysFollow(u)'
      <4>1. KeysFollow(u) /\ Made(key, u.active)
        BY <1>3, <3>2, <3>3 DEF KeysFollowed
      <4> QED BY <3>2, <4>1 DEF KeysFollow, KeysOf, Made
    <3> QED BY <1>6, <2>2, <2>3, <3>4 DEF KeysFollowed
  <2>6. StoreKey(r) \/ UNCHANGED keys
    BY <1>9 DEF SignIn, Find, FindStandIn, Reread, FindOwn, FindKey
  <2> QED BY <2>4, <2>5, <2>6
<1> QED BY <1>7, <1>8, <1>9

\* A step of the administrators' pages, or of the keys that are to follow.
LEMMA AdministerIs ==
    ASSUME RecordsInvariant, NEW r \in Requests, Administer(r), NEW e, e \in ask[r].whom, ApartAt(e)
    PROVE  /\ Working(r, e) /\ StepOf(r) /\ ask[r].kind \notin {"settings", "login", "session"}
           /\ pc[r] \notin {"scan", "keys"} => ask[r].kind = "update" /\ Change(r) = ask[r]
           /\ \A q \in Requests \ {r} : ~Working(q, e)
           /\ UNCHANGED ask /\ Change(r)' = Change(r) /\ Opens(r)' = Opens(r)
           /\ Working(r, e)' <=> pc'[r] \notin {"idle", "done"}
           /\ \A place : Goto(r, place) => pc'[r] = place
<1>1. pc[r] \in {"resolve", "next", "link", "scan", "keys"} \cup WritesUsersOrListed
  BY DEF Administer, Resolve, NextTarget, WriteTarget, Link, Scan, FollowKey, Steps,
         WritesUsersOrListed
<1>2. /\ ask[r].kind \in {"login", "session", "settings"} \cup Administrative
      /\ pc[r] \in Path[ask[r].kind] \cup {"idle", "done"}
  BY AskOf DEF Fits
<1>3. /\ Changes(r) /\ ask[r].kind \notin {"settings", "login", "session"}
      /\ pc[r] \notin {"scan", "keys"} => ask[r].kind = "update"
  BY <1>1, <1>2 DEF Path, Changes, Administrative, WritesUsersOrListed
<1>4. Working(r, e) /\ StepOf(r)
  BY <1>1 DEF Working, UnderWay, StepOf, WritesUsersOrListed
<1>5. \A q \in Requests \ {r} : ~Working(q, e)
  BY <1>3, <1>4 DEF ApartAt
<1>6. UNCHANGED ask
  BY <1>4, LocalsOf
<1>7. Change(r)' = Change(r) /\ Opens(r)' = Opens(r) /\ (Working(r, e)' <=> pc'[r] \notin {"idle", "done"})
  BY <1>6 DEF Change, Opens, Working, UnderWay
<1>8. \A place : Goto(r, place) => pc'[r] = place
  BY DEF Goto, RecordsInvariant, Types
<1> QED BY <1>3, <1>4, <1>5, <1>6, <1>7, <1>8 DEF Change

\* Where r is alone with e, and is not about its keys, they follow.
LEMMA FollowedAlone ==
    ASSUME NEW r \in Requests, NEW e, KeysAgreement(e), \A q \in Requests \ {r} : ~Working(q, e),
           ~Following(r, e)
    PROVE  KeysFollowed(e)
BY DEF KeysAgreement, Following

LEMMA WriteTargetFollows ==
    ASSUME RecordsInvariant, NEW r \in Requests, WriteTarget(r), NEW e, e \in ask[r].whom,
           ApartAt(e), KeysAgreement(e), Sole(Accts(e))
    PROVE  KeysAgreement(e)'
<1> DEFINE a == ask[r]
<1>0. Administer(r)
  BY DEF Administer
<1>1. /\ pc[r] \in WritesUsersOrListed /\ pc'[r] \in {Steps[pc[r]], "next"}
      /\ pc'[r] = "next" => "active" \notin a.fields
      /\ pc'[r] = "link" => "active" \in a.fields
      /\ account'[r] = account[r] /\ UNCHANGED <<ask, keys>>
  BY DEF WriteTarget, WritesUsersOrListed, Steps, Goto, RecordsInvariant, Types
<1>2. /\ Working(r, e) /\ StepOf(r) /\ a.kind = "update" /\ Change(r) = a /\ Change(r)' = a
      /\ \A q \in Requests \ {r} : ~Working(q, e)
      /\ "active" \in a.fields => Opens(r) = a.active
      /\ Opens(r)' = Opens(r)
  <2>1. /\ Working(r, e) /\ StepOf(r) /\ (pc[r] \notin {"scan", "keys"} => a.kind = "update" /\ Change(r) = a)
        /\ \A q \in Requests \ {r} : ~Working(q, e)
        /\ Change(r)' = Change(r) /\ Opens(r)' = Opens(r)
    BY <1>0, AdministerIs
  <2>2. pc[r] \notin {"scan", "keys"}
    BY <1>1 DEF WritesUsersOrListed
  <2>3. a.kind = "update" /\ "active" \in a.fields => Opens(r) = a.active
    BY AskOf DEF Opens
  <2> QED BY <2>1, <2>2, <2>3
<1>3. KeyInformed(r, e)
  BY <1>2 DEF KeysAgreement
<1>4. \A u \in users : IsRecord(u) /\ Same(u, u)
  BY StoredAreRecords
<1>5. /\ pc'[r] \in {"listedById", "usersByEmail", "listedByEmail", "link", "next"}
      /\ pc'[r] = "listedByEmail" => pc[r] = "usersByEmail"
      /\ pc'[r] = "link" => pc[r] = "listedByEmail"
  BY <1>1 DEF Steps, WritesUsersOrListed
<1>6. ASSUME account[r].email = e /\ "active" \in a.fields /\ pc'[r] \in {"listedByEmail", "link"}
               => \A u \in Accts(e)' : u.active = Opens(r)
      PROVE  KeyInformed(r, e)'
  BY <1>1, <1>2, <1>5, <1>6 DEF KeyInformed
<1>7. CASE account[r].email # e
  <2>1. Accts(e)' = Accts(e)
    BY <1>7, WrittenElsewhere
  <2>2. KeysFollowed(e)
    BY <1>2, <1>7, FollowedAlone DEF Following
  <2>3. KeysFollowed(e)'
    BY <1>1, <2>1, <2>2 DEF KeysFollowed, KeysFollow, KeysOf
  <2> QED BY <1>2, <1>6, <1>7, <2>3, FollowAlone
<1>8. CASE account[r].email = e
  <2>1. /\ \A v \in Accts(e)' : \E u \in Accts(e) :
                 Same(v, u) /\ ("active" \notin a.fields => v.active = u.active)
        /\ pc[r] = "usersByEmail" /\ "active" \in a.fields =>
              \A v \in Accts(e)' : v.active = a.active
        /\ pc[r] = "listedByEmail" => Accts(e)' = Accts(e)
    <3>1. CASE pc[r] \in {"usersById", "usersByEmail"}
      <4>1. PICK matching :
              /\ matching \subseteq WithEmail(users, e)
              /\ users' \in UpdateOne(users, matching, a)
              /\ pc[r] = "usersByEmail" => WithEmail(users, e) \subseteq matching
        BY <1>8, <3>1, Written DEF Matching
      <4>2. \A u \in users : IsRecord(u)
        BY <1>4
      <4>3. /\ matching = {} => users' = users
            /\ matching # {} => \E u \in users : /\ WithEmail(users, e) = {u}
                                                 /\ WithEmail(users', e) = {Changed(u, a)}
        BY <4>1, <4>2, UpdateAt DEF Accts
      <4>4. CASE matching = {}
        <5>1. Accts(e)' = Accts(e) /\ \A u \in Accts(e) : Same(u, u)
          BY <1>4, <4>3, <4>4 DEF Accts, WithEmail
        <5>2. pc[r] = "usersByEmail" => Accts(e) = {}
          BY <4>1, <4>4 DEF Accts
        <5> QED BY <3>1, <5>1, <5>2
      <4>5. CASE matching # {}
        <5>1. PICK u \in users : Accts(e) = {u} /\ Accts(e)' = {Changed(u, a)}
          BY <4>3, <4>5 DEF Accts
        <5> DEFINE v == Changed(u, a)
        <5>2. Same(v, u) /\ v.active = IF "active" \in a.fields THEN a.active ELSE u.active
          BY <4>2, ChangedIs
        <5> HIDE DEF v
        <5>3. Accts(e)' = {v}
          BY <5>1 DEF v
        <5> QED BY <3>1, <5>1, <5>2, <5>3
      <4> QED BY <4>4, <4>5
    <3>2. CASE pc[r] \notin {"usersById", "usersByEmail"}
      <4>1. Accts(e)' = Accts(e) /\ \A u \in Accts(e) : Same(u, u)
        BY <1>4, <3>2, Written DEF Accts, WithEmail
      <4> QED BY <3>2, <4>1
    <3> QED BY <3>1, <3>2
  <2>2. KeyInformed(r, e)'
    <3>1. pc[r] = "listedByEmail" /\ "active" \in a.fields => \A u \in Accts(e) : u.active = Opens(r)
      BY <1>3, <1>8 DEF KeyInformed
    <3>2. pc'[r] \in {"listedByEmail", "link"} /\ "active" \in a.fields =>
            \A u \in Accts(e)' : u.active = Opens(r)
      BY <1>2, <1>5, <2>1, <3>1
    <3> QED BY <1>6, <3>2
  <2>3. CASE "active" \in a.fields
    <3>1. Following(r, e)'
      BY <1>1, <1>2, <1>5, <1>8, <2>3 DEF Following, Working, UnderWay, WritesUsersOrListed
    <3> QED BY <1>2, <2>2, <3>1, FollowAlone
  <2>4. CASE "active" \notin a.fields
    <3>1. KeysFollowed(e)
      BY <1>2, <2>4, FollowedAlone DEF Following
    <3>2. ASSUME NEW v \in Accts(e)' PROVE KeysFollow(v)'
      <4>1. PICK u \in Accts(e) : Same(v, u) /\ v.active = u.active
        BY <2>1, <2>4
      <4>2. KeysFollow(v)
        BY <3>1, <4>1, FollowSame DEF KeysFollowed
      <4> QED BY <1>1, <4>2 DEF KeysFollow, KeysOf
    <3> QED BY <1>2, <2>2, <3>2, FollowAlone DEF KeysFollowed
  <2> QED BY <2>3, <2>4
<1> QED BY <1>7, <1>8

LEMMA FollowKeyFollows ==
    ASSUME RecordsInvariant, KeysInvariant, OwnersKnown, NEW r \in Requests, FollowKey(r),
           NEW e, e \in ask[r].whom, ApartAt(e), KeysAgreement(e)
    PROVE  KeysAgreement(e)'
<1>0. Administer(r)
  BY DEF Administer
<1>1. /\ Working(r, e) /\ StepOf(r) /\ ask[r].kind # "settings"
      /\ \A q \in Requests \ {r} : ~Working(q, e)
      /\ UNCHANGED ask /\ Change(r)' = Change(r) /\ Opens(r)' = Opens(r)
      /\ \A place : Goto(r, place) => pc'[r] = place
  BY <1>0, AdministerIs
<1>2. /\ pc[r] = "keys" /\ UNCHANGED <<users, listed, account>> /\ Accts(e)' = Accts(e)
  BY DEF FollowKey, Accts
<1>3. KeyInformed(r, e)
  BY <1>1 DEF KeysAgreement
<1>4. pc'[r] \in {"keys", "next", "done"}
  BY <1>1, <1>2 DEF FollowKey
<1>5. ASSUME pc'[r] # "keys" \/ account[r].email # e
      PROVE  KeyInformed(r, e)'
  BY <1>1, <1>2, <1>4, <1>5 DEF KeyInformed
<1>6. CASE account[r].email # e
  <2>1. KeysFollowed(e)
    BY <1>1, <1>6, FollowedAlone DEF Following
  <2>2. ASSUME NEW u \in Accts(e) PROVE KeysFollow(u)'
    <3>1. u \in users /\ u.email = e
      BY <2>2 DEF Accts, WithEmail
    <3>2. KeysOf(u)' = KeysOf(u)
      BY <1>1, <1>6, <3>1, OthersKeys
    <3> QED BY <2>1, <2>2, <3>2 DEF KeysFollowed, KeysFollow
  <2> QED BY <1>1, <1>2, <1>5, <1>6, <2>2, FollowAlone DEF KeysFollowed
<1>7. CASE account[r].email = e /\ todo[r] = {}
  <2>1. UNCHANGED keys /\ pc'[r] # "keys"
    BY <1>1, <1>7 DEF FollowKey
  <2>2. ASSUME NEW u \in Accts(e) PROVE KeysFollow(u)'
    <3>1. u.active = Opens(r) /\ \A k \in KeysOf(u) : Done(k, Opens(r))
      BY <1>2, <1>3, <1>7, <2>2 DEF KeyInformed
    <3>2. KeysFollow(u)
      BY <3>1, DoneFollow
    <3> QED BY <2>1, <3>2 DEF KeysFollow, KeysOf
  <2> QED BY <1>1, <1>2, <1>5, <2>1, <2>2, FollowAlone DEF KeysFollowed
<1>8. CASE account[r].email = e /\ todo[r] # {}
  <2> DEFINE open == Opens(r)
  <2>1. PICK k \in todo[r] :
          /\ todo' = [todo EXCEPT ![r] = @ \ {k}]
          /\ IF Follows(k, open) THEN ReplaceKey(Followed(k, open)) ELSE UNCHANGED keys
          /\ UNCHANGED pc
    BY <1>8 DEF FollowKey
  <2>2. todo'[r] = todo[r] \ {k} /\ IsKey(k)
    BY <2>1, KeyDocsOf DEF KeysInvariant, KeysSound
  <2>3. \A j \in keys' : Done(j, open) \/ (j \in keys /\ j # k)
    <3>1. CASE Follows(k, open)
      <4> DEFINE key == Followed(k, open)
      <4>1. key.id = k.id /\ Made(key, open)
        BY <2>2 DEF Followed, IsKey, KeyFields, Made
      <4>2. ReplaceKey(key)
        BY <2>1, <3>1
      <4> HIDE DEF key
      <4>3. \A j \in keys' : j = key \/ (j \in keys /\ j.id # key.id)
        BY <4>2 DEF ReplaceKey
      <4>4. Done(key, open)
        BY <4>1, MadeDone
      <4> QED BY <4>1, <4>3, <4>4
    <3>2. CASE ~Follows(k, open)
      <4>1. Done(k, open) /\ UNCHANGED keys
        BY <2>1, <3>2 DEF Follows, Done
      <4> QED BY <4>1
    <3> QED BY <3>1, <3>2
  <2>4. /\ \A u \in Accts(e) :
              u.id = account[r].id /\ u.oid = account[r].oid /\ u.active = open
        /\ "active" \in Change(r).fields
        /\ \A u \in Accts(e) : \A j \in KeysOf(u) : Done(j, open) \/ j \in todo[r]
    BY <1>2, <1>3, <1>8 DEF KeyInformed
  <2>5. \A u \in Accts(e) : \A j \in KeysOf(u)' : Done(j, open) \/ j \in todo'[r]
    <3>1. ASSUME NEW u \in Accts(e), NEW j \in KeysOf(u)', ~Done(j, open)
          PROVE  j \in todo'[r]
      <4>1. j \in KeysOf(u) /\ j # k
        BY <2>3, <3>1 DEF KeysOf
      <4> QED BY <2>2, <2>4, <3>1, <4>1
    <3> QED BY <3>1
  <2>6. pc'[r] = "keys"
    BY <1>2, <2>1
  <2>7. KeyInformed(r, e)'
    BY <1>1, <1>2, <2>4, <2>5, <2>6 DEF KeyInformed
  <2>8. Following(r, e)'
    BY <1>1, <1>2, <1>8, <2>4, <2>6 DEF Following, Working, UnderWay
  <2> QED BY <1>1, <2>7, <2>8, FollowAlone
<1> QED BY <1>6, <1>7, <1>8

LEMMA AdministerFollows ==
    ASSUME RecordsInvariant, KeysInvariant, OwnersKnown, NEW r \in Requests, Administer(r),
           NEW e, e \in Addresses, e \in ask[r].whom, ApartAt(e), KeysAgreement(e), Sole(Accts(e))
    PROVE  KeysAgreement(e)'
<1>1. /\ Working(r, e) /\ StepOf(r) /\ ask[r].kind # "settings"
      /\ pc[r] \notin {"scan", "keys"} => ask[r].kind = "update" /\ Change(r) = ask[r]
      /\ \A q \in Requests \ {r} : ~Working(q, e)
      /\ UNCHANGED ask /\ Change(r)' = Change(r) /\ Opens(r)' = Opens(r)
      /\ \A place : Goto(r, place) => pc'[r] = place
  BY AdministerIs
<1>2. KeyInformed(r, e)
  BY <1>1 DEF KeysAgreement
<1>3. ASSUME UNCHANGED <<users, keys>>, KeysFollowed(e), KeyInformed(r, e)'
      PROVE  KeysAgreement(e)'
  <2>1. KeysFollowed(e)'
    BY <1>3 DEF KeysFollowed, KeysFollow, KeysOf, Accts
  <2> QED BY <1>1, <1>3, <2>1, FollowAlone
<1>4. CASE Resolve(r) \/ NextTarget(r)
  <2>1. /\ UNCHANGED <<users, keys>> /\ pc[r] \in {"resolve", "next"}
        /\ pc'[r] \in {"next", "usersById", "done"}
    BY <1>1, <1>4 DEF Resolve, NextTarget
  <2>2. KeysFollowed(e)
    BY <1>1, <2>1, FollowedAlone DEF Following, WritesUsersOrListed
  <2>3. KeyInformed(r, e)'
    BY <1>1, <2>1 DEF KeyInformed
  <2> QED BY <1>3, <2>1, <2>2, <2>3
<1>5. CASE Link(r)
  <2>1. /\ UNCHANGED <<users, keys>> /\ pc[r] = "link" /\ pc'[r] = "scan"
    BY <1>1, <1>5 DEF Link
  <2>2. PICK x \in FindOne(WithEmail(users, account[r].email)) :
          account'[r] = IF x = NoRecord THEN account[r] ELSE x
    BY <1>5 DEF Link, Reads, RecordsInvariant, Types
  <2>3. account'[r].email = account[r].email
    <3>1. x = NoRecord \/ x.email = account[r].email
      BY <2>2, FoundOf
    <3> QED BY <2>2, <3>1
  <2>4. Accts(e)' = Accts(e) /\ \A u \in Accts(e) : u # NoRecord
    BY <2>1, StoredAreRecords, NoRecordIsNone DEF Accts, WithEmail
  <2>5. CASE account[r].email # e
    <3>1. KeysFollowed(e)
      BY <1>1, <2>5, FollowedAlone DEF Following
    <3>2. KeyInformed(r, e)'
      BY <1>1, <2>1, <2>3, <2>5 DEF KeyInformed
    <3> QED BY <1>3, <2>1, <3>1, <3>2
  <2>6. CASE account[r].email = e
    <3>1. "active" \in ask[r].fields /\ \A u \in Accts(e) : u.active = Opens(r)
      BY <1>2, <2>1, <2>6 DEF KeyInformed
    <3>2. \A u \in Accts(e) : u.id = account'[r].id /\ u.oid = account'[r].oid
      <4>1. \A u \in Accts(e) : x = u
        BY <2>2, <2>4, <2>6 DEF FindOne, Sole, Accts
      <4> QED BY <2>2, <2>4, <4>1
    <3>3. KeyInformed(r, e)'
      BY <1>1, <2>1, <2>4, <3>1, <3>2 DEF KeyInformed
    <3>4. Following(r, e)'
      BY <1>1, <2>1, <2>3, <2>6, <3>1 DEF Following, Working, UnderWay
    <3> QED BY <1>1, <3>3, <3>4, FollowAlone
  <2> QED BY <2>5, <2>6
<1>6. CASE Scan(r)
  <2>1. /\ UNCHANGED <<users, keys, account>> /\ pc[r] = "scan" /\ pc'[r] = "keys"
        /\ Accts(e)' = Accts(e) /\ \A u \in Accts(e) : KeysOf(u)' = KeysOf(u)
    BY <1>1, <1>6 DEF Scan, Accts, KeysOf
  <2>2. todo'[r] = {k \in keys : k.owner \in Identifiers(account[r])}
    BY <1>6 DEF Scan, KeysInvariant, KeysSound
  <2>3. CASE account[r].email # e
    <3>1. KeysFollowed(e)
      BY <1>1, <2>3, FollowedAlone DEF Following
    <3>2. KeyInformed(r, e)'
      BY <1>1, <2>1, <2>3 DEF KeyInformed
    <3> QED BY <1>3, <2>1, <3>1, <3>2
  <2>4. CASE account[r].email = e
    <3>1. /\ \A u \in Accts(e) :
                u.id = account[r].id /\ u.oid = account[r].oid /\ u.active = Opens(r)
          /\ "active" \in Change(r).fields
      BY <1>2, <2>1, <2>4 DEF KeyInformed
    <3>2. \A u \in Accts(e) : u.id # NoId /\ u.oid # NoId /\ u.email = e /\ e # NoId
      BY KnownOf, RequestsAssumption DEF RecordsInvariant, Records, IdsAreIds, StoredHaveIds, Accts,
                                         WithEmail
    <3>3. \A u \in Accts(e) : KeysOf(u) \subseteq todo'[r]
      BY <2>2, <2>4, <3>1, <3>2 DEF KeysOf, Identifiers
    <3>4. KeyInformed(r, e)'
      BY <1>1, <2>1, <3>1, <3>3 DEF KeyInformed
    <3>5. Following(r, e)'
      BY <1>1, <2>1, <2>4, <3>1 DEF Following, Working, UnderWay
    <3> QED BY <1>1, <3>4, <3>5, FollowAlone
  <2> QED BY <2>3, <2>4
<1>7. CASE WriteTarget(r)
  BY <1>7, WriteTargetFollows
<1>8. CASE FollowKey(r)
  BY <1>8, FollowKeyFollows
<1> QED BY <1>4, <1>5, <1>6, <1>7, <1>8 DEF Administer

LEMMA WhitelistFollows ==
    ASSUME RecordsInvariant, UsersUnique, KeysInvariant, OwnersKnown, NEW r \in Requests, Whitelist(r),
           NEW e, e \in Addresses, e \in ask[r].whom, ApartAt(e), KeysAgreement(e),
           Sole(Accts(e)), Sole(Accts(e))'
    PROVE  KeysAgreement(e)'
<1>1. /\ Working(r, e) /\ StepOf(r) /\ Email(r) = e
      /\ pc[r] \in {"findListed", "create", "list", "patch", "drop", "linkListed", "changeLinked"}
      /\ pc[r] # "findListed" => Changes(r)
      /\ pc[r] \in HasEntry => entry[r].email = e
      /\ pc[r] \in {"linkListed", "changeLinked"} => ask[r].kind \in {"patchListed", "dropListed"}
  BY WhitelistIs
<1>2. /\ UNCHANGED ask /\ Change(r)' = Change(r) /\ Opens(r)' = Opens(r)
      /\ \A place : Goto(r, place) => pc'[r] = place
      /\ \A u : Reads(r, u) => account'[r] = u
  BY <1>1, LocalsOf DEF Goto, Reads, RecordsInvariant, Types, Change, Opens
<1>3. ask[r].kind # "settings" /\ ask[r].whom = {e}
  <2>1. /\ ask[r].kind \in {"login", "session", "settings"} \cup Administrative
        /\ pc[r] \in Path[ask[r].kind] \cup {"idle", "done"}
    BY AskOf DEF Fits
  <2>2. ask[r].kind \notin {"settings", "update"}
    BY <1>1, <2>1 DEF Path, Administrative
  <2> QED BY <1>1, <2>2, AskOf
<1>4. KeyInformed(r, e)
  BY <1>1 DEF KeysAgreement
<1>5. ~Following(r, e)
  BY <1>1 DEF Following, WritesUsersOrListed
<1>6. ASSUME pc'[r] \in {"findListed", "find", "list", "patch", "drop", "linkListed", "done"}
      PROVE  KeyInformed(r, e)'
  BY <1>2, <1>3, <1>6 DEF KeyInformed
<1>7. ASSUME pc[r] # "findListed"
      PROVE  (\A q \in Requests \ {r} : ~Working(q, e)) /\ KeysFollowed(e)
  <2>1. \A q \in Requests \ {r} : ~Working(q, e)
    BY <1>1, <1>7 DEF ApartAt
  <2> QED BY <1>5, <2>1, FollowedAlone
<1>8. ASSUME UNCHANGED <<users, keys>>, pc[r] # "findListed", KeyInformed(r, e)'
      PROVE  KeysAgreement(e)'
  <2>1. KeysFollowed(e)'
    BY <1>7, <1>8 DEF KeysFollowed, KeysFollow, KeysOf, Accts
  <2> QED BY <1>1, <1>7, <1>8, <2>1, FollowAlone
<1>9. CASE FindListed(r)
  <2>1. /\ Accts(e)' = Accts(e) /\ Entries(e)' = Entries(e)
        /\ \A u \in Accts(e) : KeysOf(u)' = KeysOf(u)
    BY <1>9 DEF FindListed, Accts, Entries, KeysOf
  <2>2. KeyInformed(r, e)'
    BY <1>6, <1>9, FindListedTo
  <2> QED BY <1>1, <1>5, <2>1, <2>2, FollowFree
<1>10. CASE Create(r)
  <2>1. pc[r] = "create" /\ pc'[r] = "done"
    BY <1>2, <1>10 DEF Create
  <2>2. KeysFollowed(e)'
    <3>1. ~InsertOwn(r)
      BY <2>1 DEF InsertOwn
    <3> QED BY <1>1, <1>3, <1>10, <3>1, NewFollowed
  <2> QED BY <1>1, <1>6, <1>7, <2>1, <2>2, FollowAlone
<1>11. CASE List(r) \/ PatchListed(r) \/ DropListed(r)
  <2>1. pc[r] \in {"list", "patch", "drop"} /\ pc'[r] \in {"linkListed", "done"} /\ UNCHANGED <<users, keys>>
    BY <1>2, <1>11 DEF List, PatchListed, DropListed
  <2> QED BY <1>6, <1>8, <2>1
<1>12. CASE LinkListed(r)
  <2>1. pc[r] = "linkListed" /\ pc'[r] = "changeLinked" /\ UNCHANGED <<users, keys>>
    BY <1>2, <1>12 DEF LinkListed
  <2>2. entry[r].email = e
    BY <1>1, <2>1 DEF HasEntry
  <2>3. PICK x \in FindOne(WithEmail(users, e)) : account'[r] = x
    BY <1>2, <1>12, <2>2 DEF LinkListed
  <2>4. Accts(e)' = Accts(e) /\ \A u \in Accts(e) : u # NoRecord
    BY <2>1, StoredAreRecords, NoRecordIsNone DEF Accts, WithEmail
  <2>5. IF x = NoRecord THEN Accts(e) = {} ELSE \A u \in Accts(e) : u = x
    BY <2>3, <2>4 DEF FindOne, Sole, Accts
  <2>6. KeyInformed(r, e)'
    BY <1>2, <1>3, <2>1, <2>3, <2>4, <2>5 DEF KeyInformed
  <2> QED BY <1>8, <2>1, <2>6
<1>13. CASE ChangeLinked(r)
  <2> DEFINE c == Change(r)
  <2>1. /\ pc[r] = "changeLinked" /\ UNCHANGED <<keys, account>>
        /\ pc'[r] = IF account[r] # NoRecord /\ "active" \in c.fields THEN "scan" ELSE "done"
    BY <1>2, <1>13 DEF ChangeLinked
  <2>2. entry[r].email = e
    BY <1>1, <2>1 DEF HasEntry
  <2>3. "active" \in c.fields => c.active = Opens(r)
    <3>1. CASE ask[r].kind = "dropListed"
      BY <3>1 DEF Change, Opens
    <3>2. CASE ask[r].kind = "patchListed"
      <4>1. c = ask[r]
        BY <3>2 DEF Change
      <4> QED BY <3>2, <4>1, AskOf DEF Opens
    <3> QED BY <1>1, <2>1, <3>1, <3>2
  <2> HIDE DEF c
  <2>4. ASSUME Accts(e)' # {}
        PROVE  \E u \in Accts(e) : \E v :
                  /\ Accts(e)' = {v} /\ Same(v, u)
                  /\ v.active = IF "active" \in c.fields THEN c.active ELSE u.active
    <3>1. PICK matching : /\ matching \subseteq WithEmail(users, e)
                          /\ WithEmail(users, e) \subseteq matching
                          /\ users' \in UpdateOne(users, matching, c)
      BY <1>13, <2>2 DEF ChangeLinked, c
    <3>2. \A u \in users : IsRecord(u)
      BY StoredAreRecords
    <3>3. /\ matching = {} => users' = users
          /\ matching # {} => \E u \in users : /\ WithEmail(users, e) = {u}
                                               /\ WithEmail(users', e) = {Changed(u, c)}
      BY <3>1, <3>2, UpdateAt DEF Accts
    <3>4. matching # {}
      BY <2>4, <3>1, <3>3 DEF Accts
    <3>5. PICK u \in users : Accts(e) = {u} /\ Accts(e)' = {Changed(u, c)}
      BY <3>3, <3>4 DEF Accts
    <3> DEFINE v == Changed(u, c)
    <3>6. Same(v, u) /\ v.active = IF "active" \in c.fields THEN c.active ELSE u.active
      BY <3>2, ChangedIs
    <3>7. Accts(e)' = {v}
      BY <3>5
    <3> HIDE DEF v
    <3> QED BY <3>5, <3>6, <3>7
  <2>5. /\ account[r] = NoRecord => Accts(e) = {}
        /\ account[r] # NoRecord =>
              \A u \in Accts(e) : u.id = account[r].id /\ u.oid = account[r].oid
    BY <1>4, <2>1 DEF KeyInformed
  <2>6. CASE account[r] # NoRecord /\ "active" \in c.fields
    <3>1. pc'[r] = "scan" /\ account'[r] = account[r] /\ account[r].email = e
      BY <1>3, <2>1, <2>6, AskOf DEF Fits
    <3>2. \A v \in Accts(e)' : v.id = account[r].id /\ v.oid = account[r].oid /\ v.active = Opens(r)
      BY <2>3, <2>4, <2>5, <2>6 DEF Same
    <3>3. "active" \in Change(r).fields
      BY <2>6 DEF c
    <3>4. KeyInformed(r, e)'
      BY <1>2, <1>3, <3>1, <3>2, <3>3 DEF KeyInformed
    <3>5. Following(r, e)'
      BY <1>1, <1>2, <3>1, <3>3 DEF Following, Working, UnderWay
    <3> QED BY <1>1, <1>7, <2>1, <3>4, <3>5, FollowAlone
  <2>7. CASE ~(account[r] # NoRecord /\ "active" \in c.fields)
    <3>1. pc'[r] = "done"
      BY <2>1, <2>7
    <3>2. KeysFollowed(e)
      BY <1>7, <2>1
    <3>3. ASSUME NEW v \in Accts(e)' PROVE KeysFollow(v)'
      <4>1. PICK u \in Accts(e) : Same(v, u) /\ v.active = u.active
        BY <2>4, <2>5, <2>7, <3>3
      <4>2. KeysFollow(v)
        BY <3>2, <4>1, FollowSame DEF KeysFollowed
      <4> QED BY <2>1, <4>2 DEF KeysFollow, KeysOf
    <3> QED BY <1>1, <1>6, <1>7, <2>1, <3>1, <3>3, FollowAlone DEF KeysFollowed
  <2> QED BY <2>6, <2>7
<1> QED BY <1>9, <1>10, <1>11, <1>12, <1>13 DEF Whitelist

\* Who may ask for his settings is active, or his entry is.
LEMMA StartFollows ==
    ASSUME RecordsInvariant, KeysInvariant, NEW r \in Requests, Start(r), NEW e, e \in ask[r].whom,
           Sole(Entries(e)), KeysAgreement(e)
    PROVE  KeysAgreement(e)'
<1>1. /\ pc[r] = "idle" /\ UNCHANGED <<users, listed, keys, ask>>
      /\ pc'[r] \in {"findListed", "find", "resolve", "create", "done"}
  BY StartTo
<1>2. ASSUME ask[r].kind = "settings", pc'[r] # "done", Accts(e) = {}, NEW w \in Entries(e)
      PROVE  w.active
  <2>1. Email(r) = e /\ ~Changes(r)
    BY <1>2, AskOf DEF Changes, Administrative
  <2>2. PICK u \in Resolved(e) : Goto(r, IF MayAsk(r, u) THEN FirstPlace(r) ELSE "done")
    BY <2>1 DEF Start, Requester
  <2>3. MayAsk(r, u)
    BY <1>2, <2>2 DEF Goto, RecordsInvariant, Types
  <2>4. u # NoRecord => u.active
    BY <1>2, <2>3 DEF MayAsk
  <2>5. PICK x \in Entries(e) : u = StandIn(x)
    BY <1>2, <2>2 DEF Resolved, FindOne, Accts, Entries
  <2>6. x \in listed /\ x = w
    BY <2>5 DEF Entries, WithEmail, Sole
  <2>7. IsRecord(w) /\ u = StandIn(w) /\ u # NoRecord
    BY <2>5, <2>6, StandInOf, StoredAreRecords
  <2>8. u.active = w.active
    BY <2>7 DEF StandIn, IsRecord, RecordFields
  <2> QED BY <2>4, <2>7, <2>8
<1>3. Working(r, e)' => KeyInformed(r, e)'
  BY <1>1, <1>2 DEF KeyInformed, Working, UnderWay, Accts, Entries
<1>4. /\ Accts(e)' = Accts(e) /\ Entries(e)' = Entries(e)
      /\ \A u \in Accts(e) : KeysOf(u)' = KeysOf(u)
      /\ ~Following(r, e)
  BY <1>1 DEF Accts, Entries, KeysOf, Following, Working, UnderWay
<1> QED BY <1>3, <1>4, FollowFree DEF StepOf

LEMMA CrashFollows ==
    ASSUME RecordsInvariant, KeysInvariant, NEW r \in Requests, Crash(r), NEW e, e \in ask[r].whom,
           KeysAgreement(e), e \notin cut'
    PROVE  KeysAgreement(e)'
<1>1. ~Changes(r)
  BY DEF Crash
<1>2. /\ ask[r].kind \in {"login", "session", "settings"} \cup Administrative
      /\ pc[r] \in Path[ask[r].kind] \cup {"idle", "done"}
  BY AskOf DEF Fits
<1>3. pc[r] \notin WritesUsersOrListed \cup {"link", "scan", "keys"}
  BY <1>1, <1>2 DEF Changes, Path, WritesUsersOrListed
<1>4. UNCHANGED <<users, listed, keys>> /\ pc'[r] = "done"
  BY DEF Crash, Goto, RecordsInvariant, Types
<1>5. /\ Accts(e)' = Accts(e) /\ Entries(e)' = Entries(e)
      /\ \A u \in Accts(e) : KeysOf(u)' = KeysOf(u)
      /\ ~Following(r, e) /\ ~Working(r, e)'
  BY <1>3, <1>4 DEF Accts, Entries, KeysOf, Following, Working, UnderWay
<1> QED BY <1>5, FollowFree DEF StepOf

LEMMA FollowKept ==
    ASSUME RecordsInvariant, AgreementInvariant, KeysInvariant, FollowInvariant,
           NEW r \in Requests, StepOf(r)
    PROVE  FollowInvariant'
<1>1. UsersUnique /\ UsersUnique' /\ UsersLast /\ OwnersKnown
  BY UsersStay DEF AgreementInvariant, FollowInvariant
<1>2. UNCHANGED ask /\ crossed \subseteq crossed' /\ cut \subseteq cut'
  BY LocalsOf
<1>3. OwnersKnown'
  BY <1>1, OwnersKept
<1>4. ASSUME NEW e \in Addresses, Calm(e)'
      PROVE  KeysAgreement(e)'
  <2>1. Sole(Accts(e)) /\ Sole(Accts(e))' /\ e \notin cut' /\ e \notin crossed'
    BY <1>1, <1>4, SoleBefore DEF Calm
  <2>2. KeysAgreement(e) /\ Agreement(e) /\ ApartAt(e)
    BY <1>2, <2>1 DEF AgreementInvariant, FollowInvariant, Calm
  <2>3. CASE e \notin ask[r].whom
    <3>1. Accts(e)' = Accts(e) /\ Entries(e)' = Entries(e)
      BY <2>3, OthersUntouched DEF Accts, Entries
    <3>2. ~Working(r, e)' /\ ~Following(r, e)
      BY <1>2, <2>3 DEF Working, Following
    <3>3. ASSUME NEW u \in Accts(e) PROVE KeysOf(u)' = KeysOf(u)
      <4>1. u \in users /\ u.email = e
        BY <3>3 DEF Accts, WithEmail
      <4>2. pc[r] \in {"store", "keys"} => account[r].email # u.email
        BY <2>3, <4>1, AccountTells DEF HasAccount
      <4> QED BY <1>1, <4>1, <4>2, OthersKeys
    <3> QED BY <2>2, <3>1, <3>2, <3>3, FollowFree
  <2>4. CASE e \in ask[r].whom
    <3>1. CASE SignIn(r)
      BY <1>1, <2>1, <2>2, <2>4, <3>1, SignInFollows
    <3>2. CASE Administer(r)
      BY <1>1, <2>1, <2>2, <2>4, <3>2, AdministerFollows
    <3>3. CASE Whitelist(r)
      BY <1>1, <2>1, <2>2, <2>4, <3>3, WhitelistFollows
    <3>4. CASE Start(r)
      BY <2>2, <2>4, <3>4, StartFollows DEF Agreement
    <3>5. CASE Crash(r)
      BY <2>1, <2>2, <2>4, <3>5, CrashFollows
    <3> QED BY <3>1, <3>2, <3>3, <3>4, <3>5 DEF StepOf
  <2> QED BY <2>3, <2>4
<1> QED BY <1>3, <1>4 DEF FollowInvariant

LEMMA FollowStep ==
    ASSUME RecordsInvariant, AgreementInvariant, KeysInvariant, FollowInvariant,
           [AccountsNext]_accountVars
    PROVE  FollowInvariant'
<1>1. CASE \E r \in Requests : StepOf(r)
  BY <1>1, FollowKept
<1>2. CASE UNCHANGED accountVars
  BY <1>2 DEF accountVars, FollowInvariant, OwnersKnown, Calm, KeysAgreement, KeysFollowed, KeysFollow,
              KeysOf, Following, KeyInformed, Working, UnderWay, Accts, Entries, Change, Opens
<1> QED BY <1>1, <1>2 DEF AccountsNext, StepOf

\* How the collections are found: the keys of the accounts are as these want them,
\* and where a key names its owner by the address there is an account of that address.
KeysAgree ==
    /\ \A u \in users : Sole(Accts(u.email)) => KeysFollow(u)
    /\ \A k \in keys : k.owner \in Addresses => Accts(k.owner) # {}

LEMMA FollowAtFirst == AccountsInit /\ KeysAgree => FollowInvariant
<1> SUFFICES ASSUME AccountsInit, KeysAgree PROVE FollowInvariant
  OBVIOUS
<1>1. users = FirstUsers /\ keys = FirstKeys /\ pc = [r \in Requests |-> "idle"]
  BY DEF AccountsInit
<1>2. OwnersKnown
  BY <1>1, FirstRecordsAssumption DEF OwnersKnown, KeysAgree
<1>3. \A r \in Requests : \A e : ~Working(r, e)
  BY <1>1 DEF Working, UnderWay
<1>4. \A e : Calm(e) => KeysFollowed(e)
  BY DEF Calm, KeysFollowed, KeysAgree, Accts, WithEmail
<1> QED BY <1>2, <1>3, <1>4 DEF FollowInvariant, KeysAgreement

\* An inactive account has no key that is on, however it became inactive.
THEOREM KeysStayTrue == AccountsSpec /\ ListsAgree /\ KeysAgree => []KeysFollowAccounts
<1>1. RecordsInvariant /\ AgreementInvariant /\ KeysInvariant /\ FollowInvariant
        /\ [AccountsNext]_accountVars => FollowInvariant'
  BY FollowStep
<1>2. RecordsInvariant /\ AgreementInvariant /\ [AccountsNext]_accountVars
        => AgreementInvariant'
  BY AgreementStep
<1>3. RecordsInvariant /\ KeysInvariant /\ [AccountsNext]_accountVars => KeysInvariant'
  BY KeysStep
<1>4. AgreementInvariant /\ FollowInvariant => KeysFollowAccounts
  <2> SUFFICES ASSUME AgreementInvariant, FollowInvariant, NEW u \in users,
                      AtRest(u.email), One(u.email), u.email \notin crossed \cup cut
               PROVE  KeysFollow(u)
    BY DEF KeysFollowAccounts
  <2> DEFINE e == u.email
  <2>1. e \in Addresses /\ u \in Accts(e)
    BY DEF FollowInvariant, OwnersKnown, Accts, WithEmail
  <2>2. Sole(Accts(e))
    BY OneIsSole DEF AgreementInvariant
  <2>3. KeysAgreement(e)
    BY <2>1, <2>2 DEF FollowInvariant, Calm
  <2>4. \A r \in Requests : ~Working(r, e)
    BY DEF AtRest, Working
  <2> QED BY <2>1, <2>3, <2>4 DEF KeysAgreement, Following, KeysFollowed
<1> QED BY <1>1, <1>2, <1>3, <1>4, AgreementAtFirst, KeysAtFirst, FollowAtFirst, RecordsStaySound,
           PTL DEF AccountsSpec

=============================================================================
