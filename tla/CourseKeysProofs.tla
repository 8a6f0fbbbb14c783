--------------------------- MODULE CourseKeysProofs ---------------------------
(***************************************************************************)
(* Proofs about CourseKeys, for any requests, keys, owners and slots, on   *)
(* top of those about the course document.                                 *)
(***************************************************************************)
EXTENDS CourseKeys, CourseWritesProofs

-----------------------------------------------------------------------------
(***************************************************************************)
(* The invariant: every document of a key that is stored, or that someone  *)
(* has read and may write back, is one of a key that is known by its id,   *)
(* and a hash belongs to one key.                                          *)
(***************************************************************************)
Docs ==
    FirstKeys \cup keys \cup ({copy[q] : q \in KeyRequests} \ {NoKey})
        \cup UNION {revoking[r].docs : r \in Requests}

\* q has not stored its key yet.
Unstored(q) == kpc[q] \in {"idle", "find", "refind", "store"}

KeyTypes ==
    /\ ask \in [KeyRequests -> KeyAsks]
    /\ kpc = [q \in KeyRequests |-> kpc[q]] /\ copy = [q \in KeyRequests |-> copy[q]]
    /\ revoking = [r \in Requests |-> revoking[r]]
    /\ \A r \in Requests : DOMAIN revoking[r] = {"owners", "docs"}

DocsAreKeys == \A d \in Docs : IsKey(d)
HashesDiffer ==
    \A d, e \in Docs : d.hash = e.hash /\ d.hash # NoHash => d.id = e.id /\ d.owner = e.owner
IdsDiffer == \A k, l \in keys : k.id = l.id => k = l
NewKeysFresh ==
    \A q \in KeyRequests : Unstored(q) =>
        q \notin revoked /\ \A d \in Docs : d.id # q /\ d.hash # q
FoundFirst ==
    \A q \in KeyRequests : kpc[q] = "store" /\ ask[q].kind # "generate" => copy[q] # NoKey

KeysInvariant ==
    /\ KeyTypes
    /\ DocsAreKeys
    /\ HashesDiffer
    /\ IdsDiffer
    /\ NewKeysFresh
    /\ FoundFirst
    /\ OneKeyPerSlot

LEMMA DocsMembers ==
    /\ FirstKeys \subseteq Docs /\ keys \subseteq Docs
    /\ \A q \in KeyRequests : copy[q] \in Docs \/ copy[q] = NoKey
    /\ \A r \in Requests : revoking[r].docs \subseteq Docs
BY DEF Docs

\* No document comes from nowhere.
LEMMA DocsFrom ==
    ASSUME NEW X, keys' \subseteq keys \cup X,
           \A q \in KeyRequests : copy'[q] \in Docs \/ copy'[q] = NoKey,
           \A r \in Requests : revoking'[r].docs \subseteq Docs
    PROVE  Docs' \subseteq Docs \cup X
<1> SUFFICES ASSUME NEW d \in Docs' PROVE d \in Docs \cup X
  OBVIOUS
<1>1. CASE d \in FirstKeys \/ d \in keys'
  BY <1>1, DocsMembers
<1>2. CASE d \in {copy'[q] : q \in KeyRequests} \ {NoKey}
  BY <1>2
<1>3. CASE d \in UNION {revoking'[r].docs : r \in Requests}
  BY <1>3
<1> QED BY <1>1, <1>2, <1>3 DEF Docs

-----------------------------------------------------------------------------
(***************************************************************************)
(* What a write of the store does to a set of keys.                        *)
(***************************************************************************)
IdsDifferIn(ks) == \A k, l \in ks : k.id = l.id => k = l
SlotsDifferIn(ks) == \A k, l \in ks : k.owner = l.owner /\ k.slot = l.slot => k = l

LEMMA ReplacedDiffer ==
    ASSUME NEW ks, NEW x, IdsDifferIn(ks), SlotsDifferIn(ks), ~Refused(ks, x)
    PROVE  /\ Replaced(ks, x) \subseteq ks \cup {x}
           /\ IdsDifferIn(Replaced(ks, x)) /\ SlotsDifferIn(Replaced(ks, x))
           /\ \A k \in Replaced(ks, x) : k.id = x.id => k = x
<1>1. CASE ~IsThere(ks, x)
  <2>1. Replaced(ks, x) = ks /\ \A k \in ks : k.id # x.id
    BY <1>1 DEF Replaced, IsThere
  <2> QED BY <2>1
<1>2. CASE IsThere(ks, x)
  <2>1. Replaced(ks, x) = {k \in ks : k.id # x.id} \cup {x}
    BY <1>2 DEF Replaced
  <2>2. \A k \in ks : ~(k.id # x.id /\ x.owner = k.owner /\ x.slot = k.slot)
    BY <1>2 DEF Refused, SlotTaken
  <2>3. IdsDifferIn(Replaced(ks, x))
    BY <2>1 DEF IdsDifferIn
  <2>4. SlotsDifferIn(Replaced(ks, x))
    BY <2>1, <2>2 DEF SlotsDifferIn
  <2> QED BY <2>1, <2>3, <2>4
<1> QED BY <1>1, <1>2

LEMMA InsertedDiffer ==
    ASSUME NEW ks, NEW x, IdsDifferIn(ks), SlotsDifferIn(ks), ~SlotTaken(ks, x),
           \A k \in ks : k.id # x.id
    PROVE  IdsDifferIn(ks \cup {x}) /\ SlotsDifferIn(ks \cup {x})
BY DEF IdsDifferIn, SlotsDifferIn, SlotTaken

-----------------------------------------------------------------------------
(***************************************************************************)
(* What a step may do to the keys.                                         *)
(***************************************************************************)
\* The document x is one of the key of b, which may have lost its hash.
Variant(x, b) ==
    IsKey(x) /\ x.id = b.id /\ x.owner = b.owner /\ x.hash \in {b.hash, NoHash}

\* Nobody asks to switch a key on.
SwitchesOff == \A q \in KeyRequests : ask[q].kind = "status" => ~ask[q].on

\* What is gone is revoked, or none has become so.
Keeps == UNCHANGED revoked \/ AllDeleted

KeysRest == keys' \subseteq keys /\ Docs' \subseteq Docs /\ Keeps

\* A document that was read is written back, switched or emptied.
WritesBack(x) ==
    \E b \in Docs :
        /\ Variant(x, b) /\ ~Refused(keys, x) /\ keys' = Replaced(keys, x)
        /\ Docs' \subseteq Docs \cup {x}
        /\ \/ UNCHANGED revoked
           \/ x.hash = NoHash /\ revoked' = revoked \cup {b.hash}
        /\ SwitchesOff => ~x.on

\* q stores its key.
Stores(q, x) ==
    /\ Unstored(q) /\ ~Unstored(q)'
    /\ IsKey(x) /\ x.hash = q /\ UNCHANGED revoked
    /\ Docs' \subseteq Docs \cup {x}
    /\ \/ x.id = q /\ ~SlotTaken(keys, x) /\ keys' = keys \cup {x}
       \/ /\ \E b \in Docs : x.id = b.id
          /\ ~Refused(keys, x) /\ keys' = Replaced(keys, x)

KeyEffect ==
    /\ \A q \in KeyRequests : Unstored(q)' => Unstored(q)
    /\ \/ KeysRest
       \/ \E x : WritesBack(x)
       \/ \E q \in KeyRequests : \E x : Stores(q, x)

\* The part of the invariant that follows from that.
LEMMA EffectKeepsKeys ==
    ASSUME KeysInvariant, KeyEffect
    PROVE  (DocsAreKeys /\ HashesDiffer /\ IdsDiffer /\ NewKeysFresh /\ OneKeyPerSlot)'
<1> USE DEF KeysInvariant
<1>0. IdsDifferIn(keys) /\ SlotsDifferIn(keys)
  BY DEF IdsDiffer, OneKeyPerSlot, IdsDifferIn, SlotsDifferIn
<1>1. CASE KeysRest
  <2>1. keys' \subseteq keys /\ Docs' \subseteq Docs
    BY <1>1 DEF KeysRest
  <2>2. (DocsAreKeys /\ HashesDiffer)'
    BY <2>1 DEF DocsAreKeys, HashesDiffer, IsKey
  <2>3. (IdsDiffer /\ OneKeyPerSlot)'
    BY <2>1 DEF IdsDiffer, OneKeyPerSlot
  <2>4. NewKeysFresh'
    <3>1. revoked' \subseteq revoked \cup {k.hash : k \in keys}
      BY <1>1 DEF KeysRest, Keeps, AllDeleted
    <3>2. ASSUME NEW q \in KeyRequests, Unstored(q)'
          PROVE  q \notin revoked' /\ \A d \in Docs' : d.id # q /\ d.hash # q
      <4>1. q \notin revoked /\ \A d \in Docs : d.id # q /\ d.hash # q
        BY <3>2 DEF NewKeysFresh, KeyEffect
      <4> QED BY <2>1, <3>1, <4>1, DocsMembers
    <3> QED BY <3>2 DEF NewKeysFresh
  <2> QED BY <2>2, <2>3, <2>4
<1>2. ASSUME NEW x, WritesBack(x)
      PROVE  (DocsAreKeys /\ HashesDiffer /\ IdsDiffer /\ NewKeysFresh /\ OneKeyPerSlot)'
  <2>1. PICK b \in Docs :
           /\ Variant(x, b) /\ ~Refused(keys, x) /\ keys' = Replaced(keys, x)
           /\ Docs' \subseteq Docs \cup {x}
           /\ \/ UNCHANGED revoked
              \/ x.hash = NoHash /\ revoked' = revoked \cup {b.hash}
    BY <1>2 DEF WritesBack
  <2>2. IsKey(x) /\ x.id = b.id /\ x.owner = b.owner /\ x.hash \in {b.hash, NoHash}
    BY <2>1 DEF Variant
  <2>3. (IdsDiffer /\ OneKeyPerSlot)'
    <3>1. IdsDifferIn(Replaced(keys, x)) /\ SlotsDifferIn(Replaced(keys, x))
      BY <1>0, <2>1, ReplacedDiffer
    <3> QED BY <2>1, <3>1 DEF IdsDiffer, OneKeyPerSlot, IdsDifferIn, SlotsDifferIn
  <2>4. DocsAreKeys'
    BY <2>1, <2>2 DEF DocsAreKeys, IsKey
  <2>5. HashesDiffer'
    BY <2>1, <2>2 DEF HashesDiffer
  <2>6. NewKeysFresh'
    <3> SUFFICES ASSUME NEW q \in KeyRequests, Unstored(q)'
                 PROVE  q \notin revoked' /\ \A d \in Docs' : d.id # q /\ d.hash # q
      BY DEF NewKeysFresh
    <3>1. q \notin revoked /\ q # NoHash /\ \A d \in Docs : d.id # q /\ d.hash # q
      BY HashesAssumption DEF NewKeysFresh, KeyEffect
    <3> QED BY <2>1, <2>2, <3>1
  <2> QED BY <2>3, <2>4, <2>5, <2>6
<1>3. ASSUME NEW p \in KeyRequests, NEW x, Stores(p, x)
      PROVE  (DocsAreKeys /\ HashesDiffer /\ IdsDiffer /\ NewKeysFresh /\ OneKeyPerSlot)'
  <2>1. /\ Unstored(p) /\ ~Unstored(p)' /\ IsKey(x) /\ x.hash = p /\ revoked' = revoked
        /\ Docs' \subseteq Docs \cup {x}
    BY <1>3 DEF Stores
  <2>2. p \notin revoked /\ \A d \in Docs : d.id # p /\ d.hash # p
    BY <2>1 DEF NewKeysFresh
  <2>3. x.id = p \/ \E b \in Docs : x.id = b.id
    BY <1>3 DEF Stores
  <2>4. (IdsDiffer /\ OneKeyPerSlot)'
    <3>1. IdsDifferIn(keys') /\ SlotsDifferIn(keys')
      <4>1. CASE x.id = p /\ ~SlotTaken(keys, x) /\ keys' = keys \cup {x}
        <5>1. \A k \in keys : k.id # x.id
          BY <2>2, <4>1, DocsMembers
        <5> QED BY <1>0, <4>1, <5>1, InsertedDiffer
      <4>2. CASE ~Refused(keys, x) /\ keys' = Replaced(keys, x)
        BY <1>0, <4>2, ReplacedDiffer
      <4> QED BY <1>3, <4>1, <4>2 DEF Stores
    <3> QED BY <3>1 DEF IdsDiffer, OneKeyPerSlot, IdsDifferIn, SlotsDifferIn
  <2>5. DocsAreKeys'
    BY <2>1 DEF DocsAreKeys, IsKey
  <2>6. HashesDiffer'
    BY <2>1, <2>2 DEF HashesDiffer
  <2>7. NewKeysFresh'
    <3> SUFFICES ASSUME NEW q \in KeyRequests, Unstored(q)'
                 PROVE  q \notin revoked' /\ \A d \in Docs' : d.id # q /\ d.hash # q
      BY DEF NewKeysFresh
    <3>1. q \notin revoked /\ q # p /\ \A d \in Docs : d.id # q /\ d.hash # q
      BY <2>1 DEF NewKeysFresh, KeyEffect
    <3> QED BY <2>1, <2>3, <3>1
  <2> QED BY <2>4, <2>5, <2>6, <2>7
<1> QED BY <1>1, <1>2, <1>3 DEF KeyEffect

-----------------------------------------------------------------------------
(***************************************************************************)
(* Every step has such an effect.                                          *)
(***************************************************************************)
\* What is left of the key of a document.
LEMMA EmptiedVariant ==
    ASSUME NEW d, IsKey(d)
    PROVE  Variant(Emptied(d), d) /\ Emptied(d).hash = NoHash /\ ~Emptied(d).on
BY DEF IsKey, KeyFields, Emptied, Variant

LEMMA SwitchedVariant ==
    ASSUME NEW d, IsKey(d), NEW on
    PROVE  Variant([d EXCEPT !.on = on], d) /\ [d EXCEPT !.on = on].on = on
BY DEF IsKey, KeyFields, Variant

LEMMA NewKeyFields ==
    ASSUME NEW q, NEW id
    PROVE  /\ IsKey(NewKey(id, q)) /\ NewKey(id, q).id = id /\ NewKey(id, q).hash = q
           /\ NewKey(id, q).owner = ask[q].owner
BY DEF NewKey, IsKey, KeyFields

\* The rest of the invariant, and that nobody has his key yet to store who had not
\* before.
Steady ==
    (KeyTypes /\ FoundFirst)' /\ \A q \in KeyRequests : Unstored(q)' => Unstored(q)

\* A step of a course request.
LEMMA CourseSteady ==
    ASSUME KeysInvariant, UNCHANGED <<ask, kpc, copy>>,
           revoking' = [r \in Requests |-> revoking'[r]],
           \A r \in Requests : DOMAIN revoking'[r] = {"owners", "docs"}
    PROVE  Steady
<1>1. KeyTypes'
  BY DEF KeysInvariant, KeyTypes
<1>2. FoundFirst'
  BY DEF KeysInvariant, FoundFirst
<1> QED BY <1>1, <1>2 DEF Steady, Unstored

\* It leaves the keys, and what it has to revoke is stored.
LEMMA CourseRests ==
    ASSUME KeysInvariant, UNCHANGED <<ask, kpc, copy>>, Keeps, keys' \subseteq keys,
           \/ UNCHANGED revoking
           \/ \E r \in Requests : \E owners, docs :
                 /\ revoking' = [revoking EXCEPT ![r] = [owners |-> owners, docs |-> docs]]
                 /\ docs \subseteq keys
    PROVE  Steady /\ KeyEffect
<1>1. \A r \in Requests : revoking'[r].docs \subseteq Docs
  BY DocsMembers DEF KeysInvariant, KeyTypes
<1>2. Docs' \subseteq Docs \cup {}
  BY <1>1, DocsMembers, DocsFrom
<1>3. revoking' = [r \in Requests |-> revoking'[r]]
  BY DEF KeysInvariant, KeyTypes
<1>4. \A r \in Requests : DOMAIN revoking'[r] = {"owners", "docs"}
  BY DEF KeysInvariant, KeyTypes
<1>5. Steady
  BY <1>3, <1>4, CourseSteady
<1> QED BY <1>2, <1>5 DEF KeyEffect, KeysRest, Steady

LEMMA CourseStepEffect ==
    ASSUME KeysInvariant, NEW r \in Requests,
           \/ SaveThenRevoke(r) \/ RevokeFind(r) \/ RevokeReplace(r) \/ RevokeEnds(r)
           \/ DropAllKeys(r) \/ CrashRevoking(r) \/ OtherStep(r)
    PROVE  Steady /\ KeyEffect
<1>1. CASE SaveThenRevoke(r)
  <2>1. \/ revoking' = [revoking EXCEPT ![r] = [owners |-> RevokedOwners(r), docs |-> {}]]
        \/ revoking' = revoking
    BY <1>1 DEF SaveThenRevoke, KeysInvariant, KeyTypes
  <2>2. UNCHANGED <<keys, ask, kpc, copy>> /\ Keeps
    BY <1>1 DEF SaveThenRevoke, Keeps
  <2> QED BY <2>1, <2>2, CourseRests
<1>2. CASE RevokeFind(r)
  <2>1. PICK owner \in revoking[r].owners :
           revoking' = [revoking EXCEPT ![r] =
             [owners |-> @.owners \ {owner},
              docs |-> {k \in keys : k.owner = owner /\ (k.hash # NoHash \/ ~k.deleted)}]]
    BY <1>2 DEF RevokeFind
  <2>2. UNCHANGED <<keys, ask, kpc, copy>> /\ Keeps
    BY <1>2 DEF RevokeFind, Keeps
  <2> DEFINE docs == {k \in keys : k.owner = owner /\ (k.hash # NoHash \/ ~k.deleted)}
             owners == revoking[r].owners \ {owner}
  <2>3. revoking' = [revoking EXCEPT ![r] = [owners |-> owners, docs |-> docs]]
    BY <2>1
  <2>4. docs \subseteq keys
    OBVIOUS
  <2> HIDE DEF docs, owners
  <2> QED BY <2>2, <2>3, <2>4, CourseRests
<1>3. CASE RevokeReplace(r)
  <2>1. PICK d \in revoking[r].docs :
          /\ ~Refused(keys, Emptied(d))
          /\ keys' = Replaced(keys, Emptied(d))
          /\ revoking' = [revoking EXCEPT ![r].docs = @ \ {d}]
          /\ revoked' = revoked \cup {d.hash}
    BY <1>3 DEF RevokeReplace
  <2>2. UNCHANGED <<ask, kpc, copy>>
    BY <1>3 DEF RevokeReplace
  <2>3. d \in Docs /\ IsKey(d)
    BY <2>1, DocsMembers DEF KeysInvariant, DocsAreKeys
  <2>4. /\ revoking' = [q \in Requests |-> revoking'[q]]
        /\ \A q \in Requests : DOMAIN revoking'[q] = {"owners", "docs"}
        /\ \A q \in Requests : revoking'[q].docs \subseteq revoking[q].docs
    BY <2>1 DEF KeysInvariant, KeyTypes
  <2>5. Steady
    BY <2>2, <2>4, CourseSteady
  <2> DEFINE x == Emptied(d)
  <2>6. Variant(x, d) /\ x.hash = NoHash /\ ~x.on
    BY <2>3, EmptiedVariant
  <2>7. ~Refused(keys, x) /\ keys' = Replaced(keys, x)
    BY <2>1
  <2> HIDE DEF x
  <2>8. keys' \subseteq keys \cup {x}
    BY <2>7 DEF Replaced
  <2>9. \A q \in Requests : revoking'[q].docs \subseteq Docs
    BY <2>4, DocsMembers
  <2>10. Docs' \subseteq Docs \cup {x}
    BY <2>2, <2>8, <2>9, DocsMembers, DocsFrom
  <2>11. WritesBack(x)
    BY <2>1, <2>3, <2>6, <2>7, <2>10 DEF WritesBack
  <2> QED BY <2>5, <2>11 DEF Steady, KeyEffect
<1>4. CASE RevokeEnds(r) \/ CrashRevoking(r)
  <2> DEFINE none == {}
  <2>1. revoking' = [revoking EXCEPT ![r] = [owners |-> none, docs |-> none]]
    BY <1>4 DEF RevokeEnds, CrashRevoking, Nothing
  <2>2. UNCHANGED <<keys, ask, kpc, copy>> /\ Keeps
    BY <1>4 DEF RevokeEnds, CrashRevoking, Keeps
  <2>3. none \subseteq keys
    OBVIOUS
  <2> HIDE DEF none
  <2> QED BY <2>1, <2>2, <2>3, CourseRests
<1>5. CASE DropAllKeys(r) \/ OtherStep(r)
  <2>1. UNCHANGED <<ask, kpc, copy, revoking>> /\ Keeps /\ keys' \subseteq keys
    BY <1>5 DEF DropAllKeys, OtherStep, keyVars, Keeps, AllDeleted
  <2> QED BY <2>1, CourseRests
<1> QED BY <1>1, <1>2, <1>3, <1>4, <1>5

\* A request for keys goes to a place and leaves the keys, and what it has read is
\* stored.
LEMMA KeyRests ==
    ASSUME KeysInvariant, NEW q \in KeyRequests, NEW place, KeyGoto(q, place),
           UNCHANGED <<ask, revoking>>, Keeps, keys' \subseteq keys,
           \/ UNCHANGED copy
           \/ \E key \in keys \cup {NoKey} : copy' = [copy EXCEPT ![q] = key],
           place \in {"idle", "find", "refind", "store"} => Unstored(q),
           place = "store" /\ ask[q].kind # "generate" => copy'[q] # NoKey
    PROVE  Steady /\ KeyEffect
<1>1. /\ kpc'[q] = place /\ \A p \in KeyRequests \ {q} : kpc'[p] = kpc[p] /\ copy'[p] = copy[p]
      /\ KeyTypes'
  BY DEF KeysInvariant, KeyTypes, KeyGoto
<1>2. \A p \in KeyRequests : Unstored(p)' => Unstored(p)
  BY <1>1 DEF Unstored
<1>3. \A p \in KeyRequests : copy'[p] \in Docs \/ copy'[p] = NoKey
  BY DocsMembers DEF KeysInvariant, KeyTypes
<1>4. Docs' \subseteq Docs \cup {}
  BY <1>3, DocsMembers, DocsFrom
<1>5. FoundFirst'
  BY <1>1 DEF KeysInvariant, FoundFirst
<1> QED BY <1>1, <1>2, <1>4, <1>5 DEF Steady, KeyEffect, KeysRest

\* A request for keys stores a document.
LEMMA KeyWrites ==
    ASSUME KeysInvariant, NEW q \in KeyRequests, Leave(q, "record"),
           UNCHANGED <<ask, revoking>>, NEW x, keys' \subseteq keys \cup {x}
    PROVE  Steady /\ ~Unstored(q)' /\ Docs' \subseteq Docs \cup {x}
<1>1. /\ kpc'[q] = "record" /\ copy'[q] = NoKey
      /\ \A p \in KeyRequests \ {q} : kpc'[p] = kpc[p] /\ copy'[p] = copy[p]
      /\ KeyTypes'
  BY DEF KeysInvariant, KeyTypes, Leave, KeyGoto
<1>2. \A p \in KeyRequests : Unstored(p)' => Unstored(p)
  BY <1>1 DEF Unstored
<1>3. Docs' \subseteq Docs \cup {x}
  <2>1. \A p \in KeyRequests : copy'[p] \in Docs \/ copy'[p] = NoKey
    BY <1>1, DocsMembers
  <2> QED BY <2>1, DocsMembers, DocsFrom
<1>4. FoundFirst'
  BY <1>1 DEF KeysInvariant, FoundFirst
<1> QED BY <1>1, <1>2, <1>3, <1>4 DEF Steady, Unstored

\* It leaves the document it has read.
LEMMA KeyLeaves ==
    ASSUME KeysInvariant, NEW q \in KeyRequests, NEW place, Leave(q, place),
           UNCHANGED <<keys, ask, revoking, revoked>>,
           place \in {"refind", "done"}, place = "refind" => Unstored(q)
    PROVE  Steady /\ KeyEffect
<1>1. KeyGoto(q, place) /\ copy' = [copy EXCEPT ![q] = NoKey] /\ Keeps
  BY DEF Leave, Keeps
<1> QED BY <1>1, KeyRests

LEMMA NoKeyIsNone == \A d \in Docs : DocsAreKeys => d # NoKey
<1> SUFFICES ASSUME NEW d \in Docs, DocsAreKeys PROVE d # NoKey
  OBVIOUS
<1>1. DOMAIN d = KeyFields /\ DOMAIN NoKey = {"hash"}
  BY DEF DocsAreKeys, IsKey, NoKey
<1> QED BY <1>1 DEF KeyFields

LEMMA KeyStepEffect ==
    ASSUME KeysInvariant, NEW q \in KeyRequests,
           \/ KeyRead(q) \/ KeyFind(q) \/ StoreNewKey(q) \/ SwitchKey(q) \/ DeleteKey(q)
           \/ DeleteAllKeys(q) \/ KeyRecord(q) \/ KeyRecheck(q) \/ KeyDeliver(q) \/ KeyCrash(q)
    PROVE  Steady /\ KeyEffect
<1>1. CASE KeyRead(q)
  <2>1. UNCHANGED <<keys, ask, copy, revoking>> /\ Keeps /\ Unstored(q)
    BY <1>1 DEF KeyRead, Unstored, Keeps
  <2>2. KeyGoto(q, "find") \/ KeyGoto(q, "done") \/ KeyGoto(q, "deleteAll")
    BY <1>1 DEF KeyRead
  <2> QED BY <2>1, <2>2, KeyRests
<1>2. CASE KeyFind(q)
  <2>1. UNCHANGED <<keys, ask, revoking>> /\ Keeps /\ Unstored(q)
    BY <1>2 DEF KeyFind, Unstored, Keeps
  <2>2. CASE \E key \in Found(q) : copy' = [copy EXCEPT ![q] = key] /\ KeyGoto(q, "store")
    <3>1. PICK key \in Found(q) : copy' = [copy EXCEPT ![q] = key] /\ KeyGoto(q, "store")
      BY <2>2
    <3>2. key \in keys
      BY DEF Found
    <3>3. key # NoKey
      BY <3>2, NoKeyIsNone, DocsMembers DEF KeysInvariant
    <3>4. copy'[q] = key
      BY <3>1 DEF KeysInvariant, KeyTypes
    <3> QED BY <2>1, <3>1, <3>2, <3>3, <3>4, KeyRests
  <2>3. CASE UNCHANGED copy
    <3>1. CASE KeyGoto(q, "done")
      BY <2>1, <2>3, <3>1, KeyRests
    <3>2. CASE KeyGoto(q, "store") /\ ask[q].kind = "generate"
      BY <2>1, <2>3, <3>2, KeyRests
    <3> QED BY <1>2, <2>2, <2>3, <3>1, <3>2 DEF KeyFind
  <2> QED BY <1>2, <2>2, <2>3 DEF KeyFind
<1>3. CASE StoreNewKey(q)
  <2> DEFINE inserts == copy[q] = NoKey
             id == IF inserts THEN q ELSE copy[q].id
             x == NewKey(id, q)
  <2>1. Unstored(q) /\ UNCHANGED <<ask, revoking, revoked>> /\ ask[q].kind = "generate"
    BY <1>3 DEF StoreNewKey, Unstored
  <2>2. IsKey(x) /\ x.id = id /\ x.hash = q
    BY NewKeyFields
  <2>3. ~inserts => \E b \in Docs : x.id = b.id
    BY <2>2, DocsMembers
  <2>4. /\ inserts => id = q
        /\ IF IF inserts THEN SlotTaken(keys, x) ELSE Refused(keys, x)
           THEN Leave(q, IF inserts THEN "refind" ELSE "done") /\ UNCHANGED keys
           ELSE /\ keys' = IF inserts THEN keys \cup {x} ELSE Replaced(keys, x)
                /\ Leave(q, "record")
    BY <1>3 DEF StoreNewKey
  <2> HIDE DEF inserts, id, x
  <2>5. CASE IF inserts THEN SlotTaken(keys, x) ELSE Refused(keys, x)
    <3>1. UNCHANGED keys /\ (Leave(q, "refind") \/ Leave(q, "done"))
      BY <2>4, <2>5
    <3> QED BY <2>1, <3>1, KeyLeaves
  <2>6. CASE ~IF inserts THEN SlotTaken(keys, x) ELSE Refused(keys, x)
    <3>1. Leave(q, "record") /\ keys' = IF inserts THEN keys \cup {x} ELSE Replaced(keys, x)
      BY <2>4, <2>6
    <3>2. keys' \subseteq keys \cup {x}
      BY <3>1 DEF Replaced
    <3>3. Steady /\ ~Unstored(q)' /\ Docs' \subseteq Docs \cup {x}
      BY <2>1, <3>1, <3>2, KeyWrites
    <3>4. \/ x.id = q /\ ~SlotTaken(keys, x) /\ keys' = keys \cup {x}
          \/ /\ \E b \in Docs : x.id = b.id
             /\ ~Refused(keys, x) /\ keys' = Replaced(keys, x)
      BY <2>2, <2>3, <2>4, <2>6, <3>1
    <3>5. Stores(q, x)
      BY <2>1, <2>2, <3>3, <3>4 DEF Stores
    <3> QED BY <3>3, <3>5 DEF Steady, KeyEffect
  <2> QED BY <2>5, <2>6
<1>4. CASE SwitchKey(q)
  <2> DEFINE x == [copy[q] EXCEPT !.on = ask[q].on]
  <2>1. /\ kpc[q] = "store" /\ ask[q].kind = "status"
        /\ UNCHANGED <<ask, revoking, revoked>>
    BY <1>4 DEF SwitchKey
  <2>2. copy[q] \in Docs /\ IsKey(copy[q])
    BY <2>1, DocsMembers DEF KeysInvariant, FoundFirst, DocsAreKeys
  <2>3. Variant(x, copy[q]) /\ x.on = ask[q].on
    BY <2>2, SwitchedVariant
  <2>4. IF Refused(keys, x) THEN Leave(q, "done") /\ UNCHANGED keys
                            ELSE keys' = Replaced(keys, x) /\ Leave(q, "record")
    BY <1>4 DEF SwitchKey
  <2> HIDE DEF x
  <2>5. CASE Refused(keys, x)
    BY <2>1, <2>4, <2>5, KeyLeaves
  <2>6. CASE ~Refused(keys, x)
    <3>1. Leave(q, "record") /\ keys' = Replaced(keys, x)
      BY <2>4, <2>6
    <3>2. keys' \subseteq keys \cup {x}
      BY <3>1 DEF Replaced
    <3>3. Steady /\ Docs' \subseteq Docs \cup {x}
      BY <2>1, <3>1, <3>2, KeyWrites
    <3>4. SwitchesOff => ~x.on
      BY <2>1, <2>3 DEF SwitchesOff
    <3>5. WritesBack(x)
      BY <2>1, <2>2, <2>3, <2>6, <3>1, <3>3, <3>4 DEF WritesBack
    <3> QED BY <3>3, <3>5 DEF Steady, KeyEffect
  <2> QED BY <2>5, <2>6
<1>5. CASE DeleteKey(q)
  <2> DEFINE x == Emptied(copy[q])
  <2>1. /\ kpc[q] = "store" /\ ask[q].kind = "delete"
        /\ UNCHANGED <<ask, revoking>>
    BY <1>5 DEF DeleteKey
  <2>2. copy[q] \in Docs /\ IsKey(copy[q])
    BY <2>1, DocsMembers DEF KeysInvariant, FoundFirst, DocsAreKeys
  <2>3. Variant(x, copy[q]) /\ x.hash = NoHash /\ ~x.on
    BY <2>2, EmptiedVariant
  <2>4. IF Refused(keys, x)
        THEN Leave(q, "done") /\ UNCHANGED <<keys, revoked>>
        ELSE /\ keys' = Replaced(keys, x)
             /\ revoked' = revoked \cup {copy[q].hash}
             /\ Leave(q, "record")
    BY <1>5 DEF DeleteKey
  <2> HIDE DEF x
  <2>5. CASE Refused(keys, x)
    BY <2>1, <2>4, <2>5, KeyLeaves
  <2>6. CASE ~Refused(keys, x)
    <3>1. /\ Leave(q, "record") /\ keys' = Replaced(keys, x)
          /\ revoked' = revoked \cup {copy[q].hash}
      BY <2>4, <2>6
    <3>2. keys' \subseteq keys \cup {x}
      BY <3>1 DEF Replaced
    <3>3. Steady /\ Docs' \subseteq Docs \cup {x}
      BY <2>1, <3>1, <3>2, KeyWrites
    <3>4. WritesBack(x)
      BY <2>2, <2>3, <2>6, <3>1, <3>3 DEF WritesBack
    <3> QED BY <3>3, <3>4 DEF Steady, KeyEffect
  <2> QED BY <2>5, <2>6
<1>6. CASE KeyRecord(q) \/ KeyRecheck(q) \/ KeyDeliver(q)
  <2>1. UNCHANGED <<keys, ask, copy, revoking>> /\ Keeps
    BY <1>6 DEF KeyRecord, KeyRecheck, KeyDeliver, Keeps
  <2>2. KeyGoto(q, "done") \/ KeyGoto(q, "deliver") \/ KeyGoto(q, "recheck")
    BY <1>6 DEF KeyRecord, KeyRecheck, KeyDeliver
  <2> QED BY <2>1, <2>2, KeyRests
<1>7. CASE KeyCrash(q)
  <2>1. UNCHANGED <<keys, ask, revoking, revoked>> /\ Leave(q, "done")
    BY <1>7 DEF KeyCrash
  <2> QED BY <2>1, KeyLeaves
<1>8. CASE DeleteAllKeys(q)
  <2>1. UNCHANGED <<ask, copy, revoking>> /\ Keeps /\ keys' \subseteq keys
    BY <1>8 DEF DeleteAllKeys, Keeps, AllDeleted
  <2>2. KeyGoto(q, "record")
    BY <1>8 DEF DeleteAllKeys
  <2> QED BY <2>1, <2>2, KeyRests
<1> QED BY <1>1, <1>2, <1>3, <1>4, <1>5, <1>6, <1>7, <1>8

LEMMA EveryStepEffect ==
    ASSUME KeysInvariant, KeysNext
    PROVE  Steady /\ KeyEffect
<1>1. ASSUME NEW a \in Auditors, UNCHANGED keyVars PROVE Steady /\ KeyEffect
  <2>1. UNCHANGED <<ask, kpc, copy, revoking>> /\ Keeps /\ keys' \subseteq keys
    BY <1>1 DEF keyVars, Keeps
  <2> QED BY <2>1, CourseRests
<1> QED BY <1>1, CourseStepEffect, KeyStepEffect DEF KeysNext, SomeStep

LEMMA KeysStutter ==
    ASSUME KeysInvariant, UNCHANGED allVars
    PROVE  Steady /\ KeyEffect
<1>1. UNCHANGED <<ask, kpc, copy, revoking>> /\ Keeps /\ keys' \subseteq keys
  BY DEF allVars, keyVars, Keeps
<1> QED BY <1>1, CourseRests

LEMMA KeysInitial == KeysInit => KeysInvariant
<1> SUFFICES ASSUME KeysInit PROVE KeysInvariant
  OBVIOUS
<1>1. /\ keys = FirstKeys /\ ask \in [KeyRequests -> KeyAsks] /\ revoked = {}
      /\ kpc = [q \in KeyRequests |-> "idle"] /\ copy = [q \in KeyRequests |-> NoKey]
      /\ revoking = [r \in Requests |-> Nothing]
  BY DEF KeysInit
<1>2. Docs = FirstKeys
  BY <1>1 DEF Docs, Nothing
<1>3. KeyTypes
  BY <1>1 DEF KeyTypes, Nothing
<1>4. DocsAreKeys /\ HashesDiffer
  BY <1>2, FirstKeysAssumption DEF DocsAreKeys, HashesDiffer
<1>5. IdsDiffer /\ OneKeyPerSlot
  BY <1>1, FirstKeysAssumption DEF IdsDiffer, OneKeyPerSlot
<1>6. NewKeysFresh
  BY <1>1, <1>2, FirstKeysAssumption DEF NewKeysFresh
<1>7. FoundFirst
  BY <1>1 DEF FoundFirst
<1> QED BY <1>3, <1>4, <1>5, <1>6, <1>7 DEF KeysInvariant

LEMMA KeysStep ==
    ASSUME KeysInvariant, [KeysNext]_allVars
    PROVE  KeysInvariant' /\ Steady /\ KeyEffect
<1>1. Steady /\ KeyEffect
  BY EveryStepEffect, KeysStutter
<1>2. (DocsAreKeys /\ HashesDiffer /\ IdsDiffer /\ NewKeysFresh /\ OneKeyPerSlot)'
  BY <1>1, EffectKeepsKeys
<1> QED BY <1>1, <1>2 DEF Steady, KeysInvariant

\* The inductive invariant of the keys, whatever requests race.
THEOREM KeysCorrect == KeysSpec => []KeysInvariant
BY KeysInitial, KeysStep, PTL DEF KeysSpec

\* No owner ever has two keys in one slot.
THEOREM SlotsStayDistinct == KeysSpec => []OneKeyPerSlot
<1>1. KeysInvariant => OneKeyPerSlot
  BY DEF KeysInvariant
<1> QED BY <1>1, KeysCorrect, PTL

-----------------------------------------------------------------------------
(***************************************************************************)
(* What is revoked stays revoked, if nobody switches a key on.             *)
(***************************************************************************)
\* No key of the hash h is on.
Dead(h) == \A k \in keys : k.hash = h => ~k.on

RevokedDead == SwitchesOff /\ \A h \in revoked : h # NoHash => Dead(h)

LEMMA DeadStays ==
    ASSUME KeysInvariant, KeyEffect, SwitchesOff, NEW h, h # NoHash, Dead(h),
           \A q \in KeyRequests : Unstored(q) => h # q
    PROVE  Dead(h)'
<1>1. CASE KeysRest
  BY <1>1 DEF KeysRest, Dead
<1>2. ASSUME NEW x, WritesBack(x) PROVE Dead(h)'
  <2>1. keys' = Replaced(keys, x) /\ ~x.on
    BY <1>2 DEF WritesBack
  <2>2. keys' \subseteq keys \cup {x}
    BY <2>1 DEF Replaced
  <2> QED BY <2>1, <2>2 DEF Dead
<1>3. ASSUME NEW q \in KeyRequests, NEW x, Stores(q, x) PROVE Dead(h)'
  <2>1. x.hash # h /\ keys' \subseteq keys \cup {x}
    BY <1>3 DEF Stores, Replaced
  <2> QED BY <2>1 DEF Dead
<1> QED BY <1>1, <1>2, <1>3 DEF KeyEffect

\* Emptying a document of a key leaves none that has its hash.
LEMMA EmptiedIsDead ==
    ASSUME KeysInvariant, NEW b \in Docs, b.hash # NoHash,
           NEW x, Variant(x, b), x.hash = NoHash, ~Refused(keys, x),
           keys' = Replaced(keys, x)
    PROVE  Dead(b.hash)'
<1> SUFFICES ASSUME NEW k \in keys', k.hash = b.hash PROVE FALSE
  BY DEF Dead
<1>1. IdsDifferIn(keys) /\ SlotsDifferIn(keys)
  BY DEF KeysInvariant, IdsDiffer, OneKeyPerSlot, IdsDifferIn, SlotsDifferIn
<1>2. k \in keys \cup {x} /\ (k.id = x.id => k = x)
  BY <1>1, ReplacedDiffer
<1>3. k # x /\ k \in Docs
  BY <1>2, DocsMembers
<1>4. k.id = x.id
  BY <1>3 DEF KeysInvariant, HashesDiffer, Variant
<1> QED BY <1>2, <1>3, <1>4

LEMMA RevokedStep ==
    ASSUME KeysInvariant, RevokedDead, [KeysNext]_allVars
    PROVE  RevokedDead'
<1>1. Steady /\ KeyEffect
  BY KeysStep
<1>2. SwitchesOff'
  <2>1. UNCHANGED ask
    BY DEF KeysNext, SomeStep, allVars, keyVars, SaveThenRevoke, RevokeFind, RevokeReplace,
       RevokeEnds, DropAllKeys, CrashRevoking, OtherStep, KeyRead, KeyFind, StoreNewKey,
       SwitchKey, DeleteKey, DeleteAllKeys, KeyRecord, KeyRecheck, KeyDeliver, KeyCrash
  <2> QED BY <2>1 DEF RevokedDead, SwitchesOff
<1>3. ASSUME NEW h \in revoked', h # NoHash PROVE Dead(h)'
  <2>1. CASE h \in revoked
    <3>1. \A q \in KeyRequests : Unstored(q) => h # q
      BY <2>1 DEF KeysInvariant, NewKeysFresh
    <3> QED BY <1>1, <1>3, <2>1, <3>1, DeadStays DEF RevokedDead
  <2>2. CASE h \notin revoked /\ AllDeleted
    BY <2>2 DEF AllDeleted, Dead
  <2>3. CASE h \notin revoked /\ ~AllDeleted
    <3>1. PICK x : WritesBack(x)
      BY <1>1, <2>3 DEF KeyEffect, KeysRest, Keeps, Stores
    <3>2. PICK b \in Docs :
             /\ Variant(x, b) /\ ~Refused(keys, x) /\ keys' = Replaced(keys, x)
             /\ x.hash = NoHash /\ revoked' = revoked \cup {b.hash}
      BY <2>3, <3>1 DEF WritesBack
    <3>3. h = b.hash
      BY <2>3, <3>2
    <3> QED BY <1>3, <3>2, <3>3, EmptiedIsDead
  <2> QED BY <2>1, <2>2, <2>3
<1> QED BY <1>2, <1>3 DEF RevokedDead

\* A key that was revoked or deleted never opens anything again, unless somebody
\* asks to switch it on.
THEOREM RevokedStaysDead == KeysSpec /\ SwitchesOff => []RevokedForever
<1>1. KeysInit /\ SwitchesOff => RevokedDead
  BY DEF KeysInit, RevokedDead
<1>2. RevokedDead => RevokedForever
  BY DEF RevokedDead, RevokedForever, Dead, Opens, KeyIsActive
<1> QED BY <1>1, <1>2, RevokedStep, KeysCorrect, PTL DEF KeysSpec

-----------------------------------------------------------------------------
(***************************************************************************)
(* What a request for a group's key knows once it has read the course      *)
(* again.                                                                  *)
(***************************************************************************)
AgreedInvariant ==
    /\ \A q \in KeyRequests : kpc[q] = "deliver" /\ ask[q].owner \in Groups => q \in agreed
    /\ GivenOnFreshPolicy

\* Only a request that has looked again, or that is about no group, hands out next.
LEMMA DeliversNext ==
    ASSUME KeysInvariant, KeysNext, NEW q \in KeyRequests, kpc[q] # "deliver",
           kpc'[q] = "deliver", ask[q].owner \in Groups
    PROVE  KeyRecheck(q) /\ KeyAllowed(q, course)
<1>1. ~UNCHANGED kpc
  OBVIOUS
<1>2. PICK p \in KeyRequests :
         \/ KeyRead(p) \/ KeyFind(p) \/ StoreNewKey(p) \/ SwitchKey(p) \/ DeleteKey(p)
         \/ DeleteAllKeys(p) \/ KeyRecord(p) \/ KeyRecheck(p) \/ KeyDeliver(p) \/ KeyCrash(p)
  BY <1>1 DEF KeysNext, SomeStep, keyVars, SaveThenRevoke, RevokeFind, RevokeReplace, RevokeEnds,
     DropAllKeys, CrashRevoking, OtherStep
<1>3. PICK place : KeyGoto(p, place)
  BY <1>2 DEF KeyRead, KeyFind, StoreNewKey, SwitchKey, DeleteKey, DeleteAllKeys, KeyRecord,
     KeyRecheck, KeyDeliver, KeyCrash, Leave
<1>4. p = q /\ place = "deliver"
  BY <1>3 DEF KeysInvariant, KeyTypes, KeyGoto
<1>5. KeyRecord(q) \/ KeyRecheck(q)
  BY <1>2, <1>3, <1>4 DEF KeysInvariant, KeyTypes, KeyRead, KeyFind, StoreNewKey, SwitchKey,
     DeleteKey, DeleteAllKeys, KeyDeliver, KeyCrash, Leave, KeyGoto
<1>6. ~KeyRecord(q)
  BY DEF KeysInvariant, KeyTypes, KeyRecord, KeyGoto
<1>7. KeyRecheck(q) => KeyAllowed(q, course)
  BY DEF KeysInvariant, KeyTypes, KeyRecheck, KeyGoto
<1> QED BY <1>5, <1>6, <1>7

LEMMA AgreedStep ==
    ASSUME KeysInvariant, AgreedInvariant, [KeysNext]_allVars
    PROVE  AgreedInvariant'
<1>1. CASE UNCHANGED allVars
  BY <1>1 DEF allVars, keyVars, AgreedInvariant, GivenOnFreshPolicy
<1>2. CASE KeysNext
  <2>1. UNCHANGED ask
    BY <1>2 DEF KeysNext, SomeStep, keyVars, SaveThenRevoke, RevokeFind, RevokeReplace,
       RevokeEnds, DropAllKeys, CrashRevoking, OtherStep, KeyRead, KeyFind, StoreNewKey,
       SwitchKey, DeleteKey, DeleteAllKeys, KeyRecord, KeyRecheck, KeyDeliver, KeyCrash
  <2>2. agreed \subseteq agreed'
    BY <1>2 DEF KeysNext, Agrees
  <2>3. ASSUME NEW q \in KeyRequests, kpc'[q] = "deliver", ask[q].owner \in Groups
        PROVE  q \in agreed'
    <3>1. CASE kpc[q] = "deliver"
      BY <2>2, <2>3, <3>1 DEF AgreedInvariant
    <3>2. CASE kpc[q] # "deliver"
      <4>1. KeyRecheck(q) /\ KeyAllowed(q, course)
        BY <1>2, <2>3, <3>2, DeliversNext
      <4>2. course' = course
        BY <4>1 DEF KeyRecheck, vars
      <4>3. Owned(q)'
        BY <2>3 DEF Owned
      <4>4. KeyAllowed(q, course')
        BY <4>1, <4>2
      <4> QED BY <1>2, <4>3, <4>4 DEF KeysNext, Agrees
    <3> QED BY <3>1, <3>2
  <2>4. ASSUME NEW q \in given', ask[q].owner \in Groups PROVE q \in agreed'
    <3>1. CASE q \in given
      BY <2>2, <2>4, <3>1 DEF AgreedInvariant, GivenOnFreshPolicy
    <3>2. CASE q \notin given
      <4>1. PICK p \in KeyRequests : KeyDeliver(p)
        BY <1>2, <2>4, <3>2 DEF KeysNext, SomeStep, keyVars, SaveThenRevoke, RevokeFind,
           RevokeReplace, RevokeEnds, DropAllKeys, CrashRevoking, OtherStep, KeyRead, KeyFind,
           StoreNewKey, SwitchKey, DeleteKey, DeleteAllKeys, KeyRecord, KeyRecheck, KeyCrash
      <4>2. q = p /\ kpc[p] = "deliver"
        BY <2>4, <3>2, <4>1 DEF KeyDeliver
      <4> QED BY <2>2, <2>4, <4>2 DEF AgreedInvariant
    <3> QED BY <3>1, <3>2
  <2> QED BY <2>1, <2>3, <2>4 DEF AgreedInvariant, GivenOnFreshPolicy
<1> QED BY <1>1, <1>2

\* Whoever gets a group's key was entitled to it at some moment after it had been
\* stored, whatever became of the group, of the limits and of the staff while it was
\* made.
THEOREM KeysGivenOnFreshPolicy == KeysSpec => []GivenOnFreshPolicy
<1>1. KeysInit => AgreedInvariant
  BY DEF KeysInit, AgreedInvariant, GivenOnFreshPolicy
<1>2. AgreedInvariant => GivenOnFreshPolicy
  BY DEF AgreedInvariant
<1> QED BY <1>1, <1>2, AgreedStep, KeysCorrect, PTL DEF KeysSpec

-----------------------------------------------------------------------------
(***************************************************************************)
(* A step of CourseKeys is one of CourseWrites, or writes an event of a    *)
(* request for keys to the log: the invariants of the course hold here too.*)
(***************************************************************************)
CourseRequest(r) ==
    \/ SaveThenRevoke(r) \/ RevokeFind(r) \/ RevokeReplace(r) \/ RevokeEnds(r)
    \/ DropAllKeys(r) \/ CrashRevoking(r) \/ OtherStep(r)

LEMMA CourseRequestSteps ==
    ASSUME NEW r \in Requests, CourseRequest(r)
    PROVE  Request(r) \/ Flush(r) \/ UNCHANGED vars
BY DEF CourseRequest, SaveThenRevoke, RevokeFind, RevokeReplace, RevokeEnds, DropAllKeys,
   CrashRevoking, OtherStep, Request

LEMMA KeyRequestSteps ==
    ASSUME NEW q \in KeyRequests,
           \/ KeyRead(q) \/ KeyFind(q) \/ StoreNewKey(q) \/ SwitchKey(q) \/ DeleteKey(q)
           \/ DeleteAllKeys(q) \/ KeyRecord(q) \/ KeyRecheck(q) \/ KeyDeliver(q) \/ KeyCrash(q)
    PROVE  UNCHANGED vars \/ KeyRecord(q)
BY DEF KeyRead, KeyFind, StoreNewKey, SwitchKey, DeleteKey, DeleteAllKeys, KeyRecheck, KeyDeliver,
   KeyCrash

LEMMA StepsOfTheCourse ==
    ASSUME [KeysNext]_allVars
    PROVE  [Next]_vars \/ \E q \in KeyRequests : KeyRecord(q)
<1>1. ASSUME NEW r \in Requests, CourseRequest(r) PROVE [Next]_vars
  <2>1. r \in Processes
    BY DEF Processes
  <2> QED BY <1>1, <2>1, CourseRequestSteps DEF Next
<1>2. ASSUME NEW a \in Auditors, Audit(a) \/ Flush(a) PROVE Next
  <2>1. a \in Processes
    BY DEF Processes
  <2> QED BY <1>2, <2>1 DEF Next
<1>3. UNCHANGED allVars => UNCHANGED vars
  BY DEF allVars
<1> QED BY <1>1, <1>2, <1>3, KeyRequestSteps DEF KeysNext, SomeStep, CourseRequest

LEMMA RecordKeepsCourse ==
    ASSUME Inductive, OutboxInvariant, NEW q \in KeyRequests, KeyRecord(q)
    PROVE  Inductive' /\ OutboxInvariant' /\ Notes
<1>1. UNCHANGED <<course, edit, pc, seen, flush>> /\ history' = Append(history, <<q, 0>>)
  BY DEF KeyRecord, LateEvent
<1>2. Inductive'
  <2>1. StoredSound'
    BY <1>1, StaysSound DEF Inductive
  <2>2. \A r \in Requests : pc[r] = "save" => MaySave(r, seen[r])'
    BY <1>1 DEF Inductive, MaySave, Update, NewEvents
  <2> QED BY <1>1, <2>1, <2>2 DEF Inductive, MayReread
<1>3. Notes
  BY <1>1 DEF Notes
<1>4. /\ \E S : history' \in Seq(S)
      /\ \A x : Contains(history', x) <=> Contains(history, x) \/ x = <<q, 0>>
      /\ \A k : CopiedUpTo(history, Pending, k) => CopiedUpTo(history', Pending', k)
  BY <1>1, NotedAside
<1>5. Pending' = Pending /\ Len(Pending) \in Nat
  BY <1>1, PendingStays DEF OutboxInvariant, EventsTyped
<1>6. EventsTyped' /\ EventsDistinct' /\ EventsInOrder'
  BY <1>4, <1>5 DEF OutboxInvariant, EventsTyped, EventsDistinct, EventsInOrder
<1>7. EventsFresh'
  BY <1>1, <1>4, <1>5 DEF OutboxInvariant, EventsFresh, Unsaved
<1>8. BatchesFit'
  <2> SUFFICES ASSUME NEW p \in Processes, pc'[p] \in {"copy", "clear"} PROVE BatchFits(p)'
    BY DEF BatchesFit
  <2>1. pc'[p] = pc[p] /\ flush'[p] = flush[p] /\ flush[p] \in Calls /\ BatchFits(p)
    BY <1>1 DEF Inductive, OutboxInvariant, BatchesFit
  <2> QED BY <1>4, <1>5, <2>1, SameBatch
<1> QED BY <1>2, <1>3, <1>6, <1>7, <1>8 DEF OutboxInvariant

LEMMA CourseStaysSound ==
    ASSUME Inductive, OutboxInvariant, [KeysNext]_allVars
    PROVE  Inductive' /\ OutboxInvariant'
<1>1. CASE [Next]_vars
  <2>1. OutboxInvariant'
    BY <1>1, NextStep, StepKeepsOutbox, OutboxUnchanged
  <2> QED BY <1>1, <2>1, NextInductive
<1> QED BY <1>1, StepsOfTheCourse, RecordKeepsCourse

LEMMA CourseHolds == KeysSpec => [](Inductive /\ OutboxInvariant)
<1>1. KeysInit => Inductive /\ OutboxInvariant
  BY InitInductive, InitOutbox DEF KeysInit
<1> QED BY <1>1, CourseStaysSound, PTL DEF KeysSpec

\* The audit log keeps its promise with the requests for keys in it, whose events
\* are written without the outbox.
THEOREM KeysKeepLog == KeysSpec => ImplementsAuditLog
<1>1. KeysInit => Log!Init
  <2> SUFFICES ASSUME KeysInit PROVE Log!Init
    OBVIOUS
  <2>1. history = <<>> /\ Pending = <<>>
    BY FirstOutboxAssumption DEF KeysInit, Init, Pending
  <2>2. Undelivered = <<>>
    BY <2>1, NothingDue, UndeliveredIsDue
  <2> QED BY <2>1, <2>2 DEF Log!Init
<1>2. Inductive /\ OutboxInvariant /\ [KeysNext]_allVars => [Log!Next]_Log!logVars
  <2> SUFFICES ASSUME Inductive, OutboxInvariant, [KeysNext]_allVars
               PROVE  [Log!Next]_Log!logVars
    OBVIOUS
  <2>1. CASE Next
    BY <2>1, NextStep, StepIsLogged
  <2>2. CASE UNCHANGED vars
    BY <2>2 DEF vars, Log!logVars, Undelivered
  <2>3. ASSUME NEW q \in KeyRequests, KeyRecord(q) PROVE [Log!Next]_Log!logVars
    BY <2>3, RecordKeepsCourse, NoteIsLogged
  <2> QED BY <2>1, <2>2, <2>3, StepsOfTheCourse
<1> QED BY <1>1, <1>2, CourseHolds, PTL DEF KeysSpec, ImplementsAuditLog, Log!Spec

-----------------------------------------------------------------------------
(***************************************************************************)
(* A removal that has answered has made the keys dead that its edit left   *)
(* it to revoke: from its save on it knows whose keys these are, or which  *)
(* documents.                                                              *)
(***************************************************************************)
Removal(r) == edit[r].kind \in Removals
RemovalPlaces == {"idle", "save", "revoke", "record", "done"}

Late(r) == Contains(history, LateEvent(r))

\* r will come to the key of the hash h.
Marked(r, h) ==
    \A k \in keys : k.hash = h =>
        k.owner \in revoking[r].owners \/ \E d \in revoking[r].docs : d.hash = h

Progress(r, h) == Dead(h) \/ (pc[r] = "revoke" /\ Marked(r, h))

\* A hash that r owes belongs to a key that has been stored.
OwedInvariant ==
    /\ SwitchesOff
    /\ owed = [r \in Requests |-> owed[r]]
    /\ \A r \in Requests : Removal(r) =>
          /\ pc[r] \in RemovalPlaces
          /\ pc[r] \in {"idle", "save", "revoke"} => ~Late(r)
          /\ \A h \in owed[r] : h # NoHash =>
                /\ \A q \in KeyRequests : Unstored(q) => h # q
                /\ Progress(r, h)

-----------------------------------------------------------------------------
(***************************************************************************)
(* What a step does to the course, the places and the log.                 *)
(***************************************************************************)
LEMMA AsksStay ==
    ASSUME [KeysNext]_allVars
    PROVE  UNCHANGED <<edit, ask>>
<1>1. CASE UNCHANGED allVars
  BY <1>1 DEF allVars, vars, keyVars
<1>2. UNCHANGED edit
  <2>1. [Next]_vars => UNCHANGED edit
    BY DEF Next, vars, Request, Read, ReadAgain, Decide, Save, Revoke, Record, ReadToDelete,
       Recheck, Drop, DropKeys, Crash, Audit, Flush, FlushRead, Copy, Clear, FlushFails
  <2> QED BY <2>1, StepsOfTheCourse DEF KeyRecord
<1>3. CASE KeysNext
  <2>1. UNCHANGED ask
    BY <1>3 DEF KeysNext, SomeStep, keyVars, SaveThenRevoke, RevokeFind, RevokeReplace,
       RevokeEnds, DropAllKeys, CrashRevoking, OtherStep, KeyRead, KeyFind, StoreNewKey,
       SwitchKey, DeleteKey, DeleteAllKeys, KeyRecord, KeyRecheck, KeyDeliver, KeyCrash
  <2> QED BY <1>2, <2>1
<1> QED BY <1>1, <1>3

\* A process moves only itself.
LEMMA MovesItself ==
    ASSUME NEW p, Request(p) \/ Flush(p) \/ Audit(p)
    PROVE  \E place : pc' = [pc EXCEPT ![p] = place]
<1>1. CASE Flush(p)
  BY <1>1 DEF Flush, FlushRead, Copy, Copied, Clear, FlushFails, Return, Goto
<1>2. CASE Audit(p)
  BY <1>2 DEF Audit, CallFlush, Goto
<1>3. CASE Request(p)
  BY <1>3 DEF Request, Read, ReadAgain, Decide, Save, Revoke, Record, ReadToDelete, Recheck,
     Drop, DropKeys, Crash, CallFlush, Goto
<1> QED BY <1>1, <1>2, <1>3

Still(r) == pc'[r] = pc[r] /\ revoking'[r] = revoking[r] /\ owed'[r] = owed[r]

\* What a course request does that takes a member out.
LEMMA RemovalPath ==
    ASSUME Inductive, KeyTypes, owed = [p \in Requests |-> owed[p]], [KeysNext]_allVars,
           NEW r \in Requests, Removal(r), pc[r] \in RemovalPlaces
    PROVE  \/ Still(r)
           \/ Read(r) /\ UNCHANGED keyVars
           \/ SaveThenRevoke(r) \/ RevokeFind(r) \/ RevokeReplace(r) \/ RevokeEnds(r)
           \/ CrashRevoking(r)
           \/ Record(r) /\ UNCHANGED keyVars
<1>1. CASE UNCHANGED allVars
  BY <1>1 DEF allVars, vars, keyVars, Still
<1>2. ASSUME NEW q \in Requests, CourseRequest(q), q # r
      PROVE  Still(r)
  <2>1. pc'[r] = pc[r]
    <3>1. pc' = pc \/ \E place : pc' = [pc EXCEPT ![q] = place]
      BY <1>2, CourseRequestSteps, MovesItself DEF vars
    <3> QED BY <1>2, <3>1 DEF Inductive, Processes
  <2>2. revoking' = revoking \/ \E new : revoking' = [revoking EXCEPT ![q] = new]
    <3>1. CASE SaveThenRevoke(q)
      BY <3>1 DEF SaveThenRevoke
    <3>2. CASE RevokeFind(q)
      BY <3>2 DEF RevokeFind
    <3>3. CASE RevokeReplace(q)
      <4>1. PICK d \in revoking[q].docs : revoking' = [revoking EXCEPT ![q].docs = @ \ {d}]
        BY <3>3 DEF RevokeReplace
      <4>2. revoking' = [revoking EXCEPT ![q] = [revoking[q] EXCEPT !.docs = @ \ {d}]]
        BY <4>1 DEF KeyTypes
      <4> QED BY <4>2
    <3>4. CASE RevokeEnds(q) \/ CrashRevoking(q)
      BY <3>4 DEF RevokeEnds, CrashRevoking
    <3>5. CASE DropAllKeys(q) \/ OtherStep(q)
      BY <3>5 DEF DropAllKeys, OtherStep, keyVars
    <3> QED BY <1>2, <3>1, <3>2, <3>3, <3>4, <3>5 DEF CourseRequest
  <2>3. owed' = owed \/ \E new : owed' = [owed EXCEPT ![q] = new]
    BY <1>2 DEF CourseRequest, SaveThenRevoke, RevokeFind, RevokeReplace, RevokeEnds, DropAllKeys,
       CrashRevoking, OtherStep, keyVars
  <2> QED BY <1>2, <2>1, <2>2, <2>3 DEF KeyTypes, Still
<1>3. CASE CourseRequest(r)
  <2>1. ~DropAllKeys(r)
    BY DEF DropAllKeys, DropKeys, RemovalPlaces
  <2>2. ~(ReadAgain(r) \/ ReadToDelete(r) \/ Recheck(r) \/ Drop(r) \/ Flush(r))
    <3>1. ~ReadAgain(r) /\ ~Recheck(r) /\ ~Drop(r)
      BY DEF ReadAgain, Recheck, Drop, RemovalPlaces
    <3>2. ~Flush(r)
      BY DEF Flush, FlushRead, Copy, Clear, FlushFails, RemovalPlaces
    <3>3. ~ReadToDelete(r)
      BY DEF ReadToDelete, Removal, Removals, Deletion
    <3> QED BY <3>1, <3>2, <3>3
  <2> QED BY <1>3, <2>1, <2>2 DEF CourseRequest, OtherStep
<1>4. ASSUME NEW a \in Auditors, Audit(a) \/ Flush(a), UNCHANGED keyVars
      PROVE  Still(r)
  <2>1. a # r
    BY ProcessesAssumption
  <2>2. \E place : pc' = [pc EXCEPT ![a] = place]
    BY <1>4, MovesItself
  <2> QED BY <1>4, <2>1, <2>2 DEF Inductive, Processes, keyVars, Still
<1>5. ASSUME NEW q \in KeyRequests,
             \/ KeyRead(q) \/ KeyFind(q) \/ StoreNewKey(q) \/ SwitchKey(q) \/ DeleteKey(q)
             \/ DeleteAllKeys(q) \/ KeyRecord(q) \/ KeyRecheck(q) \/ KeyDeliver(q) \/ KeyCrash(q)
      PROVE  Still(r)
  <2>1. UNCHANGED <<revoking, owed>>
    BY <1>5 DEF KeyRead, KeyFind, StoreNewKey, SwitchKey, DeleteKey, DeleteAllKeys, KeyRecord,
       KeyRecheck, KeyDeliver, KeyCrash
  <2>2. UNCHANGED pc
    BY <1>5, KeyRequestSteps DEF vars, KeyRecord
  <2> QED BY <2>1, <2>2 DEF Still
<1> QED BY <1>1, <1>2, <1>3, <1>4, <1>5 DEF KeysNext, SomeStep, CourseRequest

\* The event of a removal enters the log when the removal records it.
LEMMA RecordedByItself ==
    ASSUME Inductive, OutboxInvariant, [KeysNext]_allVars, NEW r \in Requests, ~Late(r), Late(r)'
    PROVE  pc[r] = "record"
<1>1. ASSUME NEW q, history' = Append(history, <<q, 0>>) PROVE q = r
  <2>1. \A x : Contains(history', x) <=> Contains(history, x) \/ x = <<q, 0>>
    BY <1>1, ContainsAppended DEF OutboxInvariant, EventsTyped
  <2>2. <<r, 0>> = <<q, 0>>
    BY <2>1 DEF Late, LateEvent
  <2> QED BY <2>2
<1>2. ~UNCHANGED history
  BY DEF Late, LateEvent
<1>3. ASSUME NEW p \in Processes, Flush(p) PROVE FALSE
  <2>1. pc[p] = "copy" /\ Insert(NextEvent(p)) /\ UNCHANGED course
    BY <1>2, <1>3 DEF Flush, FlushRead, Copy, Clear, FlushFails
  <2>2. Rests \/ Delivers
    BY <2>1, InsertDelivers DEF Inductive
  <2>3. PICK j \in 1..Len(Pending) : history' = Append(history, Pending[j])
    BY <1>2, <2>2 DEF Rests, Delivers
  <2>4. Pending[j] \in Staging
    BY DEF OutboxInvariant, EventsTyped
  <2>5. \A x : Contains(history', x) <=> Contains(history, x) \/ x = Pending[j]
    BY <2>3, ContainsAppended DEF OutboxInvariant, EventsTyped
  <2>6. <<r, 0>> = Pending[j]
    BY <2>5 DEF Late, LateEvent
  <2> QED BY <2>4, <2>6 DEF Staging
<1>4. ASSUME NEW q \in Requests, Request(q) PROVE pc[r] = "record"
  <2>1. Record(q)
    BY <1>2, <1>4 DEF Request, Read, ReadAgain, Save, Revoke, ReadToDelete, Recheck, Drop,
       DropKeys, Crash
  <2> QED BY <1>1, <2>1 DEF Record, LateEvent
<1>5. \A a \in Auditors : ~Audit(a)
  BY <1>2 DEF Audit
<1>6. ASSUME NEW q \in KeyRequests, KeyRecord(q) PROVE FALSE
  <2>1. q = r
    BY <1>1, <1>6 DEF KeyRecord, LateEvent
  <2> QED BY <2>1, KeyRequestsAssumption DEF Processes
<1> QED BY <1>2, <1>3, <1>4, <1>5, <1>6, StepsOfTheCourse DEF Next, vars

-----------------------------------------------------------------------------
(***************************************************************************)
(* The groups and students that a save takes something from are those      *)
(* whose keys the removal revokes, though it looked them up on the copy    *)
(* that it had read.                                                       *)
(***************************************************************************)
LEMMA LosersOfEdit ==
    ASSUME NEW c, IsCourse(c), NEW e, NEW after,
           after.groups = Edited(c, e).groups, after.roster = Edited(c, e).roster,
           NEW x \in Losers(c, after)
    PROVE  /\ e.kind = "unenrol" =>
                  x \in e.who \/ (x \in DOMAIN c.groups /\ e.who \cap c.groups[x].members # {})
           /\ e.kind = "leaveGroup" => x = e.group /\ e.who \cap c.groups[x].members # {}
<1>1. /\ c = [f \in Fields |-> c[f]] /\ c.groups = [h \in DOMAIN c.groups |-> c.groups[h]]
      /\ \A h \in DOMAIN c.groups : c.groups[h] \in Group
  BY DEF IsCourse
<1>2. CASE e.kind = "unenrol"
  <2> DEFINE groups == [g \in DOMAIN c.groups |-> [c.groups[g] EXCEPT !.members = @ \ e.who]]
             roster == [s \in DOMAIN c.roster \ e.who |-> c.roster[s]]
  <2>1. after.groups = groups /\ after.roster = roster
    BY <1>1, <1>2 DEF Edited, Unenrolled, Fields
  <2>2. DOMAIN groups = DOMAIN c.groups /\ DOMAIN roster = DOMAIN c.roster \ e.who
    OBVIOUS
  <2>3. \A g \in DOMAIN c.groups : groups[g].members = c.groups[g].members \ e.who
    BY <1>1 DEF Group
  <2> HIDE DEF groups, roster
  <2>4. \/ x \in DOMAIN c.roster \ DOMAIN roster
        \/ x \in DOMAIN c.groups /\ c.groups[x].members \ groups[x].members # {}
    BY <2>1, <2>2 DEF Losers, HasGroup
  <2> QED BY <1>2, <2>2, <2>3, <2>4
<1>3. CASE e.kind = "leaveGroup"
  <2> DEFINE groups == [c.groups EXCEPT ![e.group] =
                          [c.groups[e.group] EXCEPT !.members = @ \ e.who]]
  <2>1. after.groups = groups /\ after.roster = c.roster
    BY <1>1, <1>3 DEF Edited, Fields
  <2>2. DOMAIN groups = DOMAIN c.groups
    BY <1>1
  <2>3. \A g \in DOMAIN c.groups :
           groups[g].members = IF g = e.group THEN c.groups[g].members \ e.who
                                              ELSE c.groups[g].members
    BY <1>1 DEF Group
  <2> HIDE DEF groups
  <2>4. x \in DOMAIN c.groups /\ c.groups[x].members \ groups[x].members # {}
    BY <2>1, <2>2 DEF Losers, HasGroup
  <2> QED BY <1>3, <2>3, <2>4
<1> QED BY <1>2, <1>3

LEMMA LosersRevoked ==
    ASSUME Inductive, NEW r \in Requests, Removal(r), Save(r), course' # course,
           NEW x \in Losers(course, course')
    PROVE  pc'[r] = "revoke" /\ x \in RevokedOwners(r)
<1>1. r \in Processes /\ ~Staged(edit[r])
  BY DEF Processes, Removal, Removals, Staged
<1>2. /\ Matches(course, seen[r], Update(r, seen[r])) /\ pc[r] = "save"
      /\ course' = Written(course, seen[r], Update(r, seen[r]))
      /\ Goto(r, AfterSave(r))
  BY <1>1 DEF Save
<1>3. IsCourse(seen[r]) /\ EditOf(r) /\ Allowed(seen[r], edit[r])
  BY <1>2 DEF Inductive, MaySave, EditOf
<1>4. course # NoCourse /\ IsCourse(course)
  BY <1>2 DEF Inductive, StoredSound, SoundCourse, Matches
<1>5. course' = Update(r, course)
  BY <1>2, <1>3, <1>4, SaveIsAtomic
<1>6. course'.groups = Edited(course, edit[r]).groups
      /\ course'.roster = Edited(course, edit[r]).roster
  <2>1. \A f \in Fields \ {"pending"} : Update(r, course)[f] = Edited(course, edit[r])[f]
    BY <1>3, <1>4, UpdateFields
  <2>2. {"groups", "roster"} \subseteq Fields \ {"pending"}
    BY DEF Fields
  <2> QED BY <1>5, <2>1, <2>2
<1>7. seen[r].groups = course.groups
  BY <1>2 DEF Matches, Guarded
<1>8. AfterSave(r) = "revoke" /\ x \in RevokedOwners(r)
  <2>1. CASE edit[r].kind = "unenrol"
    <3>1. \/ x \in edit[r].who
          \/ x \in DOMAIN course.groups /\ edit[r].who \cap course.groups[x].members # {}
      BY <1>4, <1>6, <2>1, LosersOfEdit
    <3> QED BY <1>7, <2>1, <3>1 DEF AfterSave, RevokedOwners
  <2>2. CASE edit[r].kind = "leaveGroup"
    <3>1. x = edit[r].group /\ edit[r].who \cap course.groups[x].members # {}
      BY <1>4, <1>6, <2>2, LosersOfEdit
    <3> QED BY <1>7, <2>2, <3>1 DEF AfterSave, RevokedOwners
  <2> QED BY <2>1, <2>2 DEF Removal, Removals
<1> QED BY <1>1, <1>2, <1>8 DEF Goto, Inductive

\* What a removal owes after its save: it will come to all of it.
LEMMA SaveOwes ==
    ASSUME Inductive, KeysInvariant, OwedInvariant, NEW r \in Requests, Removal(r),
           SaveThenRevoke(r), course' # course, NEW h \in owed'[r], h # NoHash
    PROVE  Progress(r, h)' /\ \A q \in KeyRequests : Unstored(q) => h # q
<1>1. Save(r) /\ UNCHANGED keys
  BY DEF SaveThenRevoke
<1>2. PICK k \in keys : k.owner \in Losers(course, course') /\ h = k.hash
  BY DEF SaveThenRevoke, OwedInvariant, Removal
<1>3. pc'[r] = "revoke" /\ k.owner \in RevokedOwners(r)
  BY <1>1, <1>2, LosersRevoked
<1>4. revoking'[r].owners = RevokedOwners(r)
  BY <1>3 DEF SaveThenRevoke, KeysInvariant, KeyTypes
<1>5. \A l \in keys : l.hash = h => l.owner = k.owner
  BY <1>2, DocsMembers DEF KeysInvariant, HashesDiffer
<1>6. Marked(r, h)'
  BY <1>1, <1>3, <1>4, <1>5 DEF Marked
<1>7. \A q \in KeyRequests : Unstored(q) => h # q
  BY <1>2, DocsMembers DEF KeysInvariant, NewKeysFresh
<1> QED BY <1>3, <1>6, <1>7 DEF Progress

\* A key that appears with a hash that is not dead has the owner of one that was there.
LEMMA OwnerStays ==
    ASSUME KeysInvariant, KeyEffect, NEW h, h # NoHash, ~Dead(h),
           \A q \in KeyRequests : Unstored(q) => h # q,
           NEW k \in keys', k.hash = h
    PROVE  \E l \in keys : l.hash = h /\ l.owner = k.owner
<1>1. CASE KeysRest
  BY <1>1 DEF KeysRest
<1>2. ASSUME NEW x, WritesBack(x) PROVE \E l \in keys : l.hash = h /\ l.owner = k.owner
  <2>1. PICK b \in Docs : Variant(x, b) /\ keys' = Replaced(keys, x)
    BY <1>2 DEF WritesBack
  <2>2. PICK l \in keys : l.hash = h
    BY DEF Dead
  <2>3. CASE k = x
    <3>1. b.hash = h /\ b.owner = k.owner
      BY <2>1, <2>3 DEF Variant
    <3> QED BY <2>2, <3>1, DocsMembers DEF KeysInvariant, HashesDiffer
  <2>4. CASE k \in keys
    BY <2>4
  <2> QED BY <2>1, <2>3, <2>4 DEF Replaced
<1>3. ASSUME NEW q \in KeyRequests, NEW x, Stores(q, x)
      PROVE  \E l \in keys : l.hash = h /\ l.owner = k.owner
  <2>1. x.hash # h /\ keys' \subseteq keys \cup {x}
    BY <1>3 DEF Stores, Replaced
  <2> QED BY <2>1
<1> QED BY <1>1, <1>2, <1>3 DEF KeyEffect

LEMMA RestMarks ==
    ASSUME KeysInvariant, KeyEffect, NEW r \in Requests, UNCHANGED <<revoking[r]>>,
           NEW h, h # NoHash, ~Dead(h), \A q \in KeyRequests : Unstored(q) => h # q,
           Marked(r, h)
    PROVE  Marked(r, h)'
<1> SUFFICES ASSUME NEW k \in keys', k.hash = h
             PROVE  k.owner \in revoking[r].owners \/ \E d \in revoking[r].docs : d.hash = h
  BY DEF Marked
<1>1. PICK l \in keys : l.hash = h /\ l.owner = k.owner
  BY OwnerStays
<1> QED BY <1>1 DEF Marked

\* The documents of the key are among those that the removal finds.
LEMMA FindMarks ==
    ASSUME KeysInvariant, NEW r \in Requests, RevokeFind(r), NEW h, h # NoHash, Marked(r, h)
    PROVE  Marked(r, h)'
<1>1. PICK owner \in revoking[r].owners :
         revoking' = [revoking EXCEPT ![r] =
           [owners |-> @.owners \ {owner},
            docs |-> {l \in keys : l.owner = owner /\ (l.hash # NoHash \/ ~l.deleted)}]]
  BY DEF RevokeFind
<1>2. /\ revoking'[r].owners = revoking[r].owners \ {owner}
      /\ revoking'[r].docs = {l \in keys : l.owner = owner /\ (l.hash # NoHash \/ ~l.deleted)}
  BY <1>1 DEF KeysInvariant, KeyTypes
<1>3. UNCHANGED keys /\ revoking[r].docs = {}
  BY DEF RevokeFind
<1>4. ASSUME NEW k \in keys, k.hash = h
      PROVE  k.owner \in revoking'[r].owners \/ \E d \in revoking'[r].docs : d.hash = h
  <2>1. k.owner \in revoking[r].owners
    BY <1>3, <1>4 DEF Marked
  <2> QED BY <1>2, <1>4, <2>1
<1> QED BY <1>3, <1>4 DEF Marked

LEMMA ReplaceMarks ==
    ASSUME KeysInvariant, KeyEffect, NEW r \in Requests, RevokeReplace(r),
           NEW h, h # NoHash, ~Dead(h), \A q \in KeyRequests : Unstored(q) => h # q,
           Marked(r, h)
    PROVE  Marked(r, h)' \/ Dead(h)'
<1>1. PICK d \in revoking[r].docs :
         /\ ~Refused(keys, Emptied(d))
         /\ keys' = Replaced(keys, Emptied(d))
         /\ revoking' = [revoking EXCEPT ![r].docs = @ \ {d}]
  BY DEF RevokeReplace
<1>2. d \in Docs /\ IsKey(d)
  BY <1>1, DocsMembers DEF KeysInvariant, DocsAreKeys
<1>3. CASE d.hash = h
  <2>1. Variant(Emptied(d), d) /\ Emptied(d).hash = NoHash
    BY <1>2, EmptiedVariant
  <2> QED BY <1>1, <1>2, <1>3, <2>1, EmptiedIsDead
<1>4. CASE d.hash # h
  <2>1. revoking'[r].docs = revoking[r].docs \ {d} /\ revoking'[r].owners = revoking[r].owners
    BY <1>1 DEF KeysInvariant, KeyTypes
  <2>2. ASSUME NEW k \in keys', k.hash = h
        PROVE  k.owner \in revoking'[r].owners \/ \E e \in revoking'[r].docs : e.hash = h
    <3>1. PICK l \in keys : l.hash = h /\ l.owner = k.owner
      BY <2>2, OwnerStays
    <3> QED BY <1>4, <2>1, <3>1 DEF Marked
  <2> QED BY <2>2 DEF Marked
<1> QED BY <1>3, <1>4

LEMMA ProgressStep ==
    ASSUME Inductive, OutboxInvariant, KeysInvariant, OwedInvariant, [KeysNext]_allVars,
           NEW r \in Requests, Removal(r), NEW h \in owed'[r], h # NoHash
    PROVE  Progress(r, h)' /\ \A q \in KeyRequests : Unstored(q)' => h # q
<1>1. Steady /\ KeyEffect
  BY KeysStep
<1>2. \A q \in KeyRequests : Unstored(q)' => Unstored(q)
  BY <1>1 DEF Steady
<1>3. CASE SaveThenRevoke(r) /\ course' # course
  BY <1>2, <1>3, SaveOwes
<1>4. CASE CrashRevoking(r)
  BY <1>4 DEF CrashRevoking, OwedInvariant
<1>5. CASE ~CrashRevoking(r) /\ ~(SaveThenRevoke(r) /\ course' # course)
  <2>1. Removal(r) /\ pc[r] \in RemovalPlaces /\ KeyTypes /\ owed = [p \in Requests |-> owed[p]]
    BY DEF OwedInvariant, KeysInvariant
  <2>2. \/ Still(r)
        \/ Read(r) /\ UNCHANGED keyVars
        \/ SaveThenRevoke(r) \/ RevokeFind(r) \/ RevokeReplace(r) \/ RevokeEnds(r)
        \/ Record(r) /\ UNCHANGED keyVars
    BY <1>5, <2>1, RemovalPath
  <2>3. owed'[r] = owed[r]
    BY <1>5, <2>1, <2>2 DEF Still, keyVars, SaveThenRevoke, RevokeFind, RevokeReplace, RevokeEnds
  <2>4. Progress(r, h) /\ \A q \in KeyRequests : Unstored(q) => h # q
    BY <2>3 DEF OwedInvariant
  <2>5. CASE Dead(h)
    <3>1. Dead(h)'
      BY <1>1, <2>4, <2>5, DeadStays DEF OwedInvariant
    <3> QED BY <1>2, <2>4, <3>1 DEF Progress
  <2>6. CASE ~Dead(h)
    <3>1. pc[r] = "revoke" /\ Marked(r, h)
      BY <2>4, <2>6 DEF Progress
    <3>2. CASE Still(r)
      <4>1. Marked(r, h)'
        BY <1>1, <2>4, <2>6, <3>1, <3>2, RestMarks DEF Still
      <4> QED BY <1>2, <2>4, <3>1, <3>2, <4>1 DEF Still, Progress
    <3>3. CASE RevokeFind(r) \/ RevokeReplace(r)
      <4>1. pc'[r] = "revoke"
        BY <3>1, <3>3 DEF RevokeFind, RevokeReplace, vars
      <4>2. Marked(r, h)' \/ Dead(h)'
        BY <1>1, <2>4, <2>6, <3>1, <3>3, FindMarks, ReplaceMarks
      <4> QED BY <1>2, <2>4, <4>1, <4>2 DEF Progress
    <3>4. ~RevokeEnds(r)
      <4>1. RevokeEnds(r) => revoking[r] = Nothing
        BY DEF RevokeEnds, Removal, Removals
      <4>2. revoking[r] # Nothing
        BY <2>6, <3>1 DEF Marked, Nothing, Dead
      <4> QED BY <4>1, <4>2
    <3>5. ~Read(r) /\ ~SaveThenRevoke(r) /\ ~Record(r)
      BY <3>1 DEF Read, SaveThenRevoke, Save, Record
    <3> QED BY <2>2, <3>2, <3>3, <3>4, <3>5
  <2> QED BY <2>5, <2>6
<1> QED BY <1>3, <1>4, <1>5

\* A removal goes on, and its event enters the log at its end.
LEMMA RemovalPlacesStay ==
    ASSUME Inductive, OutboxInvariant, KeysInvariant, OwedInvariant, [KeysNext]_allVars,
           NEW r \in Requests, Removal(r)
    PROVE  pc'[r] \in RemovalPlaces /\ (pc'[r] \in {"idle", "save", "revoke"} => ~Late(r)')
<1>1. r \in Processes /\ ~Staged(edit[r]) /\ edit[r].kind # "join"
  BY DEF Processes, Removal, Removals, Staged
<1>2. pc[r] \in RemovalPlaces /\ (pc[r] \in {"idle", "save", "revoke"} => ~Late(r))
  BY DEF OwedInvariant
<1>3. pc[r] \in {"idle", "save", "revoke"} => ~Late(r)'
  BY <1>2, RecordedByItself
<1>4. CASE pc'[r] = pc[r]
  BY <1>2, <1>3, <1>4
<1>5. CASE Read(r)
  <2>1. (Goto(r, "save") \/ Goto(r, "done")) /\ pc[r] = "idle"
    BY <1>1, <1>5 DEF Read, Decide
  <2> QED BY <1>1, <1>3, <2>1 DEF Goto, Inductive, RemovalPlaces
<1>6. CASE SaveThenRevoke(r)
  <2>1. (Goto(r, AfterSave(r)) \/ Goto(r, "done")) /\ pc[r] = "save"
    BY <1>1, <1>6 DEF SaveThenRevoke, Save
  <2>2. AfterSave(r) \in {"revoke", "record"}
    BY DEF AfterSave, Removal, Removals
  <2> QED BY <1>1, <1>3, <2>1, <2>2 DEF Goto, Inductive, RemovalPlaces
<1>7. CASE RevokeFind(r) \/ RevokeReplace(r)
  BY <1>4, <1>7 DEF RevokeFind, RevokeReplace, vars
<1>8. CASE RevokeEnds(r)
  <2>1. Goto(r, "record")
    BY <1>1, <1>8 DEF RevokeEnds, Revoke
  <2> QED BY <1>1, <2>1 DEF Goto, Inductive, RemovalPlaces
<1>9. CASE CrashRevoking(r) \/ Record(r)
  <2>1. Goto(r, "done")
    BY <1>9 DEF CrashRevoking, Crash, Record
  <2> QED BY <1>1, <2>1 DEF Goto, Inductive, RemovalPlaces
<1> QED BY <1>2, <1>4, <1>5, <1>6, <1>7, <1>8, <1>9, RemovalPath DEF KeysInvariant, OwedInvariant, Still

LEMMA OwedStep ==
    ASSUME Inductive, OutboxInvariant, KeysInvariant, OwedInvariant, [KeysNext]_allVars
    PROVE  OwedInvariant'
<1>1. UNCHANGED <<edit, ask>>
  BY AsksStay
<1>2. SwitchesOff'
  BY <1>1 DEF OwedInvariant, SwitchesOff
<1>3. owed' = [r \in Requests |-> owed'[r]]
  <2>1. UNCHANGED owed \/ \E q \in Requests : \E new : owed' = [owed EXCEPT ![q] = new]
    BY DEF KeysNext, SomeStep, allVars, keyVars, SaveThenRevoke, RevokeFind, RevokeReplace,
       RevokeEnds, DropAllKeys, CrashRevoking, OtherStep, KeyRead, KeyFind, StoreNewKey,
       SwitchKey, DeleteKey, DeleteAllKeys, KeyRecord, KeyRecheck, KeyDeliver, KeyCrash
  <2> QED BY <2>1 DEF OwedInvariant
<1>4. ASSUME NEW r \in Requests, Removal(r)'
      PROVE  /\ pc'[r] \in RemovalPlaces
             /\ pc'[r] \in {"idle", "save", "revoke"} => ~Late(r)'
             /\ \A h \in owed'[r] : h # NoHash =>
                   /\ \A q \in KeyRequests : Unstored(q)' => h # q
                   /\ Progress(r, h)'
  <2>1. Removal(r)
    BY <1>1, <1>4 DEF Removal
  <2> QED BY <2>1, RemovalPlacesStay, ProgressStep
<1> QED BY <1>2, <1>3, <1>4 DEF OwedInvariant

LEMMA OwedInitial ==
    ASSUME KeysInit, SwitchesOff
    PROVE  OwedInvariant
<1>1. history = <<>> /\ pc = [p \in Processes |-> "idle"] /\ owed = [r \in Requests |-> {}]
  BY DEF KeysInit, Init
<1>2. \A r \in Requests : pc[r] = "idle" /\ ~Late(r) /\ owed[r] = {}
  BY <1>1 DEF Processes, Late, Contains
<1> QED BY <1>1, <1>2 DEF OwedInvariant, RemovalPlaces

\* Once a removal has answered, no key opens that the student or his group had when
\* he was taken out: whatever requests for keys and whatever other edits it raced
\* with, removals of the same student among them, if nobody asked to switch a key on.
THEOREM RemovalsRevoke == KeysSpec /\ SwitchesOff => []RemovalRevokes
<1>1. KeysInit /\ SwitchesOff => OwedInvariant
  BY OwedInitial
<1>2. OwedInvariant => RemovalRevokes
  <2> SUFFICES ASSUME OwedInvariant, NEW r \in Requests, Late(r), Removal(r),
                      NEW h \in owed[r], Opens(h)
               PROVE  FALSE
    BY DEF RemovalRevokes, Late, Removal
  <2>1. PICK k \in keys : k.hash = h /\ KeyIsActive(k, course)
    BY DEF Opens
  <2>2. h # NoHash /\ k.on
    BY <2>1 DEF KeyIsActive
  <2>3. Dead(h)
    BY <2>2 DEF OwedInvariant, Progress
  <2> QED BY <2>1, <2>2, <2>3 DEF Dead
<1> QED BY <1>1, <1>2, OwedStep, KeysCorrect, CourseHolds, PTL DEF KeysSpec

=============================================================================
