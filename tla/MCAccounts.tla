------------------------------ MODULE MCAccounts ------------------------------
(***************************************************************************)
(* Two administrators of the university, one with an id that is not his    *)
(* _id; a guest with a default key and a key of a course; and a guest      *)
(* whose entry is inactive and who has no account yet.  The requests are   *)
(* those that can disagree about them.                                     *)
(***************************************************************************)
EXTENDS Accounts, TLC

CONSTANTS kim, lee, eve, bob

MCMembers == {kim, lee}
MCGuests == {eve, bob}

MCUsers ==
    {Record("u1", "m1", kim, TRUE, "admin"), Record("u2", "u2", lee, TRUE, "admin"),
     Record("u3", "u3", eve, TRUE, "instructor")}
MCListed ==
    {Record("w3", "w3", eve, TRUE, "instructor"), Record("w4", "w4", bob, FALSE, "admin")}

Key(id, owner, scope) == [id |-> id, owner |-> owner, scope |-> scope, on |-> TRUE, reason |-> "none"]
MCKeys == {Key("k1", "u1", "user-default"), Key("k3", "u3", "user-default"), Key("c3", "u3", "course")}

Own(kind, who) == [kind |-> kind, whom |-> {who}]
Update(by, whom, fields, active, role) ==
    [kind |-> "update", by |-> by, whom |-> whom, fields |-> fields, active |-> active, role |-> role]
Listing(kind, by, who, fields, active, role) ==
    [kind |-> kind, by |-> by, whom |-> {who}, fields |-> fields, active |-> active, role |-> role]

MCAsks ==
    {Own("login", eve), Own("login", bob), Own("session", bob), Own("settings", bob),
     Update(lee, {lee, eve}, {"role"}, TRUE, "student"),
     Update(lee, {kim, eve}, {"active"}, FALSE, "student"),
     Update(kim, {eve}, {"active", "role"}, TRUE, "admin"),
     Listing("patchListed", kim, eve, {"active"}, FALSE, "student"),
     Listing("patchListed", kim, bob, {"active"}, TRUE, "student"),
     Listing("dropListed", kim, bob, {}, FALSE, "student"),
     Listing("addListed", lee, bob, {}, TRUE, "instructor"),
     Listing("createUser", lee, bob, {}, TRUE, "student")}

Symmetry == Permutations(Requests)

\* What a request that is over had asked for and read is nothing to anyone.
Live(r) ==
    IF pc[r] = "done" THEN <<>>
    ELSE <<ask[r], account[r], entry[r], doc[r], targets[r], todo[r]>>
View == <<users, listed, keys, pc, [r \in Requests |-> Live(r)], crossed, cut>>
=============================================================================
