SPECIFICATION AccountsSpec
CONSTANTS
    kim = kim
    lee = lee
    eve = eve
    bob = bob
    Members <- MCMembers
    Guests <- MCGuests
    Requests = {r1, r2, r3}
    Asks <- MCAsks
    AtOnce = 2
    FirstUsers <- MCUsers
    FirstListed <- MCListed
    FirstKeys <- MCKeys
SYMMETRY Symmetry
VIEW View
INVARIANTS
    InactiveIsShut
