CONSTANTS
    u1 = u1
    u2 = u2
    u3 = u3
    c1 = c1
    c2 = c2
    owner = u1
    Sockets = {s1, s2}
    Users = {u1, u2}
    Verified = {u1}
    NoUser = NoUser
    Tokens = {u1, u2, NoUser}
    Codes = {c1}
    MessageIds = {m1}
    Calls = {k1, k2}
    Attempts = 2
    LegacyRooms = {}
    LegacyMembers = {}
SPECIFICATION FairSpec
INVARIANTS
    TypeOK
    AuthSettles
    SeatsSound
    HeardWasStored
PROPERTY RequestsEnd
