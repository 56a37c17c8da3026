CONSTANTS
    u1 = u1
    u2 = u2
    u3 = u3
    c1 = c1
    c2 = c2
    owner = u1
    Sockets = {s1, s2}
    Users = {u1, u2, u3}
    Verified = {u1, u3}
    NoUser = NoUser
    Tokens = {u1, u3}
    Codes = {c1}
    MessageIds = {}
    Calls = {k1}
    Attempts = 2
    LegacyRooms <- MCLegacyRooms
    LegacyMembers <- MCLegacyMembers
SPECIFICATION Spec
PROPERTY InvitationAdmits
