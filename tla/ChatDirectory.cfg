CONSTANTS
    u1 = u1
    u2 = u2
    u3 = u3
    c1 = c1
    c2 = c2
    owner = u3
    Sockets = {s1, s2}
    Users = {u1, u2, u3}
    Verified = {u1, u2}
    NoUser = NoUser
    Tokens = {u1, u2}
    Codes = {c1, c2}
    MessageIds = {}
    Calls = {k1, k2}
    Attempts = 2
    LegacyRooms <- MCLegacyRooms
    LegacyMembers <- MCLegacyMembers
SPECIFICATION Spec
SYMMETRY MemberSymmetry
INVARIANTS
    CreatorOwns
    GuestInvitedOnce
    MembersInherited
PROPERTIES
    ImplementsDirectory
    OnlyPrivateRefuses
