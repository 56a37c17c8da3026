CONSTANTS
    e1 = e1
    p1 = p1
    Emails = {e1, e2}
    Passwords = {p1, p2}
    Codes = {n1, n2}
    Browsers = {b1, b2}
    Reasons = {w1}
    Calls = {k1}
    NoToken = NoToken
    CodeTtl = 1
    AccessTtl = 1
    RefreshTtl = 2
    MaxTime = 2
    MaxRequests = 2
    LegacyAccounts <- MCLegacyAccounts
SPECIFICATION Spec
SYMMETRY Symmetry
PROPERTY SentIsMailed
