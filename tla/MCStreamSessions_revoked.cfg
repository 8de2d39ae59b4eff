SPECIFICATION Spec
CONSTANTS
    Sessions = {s1, s2}
    Certs = {c1, c2}
    Admins = {a1}
    MaxChanges = 1
    NoCert = NoCert  Nobody = Nobody
SYMMETRY Symmetry
INVARIANT RevokedLeavesNone
