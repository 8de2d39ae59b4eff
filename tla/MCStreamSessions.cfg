SPECIFICATION FairSpec
CONSTANTS
    Sessions = {s1, s2}
    Certs = {c1}
    Admins = {a1, a2}
    MaxChanges = 2
    NoCert = NoCert  Nobody = Nobody
INVARIANTS
    RevokedIsClosed
    DisabledIsClosed
    ChannelsSettle
PROPERTY WithdrawalLands
