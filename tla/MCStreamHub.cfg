SPECIFICATION Spec
CONSTANTS
    MaxConns = 3
    Uids = {ua, ub, uc}
    ua = ua  ub = ub  uc = uc
    Names = {alpha, bravo}
    alpha = alpha  bravo = bravo
    UidOf <- Reconnecting
    Relayed = {ub}
    Addresses <- EachWay
    Sees <- Channels
    Shy = {2}
    MaxReports = 2
    NoUid = NoUid  NoName = NoName  Absent = Absent  Idle = Idle
INVARIANTS
    IndexesExact
    BouncedOnlyIfAbsent
    MapIsFilled
PROPERTY AppearsConnected
CHECK_DEADLOCK FALSE
