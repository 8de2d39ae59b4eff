SPECIFICATION EnrolmentSpec
CONSTANTS
    Tokens = {t}
    Passwords = {pw}
    Workload = Workload
    Enrolments = {r1, r2, r3}
    Devices = {d1, d2}
    NoDevice = NoDevice
SYMMETRY Symmetry
INVARIANTS
    TokenBuysOnce
    TakenBackStays
    OneWorkloadLeft
CHECK_DEADLOCK FALSE
