SPECIFICATION Spec
CONSTANTS
    Keys = {sched, job, stray}
    Payloads = {p, old}
    Reservations = {r1, r2, r3, r4, r5}
    Nobody = Nobody
    NoRow = NoRow
    NoTask = NoTask
    NoPayload = NoPayload
    Recurring = {sched}
    Eager = {sched}
    Unhandled = {stray}
    Unreadable = {old}
    Purgeable = {job}
    InFlight = 2
    MaxAttempts = 2
    AttemptCap = 2
SYMMETRY AnyReservation
INVARIANTS
    HolderIsCurrent
    RearmReleases
PROPERTIES
    NothingForgotten
    ScheduleKept
