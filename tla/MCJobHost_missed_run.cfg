SPECIFICATION SoundDatabaseSpec
CONSTANTS
    Keys = {sched, job}
    Payloads = {p, old}
    Reservations = {r1, r2, r3}
    Nobody = Nobody
    NoRow = NoRow
    NoTask = NoTask
    NoPayload = NoPayload
    Recurring = {sched}
    Eager = {}
    Unhandled = {}
    Unreadable = {old}
    Purgeable = {}
    InFlight = 1
    MaxAttempts = 2
    AttemptCap = 2
INVARIANT FailedRunIsOneMissedRun
