SPECIFICATION FairSpec
CONSTANTS
    Publishers = {p1, p2}
    Limited = {p2}
    Ring = 1
    WireLen = 1
    MaxId = 2
    MaxRestarts = 1
INVARIANTS
    NothingSkipped
PROPERTIES
    ReadsTheLog
    RightsFollow
    FeedCatchesUp
