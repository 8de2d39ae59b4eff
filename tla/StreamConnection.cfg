SPECIFICATION FairSpec
CONSTANTS
    QueueLen = 2
    DropLimit = 2
    Peers = 1
    MaxRouted = 2
    MaxSaid = 1
INVARIANTS
    EncodingsAgree
    EndIsWhatItSays
PROPERTIES
    OwedIsWritten
    EndingEnds
    DeliversInOrder
CHECK_DEADLOCK FALSE
