SPECIFICATION FairSpec
CONSTANTS
    MaxRecord = 2
    MaxSegment = 2
    Capacity = 2
    Removers = {x1}
    Reissued = {2}
    Failing <- SecondRecord
    Coinciding = {1}
    Volatile = {1}
    MaxTold = 1
    NoFile = NoFile  NoRow = NoRow
INVARIANTS
    WriterKnowsItsSegment
    RowsCatchUp
    NoFileLeaks
    SegmentsInOrder
PROPERTIES
    QuietHistoryGoes
