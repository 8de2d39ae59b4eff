SPECIFICATION FairSpec
CONSTANTS
    Hashes = {h1}
    Uids = {u1, u2}
    Uploads = {p1, p2}
    Deletes = {d1, d2}
    MaxId = 2
    NoRow = NoRow  NoHash = NoHash
INVARIANTS
    RowsKeepTheirBytes
PROPERTIES
    UploadsKeepTheirBlob
    OrphansGo
