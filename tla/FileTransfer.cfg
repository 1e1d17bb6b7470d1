\* Two connections; two handles, so that an id can be opened again; two chunks.
CONSTANTS
    Sessions = {s1, s2}
    Names = {f1, f2}
    Downloads = {d1}
    Length = 2
    MaxHandles = 2
    MaxConns = 2
CHECK_DEADLOCK FALSE
SPECIFICATION FairSpec
INVARIANTS TypeOK UploadsAreOpen CompleteOnItsConnection
PROPERTIES DoneMeansStored DownloadsEnd
