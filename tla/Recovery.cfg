SPECIFICATION MCSpec
CONSTANTS
    X = x
    I = i
    blkA = blkA
    Zero = zero
    NoContent = noContent
    NoWriter = noWriter
    Writers <- MCWriters
    Contents <- MCContents
    Size <- MCSize
    Media <- MCMedia
    Entries <- MCEntries
    Carving <- MCCarving
    MaxPuts <- MCMaxPuts
    MaxExtract = 2
    MaxAttempts = 2
    PauseAfterErrors = 1
    Quota = 3
    RecordBytes = 1
    Faults = {"timeout"}
    Sources = {s1, s2}
    Sectors = {1, 2}
SYMMETRY MCSymmetry
INVARIANTS
    ReturnedIsRecorded
    QuotaOvershootBounded
    
    
PROPERTY
    ImplementsContentStore
CHECK_DEADLOCK FALSE
