SPECIFICATION Spec
CONSTANTS
    Items = {i1}
    Exporters = {e1, e2}
    Chunks <- MCChunks
    Original <- MCOriginal
    Contents <- MCContents
    NoFile = NoFile
    Damaged = Damaged
    MaxCalls = 2
    MaxFaults = 2
    MAX_WAIT_RETRIES = 1
INVARIANTS CopiesVerified ExportedSurvives
PROPERTIES CompletedCopyKept QueueSettles
CHECK_DEADLOCK FALSE
