SPECIFICATION MCSpec
CONSTANTS
    CheckpointIds = {1, 2, 3}
    Slots = {enumeration, carving}
    Sources = {s1}
    Media = {m1}
    Tools = {t1}
    Cursors = {0}
    Times = {0, 1}
    Null = Null
    Holders = {p, q}
    Refs = {r1, r2}
    MaxKeys = 3
    SetRef = r1
    MaxAttempts = 1
    MaxCost = 1
    None = None
    Profiles = {"lan", "far"}
    Mode <- MCMode
    Weight <- MCWeight
    HostOf <- MCHostOf
    HostKind <- MCHostKind
    Items = {i, j}
    DeniedItems = {j}
    RetryBudget = 2
    MaxChanges = 4
    Unset = Unset
    EventTypes = {"counted", "plain"}
    CountTypes = {"counted"}
    RuleSets <- MCRuleSets
    MaxCount = 1
    Day = 4
    Backoff = 1
    MaxTime = 5
    MaxDeaths = 1
    Nothing = Nothing
    Findings = {1, 2, 3}
    CreatedAt <- MCCreatedAt
    PageLimit = 1
    MaxGroups = 2
    MaxUndos = 1
    Migrators = {"a", "b", "c"}
    TargetOf <- MCTargetOf
    MaxCalls = 4
    ClusterCount = 3
    SectorsPerCluster = 2
    FirstDataSector = 5
    FatValues = {0, 3, 4, 6, 4087, 4095}
    BadSectorSets <- MCBadSectors
    MaxSize = 3
    MaxItems = 4
    MaxItemBytes = 3
    BatchSizes = {1, 2, 3}
    BatchBytes = {2, 4}
    MaxText = 6
    MaxBudget = 3
    CandidateCount = 4
    Digests = {"d", "e", "none"}
    NoDigest = "none"
    CandidateSets <- MCCandidateSets
    Contents <- MCContents
    ToolLines <- MCToolLines
    PartedLines <- MCPartedLines
    NoKind = NoKind
    LineLimit = 2
    PartLimit = 2
    SizeLimit = 2
    DimLimit = 2
    DepthLimit = 2
    MaxParses = 2
    StateFiles = {catalog, settings}
    Catalog = catalog
    MaxVersion = 1
    MaxBackups = 3
    NoVersion = NoVersion
    SectorCount = 3
    TableRows <- MCTableRows
    SectorMarks <- MCSectorMarks
    MaxRows = 2
    MaxCandidates = 2
    CandidateSpan = 2
    CarveBudget = 2
    Paths <- MCPaths
    StreamNames = {"b:s"}
    ObjectIds <- MCObjectIds
    MaxLines = 4
    LinesLimit = 3
    Links = {1, 2, 3, 4087, 4088}
    MaxLinks = 4
    ClusterBytes = 2
    MaxChain = 3
    MaxRecover = 5
    NoEntry = NoEntry
    MessageKinds <- MCMessageKinds
    MaxEmitted = 3
    MaxStream = 4
    Stems = {"a", "A", "a.", "..", ".", "..a", "blank", "CON", "_CON", "unnamed", "", "cut", "carved"}
    SourcePaths <- MCSourcePaths
    PathLimits = {5, 7, 8}
    MaxExports = 3
    Policies <- MCPolicies
    SecretSets <- MCSecretSets
    RevealTime = 5
    MaxSets = 2
    Entries = {1, 2, 3}
    EntryRows <- MCEntryRows
    RawFilters <- MCRawFilters
    ViewLimit = 2
    MaxMoves = 2
INVARIANTS CheckpointsSound SecretsSurvive EgressHolds  ReviewHolds
     UpgradesRecoverable ScanIsSound SplitsLoseNothing GroupsAreComponents
     RestoredIsOneBackup VolumesFound 
    DecodedOnceInOrder DestinationsApart SecretsAreBounded
CHECK_DEADLOCK FALSE
