SPECIFICATION MCSpec
CONSTANTS
    Appenders = {"hostd", "other"}
    HostD = "hostd"
    Other = "other"
    NoAppender = NoAppender
    AuditEvents = {"scanner_sandbox_profile", "device_resolution"}
    SegmentMax = 2
    MaxRecords = 4
    Slots <- MCSlots
    Reader <- MCReader
    Media <- MCMedia
    MaxGeneration = 1
    None = None
    Conditions = {"read_only_not_verified"}
    MaxScanners = 1
    LaunchSlot = "disk"
    Nodes <- MCNodes
    Source = {"sda", "sda1"}
    Stackable <- MCStackable
    Supported = {"dm0", "dm1"}
    Mounts <- MCMounts
    MaxChanges = 2
INVARIANTS
    TrailHoldsTogether
    LaunchedIsAudited
    ValidatedIsConfirmed
    WizardStartsConfirmed
    LastingUseIsSeen
CHECK_DEADLOCK FALSE
