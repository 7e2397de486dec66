SPECIFICATION Spec
CONSTANTS
    Jobs = {1, 2}
    Clients = {c1, c2}
    Submissions <- MCSubmissions
    Null = Null
    LeaseSeconds = 1
    BaseDelay = 1
    MaxDelay = 2
    MaxTime = 2
INVARIANTS JobsSound
PROPERTIES JobStepsLegal
CHECK_DEADLOCK FALSE
