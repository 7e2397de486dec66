SPECIFICATION PollingSpec
CONSTANTS
    Jobs = {1, 2}
    Clients = {c1}
    Submissions <- MCDefaultSubmissions
    Null = Null
    LeaseSeconds = 1
    BaseDelay = 1
    MaxDelay = 2
    MaxTime = 2
PROPERTY RunnableJobReached
CHECK_DEADLOCK FALSE
