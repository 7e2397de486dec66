SPECIFICATION Spec
CONSTANTS
    Jobs = {j1}
    Writers = {w1}
    Readers = {r1}
    NoJob = NoJob
    Targets = {"running", "paused"}
    Limit = 2
    MaxTransitions = 2
    MaxEvents = 3
INVARIANT StateAndEventAgree
CHECK_DEADLOCK FALSE
