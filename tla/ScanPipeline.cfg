SPECIFICATION Spec
CONSTANTS
    CheckpointIds = {1, 2}
    Slots <- MCSlots
    Sources = {s1, s2}
    Media = {}
    Tools = {t1, t2}
    Cursors = {0, 1, 2}
    Times = {0}
    Null = Null
    Units <- MCUnits
    Expected = s1
    FirstTool = t1
    Budgets = {1, 2}
    Saving = {"enumeration", "carving"}
    MaxFaults = 2
INVARIANTS CompletedDidAllWork ScheduleSound
    AckedPauseIsDurable
PROPERTIES CompletedNotRerun ScanSettles
CHECK_DEADLOCK FALSE
