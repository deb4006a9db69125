CONSTANTS
    Job = {heartbeat, script}
    ExtraJob = {script}
    InProcess = {heartbeat}
    Action = {a1}
    MaxBoots = 2
    MaxStray = 1
    MaxBreaks = 1
    Null = Null
    c1 = c1
    c2 = c2
    observer = observer
    Call = {c1, c2}
    Observer = {observer}
    DbOf <- MCDbOf
    Cooldown = 2
    MaxAge = 1
SPECIFICATION Spec
CHECK_DEADLOCK FALSE
INVARIANTS NodeTypeOK ActionsAccounted
PROPERTIES IntervalKeptUnlessForgotten RestartCompletes SchedulerServes
PROPERTIES CooldownBrokenOnlyByOverlap StoppedServiceReturns
