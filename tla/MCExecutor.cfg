SPECIFICATION Spec
CONSTANTS
    Capacity = 1
    Schedules <- MCSchedules
    LimitSets <- MCLimits
    MaxTick = 4
    Origins = {0, 4}
    Faults = {"clock", "attempt_before", "attempt_after", "poll_before", "poll_after"}
INVARIANTS
    ExecutorInv
    SuccessIsWholeRun
    DrainedMeansComplete
    CauseIsReported
PROPERTIES
    RunReturns
