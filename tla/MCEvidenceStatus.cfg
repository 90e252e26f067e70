SPECIFICATION Spec
CONSTANTS
    None = None
    Threshold = 2
    Schedule <- MCSchedule
    Mapping <- MCMapping
    QueueCapacity = 2
    Capacities <- MCCapacities
    MaxTime = 1
    MaxQueueFaults = 0
    PublishFaults <- MCPublishFaults
    Graphs <- MCAnyGraphs
INVARIANT EvaluatedStatusIsValid
CHECK_DEADLOCK FALSE
