SPECIFICATION Spec
CONSTANTS
    None = None
    Threshold = 2
    Schedule <- MCSchedule
    Mapping <- MCMapping
    QueueCapacity = 2
    Capacities <- MCCapacities
    MaxTime = 1
    MaxQueueFaults = 1
    PublishFaults <- MCPublishFaults
    Graphs <- MCGraphs
INVARIANTS
    StreamsAreWhole
    JoinIsExact
    AcceptedFiguresAreTrue
    EstimableMeansClean
    HonestRunIsAccepted
CHECK_DEADLOCK FALSE
