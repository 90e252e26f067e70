CONSTANTS
  None = None
  ByteValues = 16
  WordBytes = 2
  LengthField = 1
  RowAlignment = 2
  ProducerBody = 3
  ConsumerBody = 2
  JoinedBody = 5
  MaxNameBytes = 4
  CellsPerBlock = 2
  NsPerSecond = 10
  PsPerNs = 3
  Plans <- MCPlans
  Offers <- MCOffers
  MaxUses = 3
  RequiredKinds = {"run_plan", "clock_qualification"}
  Packages = {"r0", "l0"}
  WorkerPairs <- MCWorkerPairs
  Admissions <- MCAdmissions
  Anchors <- MCAnchors
  Contents = {"good", "bad"}
  Paths = {"a", "b"}
  Readiness = {"platform", "queue", "storage"}
  Capacity = 2
  QueueKinds = {"ring", "linked"}
  Times <- MCTimes
SPECIFICATION Spec
INVARIANTS
    PreparationInv
    StorageBudgetIsExact
    AcceptedUsesAreMatched
    DecodedScheduleRuns
    TicketMeansEvidenceWasSeen
    ClockKeepsOrder
CHECK_DEADLOCK FALSE
