SPECIFICATION Spec
CONSTANTS
    None = None
    Catalog <- MCCatalog
    Policies <- MCPolicies
    Namespace <- MCNamespace
    InitialBlocks <- MCBlocks
    Counts <- MCCounts
    Budget = 2
    BudgetArtifact = "budget"
    Submissions <- MCSubmissions
    Requests <- MCRequests
    MaxRecords = 7
INVARIANTS
    OutcomesOpenInOrder
    SealedPoolStands
    ReplacementsAreBounded
    ReplacementsAreAccountable
    TwoPersonUnseal
CHECK_DEADLOCK FALSE
