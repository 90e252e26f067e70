SPECIFICATION JournalSpec
CONSTANTS
    Times = {0, 1}
    Consequences <- MCConsequences
    MaxNotes = 2
INVARIANTS
    JournalInv
    FailureIsRetained
    ValidRunIsWhole
PROPERTIES
    HistoryIsAppendOnly
CHECK_DEADLOCK FALSE
