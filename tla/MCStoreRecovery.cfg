SPECIFICATION Spec
CONSTANTS
    Objects = {"o1"}
    Artifacts = {"a1"}
    Records = {"r"}
    Payloads = {"x"}
INVARIANTS
    RecoveredBytesAreSynced
