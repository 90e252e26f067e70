SPECIFICATION Spec
CONSTANTS
    Calls <- MCCalls
    Targets = {"msr", "cpufreq"}
    Values = {"on", "off"}
    RequiredKinds <- MCKinds
INVARIANTS
    PlatformInv
    EligibleMeansInForce
