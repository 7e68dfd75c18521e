\* Only the self-test commands, in any order.
CONSTANTS
    ActiveMode = FALSE
    MEASUREMENT_MAX_COUNT = 3
    MeasLogEntries = 3
    Measurements = {m1, m2}
    CsrProvisioned = TRUE
    EngineFaults = FALSE
    SocCommands <- MCSelfTestOnly
SPECIFICATION Spec
INVARIANT FailureCarriesError
CHECK_DEADLOCK FALSE
