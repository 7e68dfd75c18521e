\* Passive mode, CSR not provisioned, engine faults; the loop ends on a firmware load or a fatal error.
CONSTANTS
    ActiveMode = FALSE
    MEASUREMENT_MAX_COUNT = 3
    MeasLogEntries = 3
    Measurements = {m1, m2}
    CsrProvisioned = FALSE
    EngineFaults = TRUE
    SocCommands <- MCAllCommands
SPECIFICATION Spec
INVARIANT TypeOK MeasurementLogMatchesPcr31
PROPERTY CommandEventuallyCompleted ImplementsMailboxService
CHECK_DEADLOCK FALSE
