\* Active mode, CSR provisioned, engine faults, and a measurement log one entry
\* shorter than the stash limit so that the log-exhausted path is taken; the
\* loop ends on a firmware load or a fatal error.
CONSTANTS
    ActiveMode = TRUE
    MEASUREMENT_MAX_COUNT = 3
    MeasLogEntries = 2
    Measurements = {m1, m2}
    CsrProvisioned = TRUE
    EngineFaults = TRUE
    SocCommands <- MCAllCommands
SPECIFICATION Spec
PROPERTY CommandEventuallyCompleted ImplementsMailboxService
CHECK_DEADLOCK FALSE
