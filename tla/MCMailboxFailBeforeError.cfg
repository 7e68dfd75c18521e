\* STASH_MEASUREMENT up to and past the limit, and RI_DOWNLOAD_FIRMWARE in
\* passive mode: both arms complete the transaction before the error.
CONSTANTS
    ActiveMode = FALSE
    MEASUREMENT_MAX_COUNT = 3
    MeasLogEntries = 3
    Measurements = {m1, m2}
    CsrProvisioned = TRUE
    EngineFaults = FALSE
    SocCommands <- MCStashOrRi
SPECIFICATION Spec
INVARIANT FailureCarriesError
CHECK_DEADLOCK FALSE
