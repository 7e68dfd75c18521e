\* The FMC alias layer with engine faults; the layer stops at Done or Fatal.
CONSTANTS
    Measurements = {p1, p2}
    Tcis = {t1, t2}
    SvnValues = {0, 128}
    Lifecycles = {"Unprovisioned", "Manufacturing", "Production"}
    LDevIdCdi = ldev_cdi
    LDevIdEccPriv = ldev_ecc
    LDevIdMldsaSeed = ldev_mldsa
    OwnerPkHash = oh
    EngineFaults = TRUE
    EMPTY = EMPTY
    FuseBank <- MCFuseBank
    FwProcInfo <- MCFwProcInfo
SPECIFICATION Spec
INVARIANT TypeOK AliasKeysBoundToPcr0 AliasCertsCertifyAliasKeys NoLDevIdSecretLeft
PROPERTY DerivationCompletes
CHECK_DEADLOCK FALSE
