\* Passive mode, a signed bundle whose FMC size is not a multiple of 4.
CONSTANTS
    MANIFEST_MARKER = "MARKER"
    ManifestSize <- MCManifestSize
    KEY_DESCRIPTOR_VERSION = 1
    VENDOR_ECC_MAX_KEY_COUNT = 4
    VENDOR_LMS_MAX_KEY_COUNT = 4
    VENDOR_MLDSA_MAX_KEY_COUNT = 4
    MAX_FIRMWARE_SVN <- MCMaxSvn
    IccmStart = 0
    IccmEnd = 16
    WordBits = 5
    ZERO = ZERO
    JUNK = JUNK
    Bundles <- MCBundlesOddSize
    Fuses <- MCFusesLms
    ActiveMode = FALSE
    Faults <- MCNoFaults
    IMAGE_BYTE_SIZE = 16
SPECIFICATION Spec
INVARIANT RunningCodeMeasured
