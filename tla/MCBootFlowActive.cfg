\* Active mode, ML-DSA, anti-rollback disabled, PCR-extension and image-load
\* faults in update resets.
CONSTANTS
    MANIFEST_MARKER = "MARKER"
    ManifestSize <- MCManifestSize
    KEY_DESCRIPTOR_VERSION = 1
    VENDOR_ECC_MAX_KEY_COUNT = 4
    VENDOR_LMS_MAX_KEY_COUNT = 4
    VENDOR_MLDSA_MAX_KEY_COUNT = 4
    MAX_FIRMWARE_SVN <- MCMaxSvn
    IccmStart = 0
    IccmEnd = 16
    WordBits = 5
    ZERO = ZERO
    JUNK = JUNK
    Bundles <- MCBundlesMldsa
    Fuses <- MCFusesMldsa
    ActiveMode = TRUE
    Faults <- MCPcrLoadFaults
    IMAGE_BYTE_SIZE = 16
SPECIFICATION Spec
INVARIANT RunningCodeMeasured KeyLadderMatchesMinSvn
