\* Passive mode, LMS, key-ladder and PCR-extension faults in update resets.
CONSTANTS
    MANIFEST_MARKER = "MARKER"
    ManifestSize <- MCManifestSize
    KEY_DESCRIPTOR_VERSION = 1
    VENDOR_ECC_MAX_KEY_COUNT = 4
    VENDOR_LMS_MAX_KEY_COUNT = 4
    VENDOR_MLDSA_MAX_KEY_COUNT = 4
    MAX_FIRMWARE_SVN <- MCMaxSvn
    IccmStart = 0
    IccmEnd = 16
    WordBits = 5
    ZERO = ZERO
    JUNK = JUNK
    Bundles <- MCBundlesLms
    Fuses <- MCFusesLms
    ActiveMode = FALSE
    Faults <- MCLadderPcrFaults
    IMAGE_BYTE_SIZE = 40
SPECIFICATION Spec
INVARIANT TypeOK RunningCodeMeasured VaultDescribesRunningManifest LoadRangesInIccm
PROPERTY KeyLadderNeverShortened
