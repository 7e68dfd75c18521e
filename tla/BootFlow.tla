------------------------------- MODULE BootFlow -------------------------------
(***************************************************************************)
(* The ROM's reset flows (rom/dev/src/flow): the cold-reset firmware       *)
(* processor (cold_reset/fw_processor.rs), the update-reset flow           *)
(* (update_reset.rs), the warm-reset and unknown-reset dispatch            *)
(* (flow/mod.rs) and the hand-off, fatal and non-fatal paths of the ROM's  *)
(* main loop, composed with the image verifier (ImageVerifier).            *)
(*                                                                         *)
(* The SoC delivers a firmware bundle (manifest plus image bytes in the    *)
(* mailbox SRAM) at cold boot; the running firmware delivers one at each   *)
(* update reset.  Warm, cold and unknown resets may strike at any step.    *)
(* The update-reset flow is split at the points where the code reaches a   *)
(* persistent state (data vault, ICCM, key ladder) so that a reset or an   *)
(* engine fault can fall between them; the cold-reset flow is split where  *)
(* the firmware-load transaction completes.                                *)
(***************************************************************************)
EXTENDS ImageVerifier

CONSTANTS
    Bundles,          \* the firmware bundles the SoC or the firmware may send
    Fuses,            \* the fuse bank (a record; see ImageVerifier)
    ActiveMode,       \* soc_ifc.active_mode(): image from the recovery interface
    Faults,           \* engine failures that may strike an update reset
    IMAGE_BYTE_SIZE,  \* the largest firmware load the mailbox accepts
    JUNK              \* ICCM contents not written since the cold reset

\* The points of the update-reset flow where a hardware engine may fail.
FaultPoints == {"KeyLadder", "ExtendPcrs", "LoadImage"}

ASSUME BootFlowAssumption ==
    /\ ActiveMode \in BOOLEAN
    /\ Faults \subseteq FaultPoints
    /\ IMAGE_BYTE_SIZE \in Nat
    \* every bundle passes the dlen check of process_mailbox_commands
    /\ \A b \in Bundles : Len(b.image) \in 1..IMAGE_BYTE_SIZE

\* The manifest's SVN and the TOC entries' load addresses and sizes are u32
\* fields (ImageHeader::svn, ImageTocEntry::load_addr and size).
ASSUME BundleFieldsAssumption ==
    \A b \in Bundles :
        /\ b.manifest.header.svn \in Nat
        /\ \A e \in {b.manifest.fmc, b.manifest.runtime} :
               e.load_addr \in Nat /\ e.size \in Nat

VARIABLES
    pc,             \* the step of the ROM flow, or "Running" (FMC launched)
    dv,             \* the data vault entries the flows write
    manifest1,      \* persistent_data.manifest1: the manifest of the running image
    manifest2,      \* persistent_data.manifest2: the manifest of an update
    iccm,           \* ICCM contents: address -> byte
    ladder,         \* length of the firmware key ladder chain in the key vault
    mbox,           \* the bundle of the FIRMWARE_LOAD transaction the ROM holds
    vinfo,          \* the ImageVerificationInfo of the update being processed
    fw_error_fatal,     \* FW_ERROR_FATAL
    fw_error_non_fatal  \* FW_ERROR_NON_FATAL

vars == <<pc, dv, manifest1, manifest2, iccm, ladder, mbox, vinfo,
          fw_error_fatal, fw_error_non_fatal>>

NoError == "NO_ERROR"
NoLadder == -1
NoBundle == [none |-> TRUE]
NoInfo == [none |-> TRUE]
\* A mailbox transaction whose command is not FIRMWARE_LOAD.
OtherCommand == [cmd |-> "OTHER"]
IccmAddrs == IccmStart..(IccmEnd - 1)
BundleBytes == UNION {{b.image[i] : i \in DOMAIN b.image} : b \in Bundles}

Phases == {"ColdMbox", "ColdKeyLadder", "ColdFmcAlias", "Running", "Fatal",
           "UpdStart", "UpdVerify", "UpdPopulate", "UpdLoad", "UpdCommit"}

\* The data vault as a cold reset leaves it: every entry zero.
ColdVault ==
    [fmc_tci |-> ZERO, rt_tci |-> ZERO, owner_pk_hash |-> ZERO,
     vendor_ecc_pk_index |-> 0, vendor_pqc_pk_index |-> 0,
     fw_svn |-> 0, fw_min_svn |-> 0,
     cold_boot_status |-> "None", update_reset_status |-> "None"]

-----------------------------------------------------------------------------
(* Helpers.                                                                *)

\* The bytes of a copy of n bytes from SRAM position pos (0-based).
SramRead(img, pos, n) == SubSeq(img, pos + 1, pos + n)

\* The bytes a u32 copy_request moves for a destination of n bytes:
\* size as usize / 4 words.
WordBytes(n) == 4 * (n \div 4)

\* The ICCM after writing the bytes bs from address addr.
IccmWrite(mem, addr, bs) ==
    [a \in DOMAIN mem |->
        IF addr <= a /\ a < addr + Len(bs) THEN bs[a - addr + 1] ELSE mem[a]]

\* The n bytes of ICCM from address addr (ICCM reads outside are JUNK).
IccmRead(mem, addr, n) ==
    [i \in 1..n |-> IF addr + i - 1 \in DOMAIN mem THEN mem[addr + i - 1] ELSE JUNK]

\* Mutant: an extension that adds no links.
ExtendLadderNoop(l, n) == l

\* extend_key_ladder by n links; a ladder the key vault no longer holds
\* (zeroized by a fatal error) stays absent.
ExtendLadder(l, n) == IF l = NoLadder THEN NoLadder ELSE l + n

\* handle_fatal_error: report the error, zeroize the key vault, halt.
FatalError(e) ==
    /\ pc' = "Fatal"
    /\ fw_error_fatal' = e
    /\ ladder' = NoLadder

\* report_fw_error_non_fatal on an update-reset error, then (main) the ROM
\* completes the held transaction with failure and launches the FMC.
UpdateFailed(e) ==
    /\ fw_error_non_fatal' = e
    /\ pc' = "Running"
    /\ mbox' = NoBundle
    /\ vinfo' = NoInfo

-----------------------------------------------------------------------------
(* Cold reset.                                                             *)

\* Mutant: FMC and runtime TCI written to each other's entries.
ColdPopulateVaultSwapped(v, info) ==
    [v EXCEPT !.fmc_tci = info.runtime.digest,
              !.owner_pk_hash = info.owner_pub_keys_digest,
              !.vendor_ecc_pk_index = info.vendor_ecc_pub_key_idx,
              !.vendor_pqc_pk_index = info.vendor_pqc_pub_key_idx,
              !.rt_tci = info.fmc.digest,
              !.fw_svn = info.fw_svn,
              !.fw_min_svn = info.fw_svn]

\* fw_processor populate_data_vault
ColdPopulateVault(v, info) ==
    [v EXCEPT !.fmc_tci = info.fmc.digest,
              !.owner_pk_hash = info.owner_pub_keys_digest,
              !.vendor_ecc_pk_index = info.vendor_ecc_pub_key_idx,
              !.vendor_pqc_pk_index = info.vendor_pqc_pub_key_idx,
              !.rt_tci = info.runtime.digest,
              !.fw_svn = info.fw_svn,
              !.fw_min_svn = info.fw_svn]

\* Mutant: the runtime copied from where the FMC starts.
ColdLoadImageNoFmcSkip(mem, m, img) ==
    LET fmc_len == IF ActiveMode THEN m.fmc.size ELSE WordBytes(m.fmc.size)
        rt_len == IF ActiveMode THEN m.runtime.size ELSE WordBytes(m.runtime.size)
    IN IccmWrite(IccmWrite(mem, m.fmc.load_addr, SramRead(img, ManifestSize, fmc_len)),
                 m.runtime.load_addr, SramRead(img, ManifestSize, rt_len))

\* fw_processor load_image: byte-exact from the SRAM after the manifest in
\* active mode, the next size/4 words of the mailbox stream in passive mode.
ColdLoadImage(mem, m, img) ==
    LET fmc_len == IF ActiveMode THEN m.fmc.size ELSE WordBytes(m.fmc.size)
        rt_len == IF ActiveMode THEN m.runtime.size ELSE WordBytes(m.runtime.size)
        fmc_bytes == SramRead(img, ManifestSize, fmc_len)
        rt_bytes == SramRead(img, ManifestSize + fmc_len, rt_len)
    IN IccmWrite(IccmWrite(mem, m.fmc.load_addr, fmc_bytes),
                 m.runtime.load_addr, rt_bytes)

\* The ROM boots after a cold reset: the data vault, the key vault, the
\* error registers and the mailbox are cleared; ICCM holds no image.
Init ==
    /\ pc = "ColdMbox"
    /\ dv = ColdVault
    /\ manifest1 = ZERO
    /\ manifest2 = ZERO
    /\ iccm = [a \in IccmAddrs |-> JUNK]
    /\ ladder = NoLadder
    /\ mbox = NoBundle
    /\ vinfo = NoInfo
    /\ fw_error_fatal = NoError
    /\ fw_error_non_fatal = NoError

\* FirmwareProcessor::process up to the successful completion of the
\* firmware-load transaction: the bundle b arrives (FIRMWARE_LOAD in passive
\* mode, RI_DOWNLOAD_FIRMWARE in active mode), its manifest is copied to
\* manifest1, the image is verified; on success the data vault is
\* populated, FMC and runtime are copied to ICCM and the transaction is
\* completed; any error is fatal.
ColdFwProcess(b) ==
    LET r == Verify(b.manifest, b.image, Len(b.image), "ColdReset", Fuses, dv)
    IN /\ pc = "ColdMbox"
       /\ manifest1' = b.manifest
       /\ \/ /\ ~r.ok
             /\ FatalError(r.err)
             /\ UNCHANGED <<dv, iccm>>
          \/ /\ r.ok
             /\ dv' = ColdPopulateVault(dv, r.info)
             /\ iccm' = ColdLoadImage(iccm, b.manifest, b.image)
             /\ pc' = "ColdKeyLadder"
             /\ UNCHANGED <<ladder, fw_error_fatal>>
       /\ UNCHANGED <<manifest2, mbox, vinfo, fw_error_non_fatal>>

\* populate_fw_key_ladder, the last step of process(), after the SoC has
\* seen the firmware load succeed.
ColdKeyLadder ==
    /\ pc = "ColdKeyLadder"
    /\ \/ /\ dv.fw_svn > MAX_FIRMWARE_SVN
          /\ FatalError("FW_PROC_SVN_TOO_LARGE")
       \/ /\ dv.fw_svn <= MAX_FIRMWARE_SVN
          /\ ladder' = MAX_FIRMWARE_SVN - dv.fw_svn
          /\ pc' = "ColdFmcAlias"
          /\ UNCHANGED fw_error_fatal
    /\ UNCHANGED <<dv, manifest1, manifest2, iccm, mbox, vinfo, fw_error_non_fatal>>

\* The rest of the cold-reset flow: FMC alias derivation, register and
\* ICCM lock, cold-boot status Complete, and the hand-off to the FMC.
ColdFmcAlias ==
    /\ pc = "ColdFmcAlias"
    /\ dv' = [dv EXCEPT !.cold_boot_status = "ColdResetComplete"]
    /\ pc' = "Running"
    /\ UNCHANGED <<manifest1, manifest2, iccm, ladder, mbox, vinfo,
                   fw_error_fatal, fw_error_non_fatal>>

-----------------------------------------------------------------------------
(* Update reset.                                                           *)

\* The running firmware triggers an update reset with transaction b
\* pending in the mailbox (a FIRMWARE_LOAD bundle, or another command).
UpdateReset(b) ==
    /\ pc = "Running"
    /\ pc' = "UpdStart"
    /\ mbox' = b
    /\ UNCHANGED <<dv, manifest1, manifest2, iccm, ladder, vinfo,
                   fw_error_fatal, fw_error_non_fatal>>

\* UpdateResetFlow::run: record that an update reset has started, then take
\* the pending mailbox transaction.
UpdStart ==
    /\ pc = "UpdStart"
    /\ dv' = [dv EXCEPT !.update_reset_status = "UpdateResetStarted"]
    /\ pc' = "UpdVerify"
    /\ UNCHANGED <<manifest1, manifest2, iccm, ladder, mbox, vinfo,
                   fw_error_fatal, fw_error_non_fatal>>

\* A command other than FIRMWARE_LOAD is refused; otherwise load_manifest
\* into manifest2, then verify_image with reason UpdateReset.
UpdVerify ==
    LET r == Verify(mbox.manifest, mbox.image, Len(mbox.image), "UpdateReset",
                    Fuses, dv)
    IN /\ pc = "UpdVerify"
       /\ \/ /\ mbox = OtherCommand
             /\ UpdateFailed("ROM_UPDATE_RESET_FLOW_INVALID_FIRMWARE_COMMAND")
             /\ UNCHANGED manifest2
          \/ /\ mbox # OtherCommand
             /\ manifest2' = mbox.manifest
             /\ ~r.ok
             /\ UpdateFailed(r.err)
          \/ /\ mbox # OtherCommand
             /\ manifest2' = mbox.manifest
             /\ r.ok
             /\ vinfo' = r.info
             /\ pc' = "UpdPopulate"
             /\ UNCHANGED <<mbox, fw_error_non_fatal>>
       /\ UNCHANGED <<dv, manifest1, iccm, ladder, fw_error_fatal>>

\* Mutant: the ladder rebuilt for the new SVN instead of extended by the
\* min-SVN decrement.
UpdPopulateReinit ==
    LET old_min == dv.fw_min_svn
        new_min == IF vinfo.fw_svn < old_min THEN vinfo.fw_svn ELSE old_min
    IN /\ pc = "UpdPopulate"
       /\ dv' = [dv EXCEPT !.rt_tci = vinfo.runtime.digest,
                           !.fw_svn = vinfo.fw_svn,
                           !.fw_min_svn = new_min]
       /\ ladder' = IF ladder = NoLadder THEN NoLadder ELSE MAX_FIRMWARE_SVN - vinfo.fw_svn
       /\ pc' = "UpdLoad"
       /\ UNCHANGED <<mbox, vinfo, fw_error_non_fatal, manifest1, manifest2, iccm,
                      fw_error_fatal>>

\* populate_data_vault (runtime TCI, SVN, min-SVN and the key-ladder
\* extension by the min-SVN decrement), then extend_pcrs.  An engine failure
\* in the ladder extension (after some of its steps) or in the PCR extension
\* ends the flow after the vault writes.
UpdPopulate ==
    LET old_min == dv.fw_min_svn
        new_min == IF vinfo.fw_svn < old_min THEN vinfo.fw_svn ELSE old_min
        decrement_by == old_min - new_min
    IN /\ pc = "UpdPopulate"
       /\ dv' = [dv EXCEPT !.rt_tci = vinfo.runtime.digest,
                           !.fw_svn = vinfo.fw_svn,
                           !.fw_min_svn = new_min]
       /\ \/ /\ ladder' = ExtendLadder(ladder, decrement_by)
             /\ pc' = "UpdLoad"
             /\ UNCHANGED <<mbox, vinfo, fw_error_non_fatal>>
          \/ /\ "KeyLadder" \in Faults
             /\ ladder' \in {ExtendLadder(ladder, k) : k \in 0..(decrement_by - 1)}
             /\ UpdateFailed("KEY_LADDER_ENGINE_FAILURE")
          \/ /\ "ExtendPcrs" \in Faults
             /\ ladder' = ExtendLadder(ladder, decrement_by)
             /\ UpdateFailed("PCR_EXTEND_ENGINE_FAILURE")
       /\ UNCHANGED <<manifest1, manifest2, iccm, fw_error_fatal>>

\* Mutant: the FMC words are not dropped before the runtime is copied.
UpdLoadNoDrop ==
    LET m == manifest2
        rt_bytes == SramRead(mbox.image, ManifestSize, WordBytes(m.runtime.size))
    IN /\ pc = "UpdLoad"
       /\ iccm' = IccmWrite(iccm, m.runtime.load_addr, rt_bytes)
       /\ pc' = "UpdCommit"
       /\ UNCHANGED <<mbox, vinfo, fw_error_non_fatal, dv, manifest1, manifest2, ladder,
                      fw_error_fatal>>

\* load_image: drop the FMC's size/4 words from the mailbox stream, copy
\* the runtime's size/4 words to its load address, complete the
\* transaction.  A failing copy leaves a prefix of the runtime written.
UpdLoad ==
    LET m == manifest2
        rt_bytes == SramRead(mbox.image, ManifestSize + WordBytes(m.fmc.size),
                             WordBytes(m.runtime.size))
    IN /\ pc = "UpdLoad"
       /\ \/ /\ iccm' = IccmWrite(iccm, m.runtime.load_addr, rt_bytes)
             /\ pc' = "UpdCommit"
             /\ UNCHANGED <<mbox, vinfo, fw_error_non_fatal>>
          \/ /\ "LoadImage" \in Faults
             /\ \E n \in 0..Len(rt_bytes) :
                   iccm' = IccmWrite(iccm, m.runtime.load_addr, SubSeq(rt_bytes, 1, n))
             /\ UpdateFailed("LOAD_IMAGE_ENGINE_FAILURE")
       /\ UNCHANGED <<dv, manifest1, manifest2, ladder, fw_error_fatal>>

\* Release the transaction, copy manifest2 to manifest1, record that the
\* update reset completed, and launch the FMC.
UpdCommit ==
    /\ pc = "UpdCommit"
    /\ manifest1' = manifest2
    /\ dv' = [dv EXCEPT !.update_reset_status = "UpdateResetComplete"]
    /\ pc' = "Running"
    /\ mbox' = NoBundle
    /\ vinfo' = NoInfo
    /\ UNCHANGED <<manifest2, iccm, ladder, fw_error_fatal, fw_error_non_fatal>>

-----------------------------------------------------------------------------
(* Resets that may strike at any step.                                     *)

\* A cold reset (power cycle) restarts the ROM from scratch.
ColdReset ==
    /\ pc' = "ColdMbox"
    /\ dv' = ColdVault
    /\ manifest1' = ZERO
    /\ manifest2' = ZERO
    /\ iccm' = [a \in IccmAddrs |-> JUNK]
    /\ ladder' = NoLadder
    /\ mbox' = NoBundle
    /\ vinfo' = NoInfo
    /\ fw_error_fatal' = NoError
    /\ fw_error_non_fatal' = NoError

\* WarmResetFlow: the FMC is relaunched only if the cold boot completed and
\* no update reset was left half done; the vault and ICCM are kept.
WarmReset ==
    /\ mbox' = NoBundle
    /\ vinfo' = NoInfo
    /\ \/ /\ dv.cold_boot_status # "ColdResetComplete"
          /\ FatalError("ROM_WARM_RESET_UNSUCCESSFUL_PREVIOUS_COLD_RESET")
       \/ /\ dv.cold_boot_status = "ColdResetComplete"
          /\ dv.update_reset_status = "UpdateResetStarted"
          /\ FatalError("ROM_WARM_RESET_UNSUCCESSFUL_PREVIOUS_UPDATE_RESET")
       \/ /\ dv.cold_boot_status = "ColdResetComplete"
          /\ dv.update_reset_status # "UpdateResetStarted"
          /\ pc' = "Running"
          /\ UNCHANGED <<ladder, fw_error_fatal>>
    /\ UNCHANGED <<dv, manifest1, manifest2, iccm, fw_error_non_fatal>>

\* flow::run on ResetReason::Unknown: fatal.
UnknownReset ==
    /\ FatalError("ROM_UNKNOWN_RESET_FLOW")
    /\ mbox' = NoBundle
    /\ vinfo' = NoInfo
    /\ UNCHANGED <<dv, manifest1, manifest2, iccm, fw_error_non_fatal>>

Next ==
    \/ \E b \in Bundles : ColdFwProcess(b)
    \/ ColdKeyLadder
    \/ ColdFmcAlias
    \/ \E b \in Bundles \cup {OtherCommand} : UpdateReset(b)
    \/ UpdStart
    \/ UpdVerify
    \/ UpdPopulate
    \/ UpdLoad
    \/ UpdCommit
    \/ ColdReset
    \/ WarmReset
    \/ UnknownReset

Spec == Init /\ [][Next]_vars

-----------------------------------------------------------------------------
(* Properties.                                                             *)

\* Every state variable has the shape the flows give it.
TypeOK ==
    /\ pc \in Phases
    /\ dv \in [fmc_tci : {ZERO} \cup {b.manifest.fmc.digest : b \in Bundles},
               rt_tci : {ZERO} \cup {b.manifest.runtime.digest : b \in Bundles},
               owner_pk_hash : {ZERO} \cup
                   {Sha384(b.manifest.preamble.owner_pub_keys) : b \in Bundles},
               vendor_ecc_pk_index : Nat, vendor_pqc_pk_index : Nat,
               fw_svn : Nat, fw_min_svn : Nat,
               cold_boot_status : {"None", "ColdResetComplete"},
               update_reset_status : {"None", "UpdateResetStarted",
                                      "UpdateResetComplete"}]
    /\ manifest1 \in {ZERO} \cup {b.manifest : b \in Bundles}
    /\ manifest2 \in {ZERO} \cup {b.manifest : b \in Bundles}
    /\ iccm \in [IccmAddrs -> {JUNK} \cup BundleBytes]
    /\ ladder \in {NoLadder} \cup 0..MAX_FIRMWARE_SVN
    /\ mbox \in {NoBundle, OtherCommand} \cup Bundles
    /\ vinfo \in {NoInfo} \cup {VerificationInfo(b.manifest, Fuses) : b \in Bundles}
    /\ fw_error_fatal \in STRING
    /\ fw_error_non_fatal \in STRING

\* Whenever the FMC runs after a flow that the data vault records as
\* complete (cold boot, or update reset not left Started), the ICCM holds,
\* at the load ranges of manifest1, exactly the FMC and runtime whose
\* digests the vault holds as FMC and runtime TCI: what is measured is what
\* was loaded (fw_processor/update_reset load_image against verify_fmc,
\* verify_runtime and populate_data_vault).
RunningCodeMeasured ==
    pc = "Running" /\ dv.update_reset_status # "UpdateResetStarted" =>
        /\ Sha384(IccmRead(iccm, manifest1.fmc.load_addr, manifest1.fmc.size))
               = dv.fmc_tci
        /\ Sha384(IccmRead(iccm, manifest1.runtime.load_addr, manifest1.runtime.size))
               = dv.rt_tci

\* Whenever the FMC runs, the manifest it runs from carries the owner keys,
\* vendor key indices and FMC digest the cold boot committed to the data
\* vault, and, unless an update reset was left half done, the runtime
\* digest and SVN the vault holds: the update-reset equality checks of the
\* verifier pin what a cold boot committed.
VaultDescribesRunningManifest ==
    pc = "Running" =>
        /\ Sha384(manifest1.preamble.owner_pub_keys) = dv.owner_pk_hash
        /\ manifest1.preamble.vendor_ecc_pub_key_idx = dv.vendor_ecc_pk_index
        /\ manifest1.preamble.vendor_pqc_pub_key_idx = dv.vendor_pqc_pk_index
        /\ manifest1.fmc.digest = dv.fmc_tci
        /\ dv.update_reset_status # "UpdateResetStarted" =>
               /\ manifest1.runtime.digest = dv.rt_tci
               /\ manifest1.header.svn = dv.fw_svn

\* Whenever the FMC runs after flows the vault records as complete and the
\* key vault holds the ladder, the ladder has exactly MAX_FIRMWARE_SVN -
\* min-SVN links (initialize_key_ladder at cold boot, extend_key_ladder by
\* the min-SVN decrement at each update reset).
KeyLadderMatchesMinSvn ==
    pc = "Running" /\ dv.update_reset_status # "UpdateResetStarted"
        /\ ladder # NoLadder =>
        ladder = MAX_FIRMWARE_SVN - dv.fw_min_svn

\* No step shortens the key ladder while the key vault holds it: an update
\* reset only extends it (a shorter chain would re-derive keys of
\* rolled-back SVNs).
KeyLadderNeverShortened ==
    [][ladder # NoLadder /\ ladder' # NoLadder => ladder' >= ladder]_vars

\* Whenever the FMC runs, every byte of the FMC and runtime load ranges of
\* manifest1 lies in ICCM, counted without u32 wrap-around: verify_fmc and
\* verify_runtime check the wrapped end address, so they rely on the
\* overflowing_add checks of verify_toc having refused a range that wraps.
LoadRangesInIccm ==
    pc = "Running" =>
        \A e \in {manifest1.fmc, manifest1.runtime} :
            e.load_addr..(e.load_addr + e.size - 1) \subseteq IccmAddrs

\* The internal error FW_PROC_SVN_TOO_LARGE ("an internal programming
\* error", populate_fw_key_ladder) is never raised.
NoSvnTooLarge == fw_error_fatal # "FW_PROC_SVN_TOO_LARGE"


=============================================================================
