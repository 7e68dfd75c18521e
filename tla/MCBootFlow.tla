------------------------------ MODULE MCBootFlow ------------------------------
(***************************************************************************)
(* Model-checking instances of BootFlow.  An image is a few abstract      *)
(* bytes: a 4-byte manifest, a 4-byte FMC and a 4-byte runtime, loaded     *)
(* into a 16-byte ICCM.  Bundles are built the way the image builder       *)
(* builds them (TOC offsets at the concatenation positions, digests of the *)
(* images, signatures by the named keys over the header digests), from a   *)
(* base bundle with some fields changed.                                   *)
(***************************************************************************)
EXTENDS BootFlow, TLC

MCManifestSize == 4
MCMaxSvn == 3

FmcA == <<"fa0", "fa1", "fa2", "fa3">>
FmcB == <<"fb0", "fb1", "fb2", "fb3">>
Rt1 == <<"r10", "r11", "r12", "r13">>
Rt2 == <<"r20", "r21", "r22", "r23">>
Rt3 == <<"r30", "r31", "r32", "r33">>
ManifestBytes == <<"m0", "m1", "m2", "m3">>

\* The vendor key descriptors: two ECC keys, one PQC key, in arrays of the
\* maximal key counts padded with zero digests.
VendorInfo(pqc) ==
    [ecc_key_descriptor |->
        [version |-> 1, key_hash_count |-> 2,
         key_hash |-> [i \in 0..(VENDOR_ECC_MAX_KEY_COUNT - 1) |->
                          IF i = 0 THEN Sha384("VE0")
                          ELSE IF i = 1 THEN Sha384("VE1") ELSE ZERO]],
     pqc_key_descriptor |->
        [version |-> 1, key_type |-> pqc, key_hash_count |-> 1,
         key_hash |-> [i \in 0..(VENDOR_LMS_MAX_KEY_COUNT - 1) |->
                          IF i = 0 THEN Sha384("VP0") ELSE ZERO]]]

VendorEccKey == <<"VE0", "VE1">>

\* A bundle as the image builder makes it from the parameters p.
MkBundle(p) ==
  LET fmc == [offset |-> MCManifestSize, size |-> Len(p.fmc),
              load_addr |-> p.fmc_load, entry_point |-> p.fmc_load,
              digest |-> Sha384(p.fmc)]
      rt == [offset |-> MCManifestSize + Len(p.fmc), size |-> Len(p.rt),
             load_addr |-> p.rt_load, entry_point |-> p.rt_load,
             digest |-> Sha384(p.rt)]
      h == [vendor_ecc_pub_key_idx |-> p.ecc_idx, vendor_pqc_pub_key_idx |-> 0,
            toc_len |-> 2, toc_digest |-> Sha384(<<fmc, rt>>), svn |-> p.svn,
            owner_data |-> "owner_data"]
      owner_keys == [ecc_pub_key |-> p.owner, pqc_pub_key |-> "OP"]
      pre == [vendor_pub_key_info |-> VendorInfo(p.pqc),
              vendor_ecc_pub_key_idx |-> p.ecc_idx,
              vendor_pqc_pub_key_idx |-> 0,
              vendor_ecc_active_pub_key |-> VendorEccKey[p.ecc_idx + 1],
              vendor_pqc_active_pub_key |-> "VP0",
              vendor_sigs |->
                 [ecc_sig |-> [key |-> p.signer, msg |-> Sha384(VendorHeader(h))],
                  pqc_sig |-> [key |-> "VP0", msg |-> PqcDigest(p.pqc, VendorHeader(h))]],
              owner_pub_keys |-> owner_keys,
              owner_sigs |->
                 [ecc_sig |-> [key |-> p.owner, msg |-> Sha384(h)],
                  pqc_sig |-> [key |-> "OP", msg |-> PqcDigest(p.pqc, h)]]]
      m == [marker |-> "MARKER", size |-> MCManifestSize, pqc_key_type |-> p.pqc,
            preamble |-> pre, header |-> h, fmc |-> fmc, runtime |-> rt]
  IN [manifest |-> m, image |-> ManifestBytes \o p.fmc \o p.rt]

Base(pqc) ==
    [fmc |-> FmcA, rt |-> Rt1, svn |-> 2, fmc_load |-> 0, rt_load |-> 8,
     owner |-> "OE", ecc_idx |-> 1, signer |-> "VE1", pqc |-> pqc]

\* Bundles an update reset must refuse: another owner, another FMC,
\* another vendor key index (revoked, and refused at cold boot too), a
\* signature by the wrong vendor key, an SVN below the fuse SVN.
OtherOwnerBundle(pqc) == MkBundle([owner |-> "OE2", rt |-> Rt2] @@ Base(pqc))
OtherFmcBundle(pqc) == MkBundle([fmc |-> FmcB] @@ Base(pqc))
RevokedKeyBundle(pqc) == MkBundle([ecc_idx |-> 0, signer |-> "VE0"] @@ Base(pqc))
BadSignerBundle(pqc) == MkBundle([signer |-> "VE0"] @@ Base(pqc))
RolledBackBundle(pqc) == MkBundle([svn |-> 0, rt |-> Rt2] @@ Base(pqc))

\* A signed bundle whose 29-byte FMC, loaded at 4, ends past 2^WordBits:
\* its end address wraps to 0, inside ICCM.
WrapFmc == [i \in 1..29 |-> "fw"]
WrapBundle == MkBundle([fmc |-> WrapFmc, rt_load |-> 8] @@ [Base("LMS") EXCEPT !.fmc_load = 4])

MCFuses(pqc) ==
    [lifecycle |-> "Production", anti_rollback_disable |-> FALSE,
     vendor_pub_key_info_hash |-> Sha384(VendorInfo(pqc)),
     owner_pub_key_hash |-> ZERO,
     vendor_ecc_revocation |-> 1, vendor_lms_revocation |-> 0,
     vendor_mldsa_revocation |-> 0, fw_fuse_svn |-> 1, pqc_key_type |-> pqc]

\* Passive mode: updates that lower the min-SVN, and updates refused for
\* another owner or an SVN below the fuse SVN.
MCBundlesLms ==
    {MkBundle(Base("LMS")), MkBundle([rt |-> Rt3, svn |-> 1, rt_load |-> 12] @@ Base("LMS")),
     OtherOwnerBundle("LMS"), RolledBackBundle("LMS"), WrapBundle}
MCFusesLms == MCFuses("LMS")


\* Active mode: an update that raises the SVN, refusals for another FMC, a
\* revoked key and a wrong signer, and (with anti-rollback disabled) an SVN
\* above MAX_FIRMWARE_SVN.
MCBundlesMldsa ==
    {MkBundle(Base("MLDSA")), MkBundle([rt |-> Rt2, svn |-> 3] @@ Base("MLDSA")),
     OtherFmcBundle("MLDSA"), RevokedKeyBundle("MLDSA"), BadSignerBundle("MLDSA"),
     MkBundle([svn |-> MCMaxSvn + 1] @@ Base("MLDSA"))}
MCFusesMldsa == [MCFuses("MLDSA") EXCEPT !.anti_rollback_disable = TRUE]
MCLadderPcrFaults == {"KeyLadder", "ExtendPcrs"}
MCPcrLoadFaults == {"ExtendPcrs", "LoadImage"}

\* A signed bundle whose TOC places the FMC one word after the manifest
\* (a gap the builder never leaves): verify hashes the images at their TOC
\* offsets, load_image copies from the concatenation position.
GapBundle ==
  LET b == MkBundle(Base("LMS"))
      m == b.manifest
      fmc == [m.fmc EXCEPT !.offset = MCManifestSize + 4]
      rt == [m.runtime EXCEPT !.offset = MCManifestSize + 8]
      h == [m.header EXCEPT !.toc_digest = Sha384(<<fmc, rt>>)]
      pre == [m.preamble EXCEPT
                !.vendor_sigs = [ecc_sig |-> [key |-> "VE1", msg |-> Sha384(VendorHeader(h))],
                                 pqc_sig |-> [key |-> "VP0", msg |-> PqcDigest("LMS", VendorHeader(h))]],
                !.owner_sigs = [ecc_sig |-> [key |-> "OE", msg |-> Sha384(h)],
                                pqc_sig |-> [key |-> "OP", msg |-> PqcDigest("LMS", h)]]]
  IN [manifest |-> [m EXCEPT !.fmc = fmc, !.runtime = rt, !.header = h, !.preamble = pre],
      image |-> ManifestBytes \o <<"pad0", "pad1", "pad2", "pad3">> \o FmcA \o Rt1]

\* A signed bundle whose FMC is 5 bytes long (not a whole number of words).
OddSizeBundle == MkBundle([fmc |-> FmcA \o <<"fa4">>] @@ Base("LMS"))

\* A signed update that keeps the FMC digest but moves the FMC's load
\* address, putting its runtime where the running FMC sits.
MovedFmcBundle == MkBundle([fmc_load |-> 4, rt_load |-> 0, rt |-> Rt2] @@ Base("LMS"))

\* A signed bundle with an SVN above MAX_FIRMWARE_SVN.
HighSvnBundle == MkBundle([svn |-> MCMaxSvn + 1] @@ Base("LMS"))

MCBundlesGap == {GapBundle}
MCBundlesOddSize == {OddSizeBundle}
MCBundlesMovedFmc == {MkBundle(Base("LMS")), MovedFmcBundle}
MCBundlesHighSvn == {HighSvnBundle}
MCBundlesLadder ==
    {MkBundle(Base("LMS")), MkBundle([rt |-> Rt3, svn |-> 1, rt_load |-> 12] @@ Base("LMS"))}
MCFusesNoRollback == [MCFusesLms EXCEPT !.anti_rollback_disable = TRUE]
MCLadderFault == {"KeyLadder"}
MCNoFaults == {}
=============================================================================
