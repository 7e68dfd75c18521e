---------------------------- MODULE ImageVerifier ----------------------------
(***************************************************************************)
(* The ROM firmware image verifier, image/verify/src/verifier.rs:          *)
(* ImageVerifier::verify and the phase functions it calls, as pure         *)
(* operators of the manifest, the mailbox SRAM image, the bundle size, the *)
(* reset reason, the fuses and the data vault.                             *)
(*                                                                         *)
(* Data abstraction.  A SHA-384 (SHA-512) digest of some data d is the     *)
(* value Sha384(d) (Sha512(d)): digests are equal exactly when the hashed  *)
(* data are (no collisions).  A signature is the record [key, msg] of the  *)
(* key that made it and the digest it signs, so a signature verifies under *)
(* a key and a digest exactly when it was made with them (no forgery).     *)
(* An all-zero digest, key or signature is the model value ZERO.  The      *)
(* mailbox SRAM is a sequence of abstract bytes.  A key descriptor's       *)
(* key_hash array is a function from its indices 0..len-1.  u32 arithmetic *)
(* wraps modulo Word = 2^WordBits.                                         *)
(*                                                                         *)
(* Every check of the code is one entry of Checks, in the order the code   *)
(* performs them; the result is the error of the first check that fails   *)
(* (the code's early returns), or the verification info.  Failures of the *)
(* digest and signature engines themselves are not inputs of Verify: the  *)
(* flows model them as a fault of the whole verification step.           *)
(***************************************************************************)
EXTENDS Integers, Sequences

CONSTANTS
    MANIFEST_MARKER,            \* the marker of a valid manifest
    ManifestSize,               \* size_of::<ImageManifest>() in bytes
    KEY_DESCRIPTOR_VERSION,
    VENDOR_ECC_MAX_KEY_COUNT,
    VENDOR_LMS_MAX_KEY_COUNT,
    VENDOR_MLDSA_MAX_KEY_COUNT,
    MAX_FIRMWARE_SVN,
    IccmStart, IccmEnd,         \* env.iccm_range() == IccmStart..IccmEnd
    WordBits,                   \* bits of a u32 in the model
    ZERO                        \* an all-zero digest, key or signature

ASSUME VerifierAssumption ==
    /\ WordBits \in 1..30
    /\ ManifestSize \in Nat \ {0}
    /\ {VENDOR_ECC_MAX_KEY_COUNT, VENDOR_LMS_MAX_KEY_COUNT,
        VENDOR_MLDSA_MAX_KEY_COUNT} \subseteq 1..32
    /\ MAX_FIRMWARE_SVN \in Nat
    /\ IccmStart \in Nat /\ IccmEnd \in Nat /\ IccmStart < IccmEnd

Word == 2^WordBits
MAX_TOC_ENTRY_COUNT == 2

PqcKeyTypes == {"LMS", "MLDSA"}

Sha384(d) == <<"SHA384", d>>
Sha512(d) == <<"SHA512", d>>

\* ecc384_verify, lms_verify and mldsa87_verify accept the signature.
SigValid(sig, key, digest) == sig = [key |-> key, msg |-> digest]

\* Range::contains on env.iccm_range().
InIccm(a) == IccmStart <= a /\ a < IccmEnd

\* Bit b of a u32 fuse word.
BitSet(word, b) == (word \div 2^b) % 2 = 1

\* key_hash_count as u32 - 1, wrapping when the count is 0.
LastKeyIdx(count) == (count - 1) % Word

\* VendorEccPubKeyRevocation::from_bits_truncate(0x01u32 << key_idx) is
\* contained in the revocation fuse: the shift amount is masked to 5 bits,
\* a bit above the defined ones truncates to the empty set, which every
\* bitmask contains.
EccKeyRevoked(revocation, idx) ==
    LET b == idx % 32 IN
    b >= VENDOR_ECC_MAX_KEY_COUNT \/ BitSet(revocation, b)

\* revocation & (0x01u32 << key_idx) != 0
PqcKeyRevoked(revocation, idx) == BitSet(revocation, idx % 32)

PqcRevocation(fz, pqc) ==
    IF pqc = "LMS" THEN fz.vendor_lms_revocation ELSE fz.vendor_mldsa_revocation

PqcMaxKeyCount(pqc) ==
    IF pqc = "LMS" THEN VENDOR_LMS_MAX_KEY_COUNT ELSE VENDOR_MLDSA_MAX_KEY_COUNT

\* The header bytes up to owner_data: what the vendor signs.
VendorHeader(h) == [f \in DOMAIN h \ {"owner_data"} |-> h[f]]

\* The digest a PQC signature is made over: SHA-384 for LMS, SHA-512 for MLDSA.
PqcDigest(pqc, d) == IF pqc = "LMS" THEN Sha384(d) ELSE Sha512(d)

\* A TOC entry's image range, and the SRAM holds it.
InSram(image, e) == e.offset + e.size <= Len(image)
ImageDigest(image, e) == Sha384(SubSeq(image, e.offset + 1, e.offset + e.size))

\* load_addr.overflowing_add(size - 1): whether it overflows, and the
\* wrapped end address it returns (also what load_addr + size - 1 gives in
\* verify_fmc and verify_runtime, whose comment relies on verify_toc).
LoadOverflow(e) == e.load_addr + e.size - 1 >= Word
LoadEnd(e) == (e.load_addr + e.size - 1) % Word

\* svn_check_required
SvnCheckRequired(fz) ==
    fz.lifecycle # "Unprovisioned" /\ ~fz.anti_rollback_disable

\* Each verify_* function below is the list of its checks in code order,
\* as <<fails, error>> pairs; the first failing check of verify() is its
\* error.  A later check may read what an earlier one rules out (an index
\* into key_hash), so such reads are guarded by the earlier condition.

\* verify: manifest marker, manifest size, PQC key type and its fuse.
ManifestChecks(m, fz) ==
  << <<m.marker # MANIFEST_MARKER, "MANIFEST_MARKER_MISMATCH">>,
     <<m.size # ManifestSize, "MANIFEST_SIZE_MISMATCH">>,
     <<m.pqc_key_type \notin PqcKeyTypes, "PQC_KEY_TYPE_INVALID">>,
     <<m.pqc_key_type # fz.pqc_key_type, "PQC_KEY_TYPE_MISMATCH">> >>

\* verify_vendor_pub_key_info_digest: skipped on an unprovisioned part.
VendorPubKeyInfoChecks(m, fz) ==
  LET pqc == m.pqc_key_type
      info == m.preamble.vendor_pub_key_info
      ecc_desc == info.ecc_key_descriptor
      pqc_desc == info.pqc_key_descriptor
      checked == fz.lifecycle # "Unprovisioned"
  IN
  << <<checked /\ fz.vendor_pub_key_info_hash = ZERO, "VENDOR_PUB_KEY_DIGEST_INVALID">>,
     <<checked /\ ecc_desc.version # KEY_DESCRIPTOR_VERSION,
       "ECC_KEY_DESCRIPTOR_VERSION_MISMATCH">>,
     <<checked /\ ecc_desc.key_hash_count = 0, "ECC_KEY_DESCRIPTOR_INVALID_HASH_COUNT">>,
     <<checked /\ ecc_desc.key_hash_count > VENDOR_ECC_MAX_KEY_COUNT,
       "ECC_KEY_DESCRIPTOR_HASH_COUNT_GT_MAX">>,
     <<checked /\ pqc_desc.version # KEY_DESCRIPTOR_VERSION,
       "PQC_KEY_DESCRIPTOR_VERSION_MISMATCH">>,
     <<checked /\ pqc_desc.key_type # pqc, "PQC_KEY_DESCRIPTOR_TYPE_MISMATCH">>,
     <<checked /\ pqc_desc.key_hash_count = 0, "PQC_KEY_DESCRIPTOR_INVALID_HASH_COUNT">>,
     <<checked /\ pqc_desc.key_hash_count > PqcMaxKeyCount(pqc),
       "PQC_KEY_DESCRIPTOR_HASH_COUNT_GT_MAX">>,
     <<checked /\ Sha384(info) # fz.vendor_pub_key_info_hash,
       "VENDOR_PUB_KEY_DIGEST_MISMATCH">> >>

\* verify_active_ecc_pub_key_digest and verify_active_pqc_pub_key_digest,
\* the tail of verify_vendor_pub_key_info_digest.
ActiveKeyChecks(m, fz) ==
  LET pre == m.preamble
      ecc_hashes == pre.vendor_pub_key_info.ecc_key_descriptor.key_hash
      pqc_hashes == pre.vendor_pub_key_info.pqc_key_descriptor.key_hash
      ecc_idx == pre.vendor_ecc_pub_key_idx
      pqc_idx == pre.vendor_pqc_pub_key_idx
      checked == fz.lifecycle # "Unprovisioned"
      pqc_idx_ok == pqc_idx \in DOMAIN pqc_hashes /\ pqc_idx < PqcMaxKeyCount(m.pqc_key_type)
  IN
  << <<checked /\ ecc_idx \notin DOMAIN ecc_hashes, "VENDOR_ECC_PUB_KEY_INDEX_OUT_OF_BOUNDS">>,
     <<checked /\ ecc_idx \in DOMAIN ecc_hashes
               /\ ecc_hashes[ecc_idx] # Sha384(pre.vendor_ecc_active_pub_key),
       "VENDOR_ECC_PUB_KEY_DIGEST_MISMATCH">>,
     <<checked /\ ~pqc_idx_ok, "VENDOR_PQC_PUB_KEY_INDEX_OUT_OF_BOUNDS">>,
     <<checked /\ pqc_idx_ok
               /\ pqc_hashes[pqc_idx] # Sha384(pre.vendor_pqc_active_pub_key),
       "VENDOR_PQC_PUB_KEY_DIGEST_MISMATCH">> >>

\* Mutant: the update-reset comparison with the cold-boot owner digest
\* left out.
OwnerPkDigestChecksNoUpdate(m, reason, fz, dv) ==
  << <<fz.owner_pub_key_hash # ZERO /\ fz.owner_pub_key_hash # Sha384(m.preamble.owner_pub_keys),
       "OWNER_PUB_KEY_DIGEST_MISMATCH">> >>

\* verify_owner_pk_digest: against the fuses unless they are zero, and on
\* an update reset against the digest the cold boot put in the data vault.
OwnerPkDigestChecks(m, reason, fz, dv) ==
  LET actual == Sha384(m.preamble.owner_pub_keys) IN
  << <<fz.owner_pub_key_hash # ZERO /\ fz.owner_pub_key_hash # actual,
       "OWNER_PUB_KEY_DIGEST_MISMATCH">>,
     <<reason = "UpdateReset" /\ dv.owner_pk_hash # actual,
       "UPDATE_RESET_OWNER_DIGEST_FAILURE">> >>

\* verify_vendor_ecc_pk_idx
VendorEccPkIdxChecks(m, reason, fz, dv) ==
  LET key_idx == m.preamble.vendor_ecc_pub_key_idx
      last == LastKeyIdx(m.preamble.vendor_pub_key_info.ecc_key_descriptor.key_hash_count)
  IN
  << <<key_idx > last, "VENDOR_ECC_PUB_KEY_INDEX_OUT_OF_BOUNDS">>,
     <<key_idx # last /\ EccKeyRevoked(fz.vendor_ecc_revocation, key_idx),
       "VENDOR_ECC_PUB_KEY_REVOKED">>,
     <<reason = "UpdateReset" /\ dv.vendor_ecc_pk_index # key_idx,
       "UPDATE_RESET_VENDOR_ECC_PUB_KEY_IDX_MISMATCH">> >>

\* verify_vendor_pqc_pk_idx, with the revocation fuse of the key type.
VendorPqcPkIdxChecks(m, reason, fz, dv) ==
  LET key_idx == m.preamble.vendor_pqc_pub_key_idx
      last == LastKeyIdx(m.preamble.vendor_pub_key_info.pqc_key_descriptor.key_hash_count)
  IN
  << <<key_idx > last, "VENDOR_PQC_PUB_KEY_INDEX_OUT_OF_BOUNDS">>,
     <<key_idx # last /\ PqcKeyRevoked(PqcRevocation(fz, m.pqc_key_type), key_idx),
       "VENDOR_PQC_PUB_KEY_REVOKED">>,
     <<reason = "UpdateReset" /\ dv.vendor_pqc_pk_index # key_idx,
       "UPDATE_RESET_VENDOR_PQC_PUB_KEY_IDX_MISMATCH">> >>

\* verify_ecc_sig, and the ECC half of verify_vendor_sig: a zero key, a
\* zero signature, then ecc384_verify; the errors of the vendor ("VENDOR")
\* or the owner ("OWNER").
EccSigChecks(who, key, sig, digest) ==
  << <<key = ZERO, who \o "_ECC_PUB_KEY_INVALID_ARG">>,
     <<sig = ZERO, who \o "_ECC_SIGNATURE_INVALID_ARG">>,
     <<~SigValid(sig, key, digest), who \o "_ECC_SIGNATURE_INVALID">> >>

\* verify_lms_sig (the SHA-384 digest) or verify_mldsa_sig (the SHA-512
\* digest), as the PQC key type selects.
PqcSigChecks(who, pqc, key, sig, data) ==
  << <<~SigValid(sig, key, PqcDigest(pqc, data)),
       who \o "_" \o pqc \o "_SIGNATURE_INVALID">> >>

\* verify_vendor_sig: the vendor ECC and PQC signatures over the vendor
\* part of the header (up to owner_data).
VendorSigChecks(pre, h, pqc) ==
  EccSigChecks("VENDOR", pre.vendor_ecc_active_pub_key, pre.vendor_sigs.ecc_sig,
               Sha384(VendorHeader(h)))
  \o PqcSigChecks("VENDOR", pqc, pre.vendor_pqc_active_pub_key,
                  pre.vendor_sigs.pqc_sig, VendorHeader(h))

\* verify_owner_sig: the owner ECC and PQC signatures over the whole header.
OwnerSigChecks(pre, h, pqc) ==
  EccSigChecks("OWNER", pre.owner_pub_keys.ecc_pub_key, pre.owner_sigs.ecc_sig, Sha384(h))
  \o PqcSigChecks("OWNER", pqc, pre.owner_pub_keys.pqc_pub_key, pre.owner_sigs.pqc_sig, h)

\* verify_header: the vendor signatures, the header's key indices equal to
\* the ones verified with, the owner signatures.  (The digest holder has a
\* SHA-512 digest exactly when the key type is MLDSA, so the
\* *_MLDSA_DIGEST_MISSING errors cannot occur.)
HeaderChecks(m) ==
  LET pre == m.preamble
      h == m.header
  IN
  VendorSigChecks(pre, h, m.pqc_key_type)
  \o << <<h.vendor_ecc_pub_key_idx # pre.vendor_ecc_pub_key_idx,
          "VENDOR_ECC_PUB_KEY_INDEX_MISMATCH">>,
        <<h.vendor_pqc_pub_key_idx # pre.vendor_pqc_pub_key_idx,
          "VENDOR_PQC_PUB_KEY_INDEX_MISMATCH">> >>
  \o OwnerSigChecks(pre, h, m.pqc_key_type)

\* Mutant: verify_toc without the two overflowing_add checks.
TocChecksNoOverflow(m, img_bundle_sz) ==
  LET fmc == m.fmc
      rt == m.runtime
  IN
  << <<m.header.toc_len # MAX_TOC_ENTRY_COUNT, "TOC_ENTRY_COUNT_INVALID">>,
     <<Sha384(<<fmc, rt>>) # m.header.toc_digest, "TOC_DIGEST_MISMATCH">>,
     <<fmc.size = 0, "FMC_SIZE_ZERO">>,
     <<rt.size = 0, "RUNTIME_SIZE_ZERO">>,
     <<m.size + fmc.size + rt.size > img_bundle_sz, "IMAGE_LEN_MORE_THAN_BUNDLE_SIZE">>,
     <<fmc.offset < rt.offset + rt.size /\ fmc.offset + fmc.size > rt.offset,
       "FMC_RUNTIME_OVERLAP">>,
     <<fmc.offset + fmc.size > rt.offset, "FMC_RUNTIME_INCORRECT_ORDER">>,
     <<fmc.load_addr <= LoadEnd(rt) /\ LoadEnd(fmc) >= rt.load_addr,
       "FMC_RUNTIME_LOAD_ADDR_OVERLAP">> >>

\* verify_toc: entry count, TOC digest, sizes, the images within the
\* bundle, their SRAM ranges disjoint and ordered, load ranges without u32
\* overflow and disjoint.
TocChecks(m, img_bundle_sz) ==
  LET fmc == m.fmc
      rt == m.runtime
  IN
  << <<m.header.toc_len # MAX_TOC_ENTRY_COUNT, "TOC_ENTRY_COUNT_INVALID">>,
     <<Sha384(<<fmc, rt>>) # m.header.toc_digest, "TOC_DIGEST_MISMATCH">>,
     <<fmc.size = 0, "FMC_SIZE_ZERO">>,
     <<rt.size = 0, "RUNTIME_SIZE_ZERO">>,
     <<m.size + fmc.size + rt.size > img_bundle_sz, "IMAGE_LEN_MORE_THAN_BUNDLE_SIZE">>,
     <<fmc.offset < rt.offset + rt.size /\ fmc.offset + fmc.size > rt.offset,
       "FMC_RUNTIME_OVERLAP">>,
     <<fmc.offset + fmc.size > rt.offset, "FMC_RUNTIME_INCORRECT_ORDER">>,
     <<LoadOverflow(fmc), "FMC_LOAD_ADDRESS_IMAGE_SIZE_ARITHMETIC_OVERFLOW">>,
     <<LoadOverflow(rt), "RUNTIME_LOAD_ADDRESS_IMAGE_SIZE_ARITHMETIC_OVERFLOW">>,
     <<fmc.load_addr <= LoadEnd(rt) /\ LoadEnd(fmc) >= rt.load_addr,
       "FMC_RUNTIME_LOAD_ADDR_OVERLAP">> >>

\* verify_fmc: the digest of the bytes at the TOC offset, the load range
\* and entry point in ICCM and aligned, and on an update reset the digest
\* the cold boot recorded as FMC TCI.
FmcChecks(m, image, reason, dv) ==
  LET fmc == m.fmc IN
  << <<~InSram(image, fmc), "FMC_DIGEST_FAILURE">>,
     <<InSram(image, fmc) /\ ImageDigest(image, fmc) # fmc.digest, "FMC_DIGEST_MISMATCH">>,
     <<~InIccm(fmc.load_addr) \/ ~InIccm(LoadEnd(fmc)),
       "FMC_LOAD_ADDR_INVALID">>,
     <<fmc.load_addr % 4 # 0, "FMC_LOAD_ADDR_UNALIGNED">>,
     <<~InIccm(fmc.entry_point), "FMC_ENTRY_POINT_INVALID">>,
     <<fmc.entry_point % 4 # 0, "FMC_ENTRY_POINT_UNALIGNED">>,
     <<reason = "UpdateReset" /\ ImageDigest(image, fmc) # dv.fmc_tci,
       "UPDATE_RESET_FMC_DIGEST_MISMATCH">> >>

\* verify_runtime
RuntimeChecks(m, image) ==
  LET rt == m.runtime IN
  << <<~InSram(image, rt), "RUNTIME_DIGEST_FAILURE">>,
     <<InSram(image, rt) /\ ImageDigest(image, rt) # rt.digest, "RUNTIME_DIGEST_MISMATCH">>,
     <<~InIccm(rt.load_addr) \/ ~InIccm(LoadEnd(rt)),
       "RUNTIME_LOAD_ADDR_INVALID">>,
     <<rt.load_addr % 4 # 0, "RUNTIME_LOAD_ADDR_UNALIGNED">>,
     <<~InIccm(rt.entry_point), "RUNTIME_ENTRY_POINT_INVALID">>,
     <<rt.entry_point % 4 # 0, "RUNTIME_ENTRY_POINT_UNALIGNED">> >>

\* verify_svn
SvnChecks(m, fz) ==
  << <<SvnCheckRequired(fz) /\ m.header.svn > MAX_FIRMWARE_SVN,
       "FIRMWARE_SVN_GREATER_THAN_MAX_SUPPORTED">>,
     <<SvnCheckRequired(fz) /\ m.header.svn < fz.fw_fuse_svn,
       "FIRMWARE_SVN_LESS_THAN_FUSE">> >>

\* The checks of verify(), in the order verify and verify_preamble call them.
Checks(m, image, img_bundle_sz, reason, fz, dv) ==
    ManifestChecks(m, fz) \o VendorPubKeyInfoChecks(m, fz) \o ActiveKeyChecks(m, fz)
    \o OwnerPkDigestChecks(m, reason, fz, dv) \o VendorEccPkIdxChecks(m, reason, fz, dv)
    \o VendorPqcPkIdxChecks(m, reason, fz, dv) \o HeaderChecks(m)
    \o TocChecks(m, img_bundle_sz) \o FmcChecks(m, image, reason, dv)
    \o RuntimeChecks(m, image) \o SvnChecks(m, fz)

\* The ImageVerificationExeInfo of a TOC entry.
ExeInfo(e) ==
    [load_addr |-> e.load_addr, entry_point |-> e.entry_point,
     digest |-> e.digest, size |-> e.size]

\* The ImageVerificationInfo that verify() returns on success.
VerificationInfo(m, fz) ==
    [vendor_ecc_pub_key_idx |-> m.preamble.vendor_ecc_pub_key_idx,
     vendor_pqc_pub_key_idx |-> m.preamble.vendor_pqc_pub_key_idx,
     owner_pub_keys_digest |-> Sha384(m.preamble.owner_pub_keys),
     owner_pub_keys_digest_in_fuses |-> fz.owner_pub_key_hash # ZERO,
     fmc |-> ExeInfo(m.fmc),
     runtime |-> ExeInfo(m.runtime),
     fw_svn |-> m.header.svn,
     effective_fuse_svn |-> IF fz.anti_rollback_disable THEN 0 ELSE fz.fw_fuse_svn,
     pqc_key_type |-> m.pqc_key_type]

\* ImageVerifier::verify(manifest, img_bundle_sz, reason)
Verify(m, image, img_bundle_sz, reason, fz, dv) ==
  LET checks == Checks(m, image, img_bundle_sz, reason, fz, dv)
      failed == {i \in DOMAIN checks : checks[i][1]}
  IN IF failed = {}
     THEN [ok |-> TRUE, info |-> VerificationInfo(m, fz)]
     ELSE [ok |-> FALSE,
           err |-> checks[CHOOSE i \in failed : \A j \in failed : i <= j][2]]
=============================================================================
