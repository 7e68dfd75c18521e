------------------------------- MODULE FmcAlias -------------------------------
(***************************************************************************)
(* The FMC alias DICE layer of the cold-reset flow,                        *)
(* rom/dev/src/flow/cold_reset/fmc_alias.rs (FmcAliasLayer::derive), with  *)
(* the key-vault operations of rom/dev/src/crypto.rs it calls.             *)
(*                                                                         *)
(* The layer starts with the LDevID CDI in slot KEY_ID_ROM_FMC_CDI and the *)
(* LDevID (authority) keys in their slots; it derives the FMC alias CDI    *)
(* from PCR0, the alias ECC and MLDSA key pairs from that CDI, signs the   *)
(* two alias certificates with the authority keys, erases those keys and  *)
(* stores signatures, public keys and TBS bytes for the FMC.              *)
(*                                                                         *)
(* Data abstraction.  A key-vault slot holds its material and its usage    *)
(* bits; a read of a slot that is empty or lacks the usage the engine      *)
(* needs fails.  HMAC-KDF, key generation and signing are injective        *)
(* constructors, so a value records exactly what it was derived from, and  *)
(* a signature verifies under the public key of the private key that made  *)
(* it and the TBS it signs.  SHA-256 serial numbers and key identifiers    *)
(* are functions of the public key and are left out of the TBS.            *)
(*                                                                         *)
(* Every error returned by derive is a fatal error of the ROM:             *)
(* handle_fatal_error (rom/dev/src/main.rs) reports it and zeroizes the    *)
(* key vault.  With EngineFaults any engine call may fail.                 *)
(***************************************************************************)
EXTENDS Naturals

CONSTANTS
    Measurements,       \* values PCR0 (PCR_ID_FMC_CURRENT) may hold
    Tcis,               \* values of the data vault's FMC TCI
    SvnValues,          \* values of the firmware SVN populate_data_vault wrote
    Lifecycles,         \* soc_ifc.lifecycle()
    LDevIdCdi,          \* the LDevID layer's CDI
    LDevIdEccPriv,      \* the LDevID ECC private key
    LDevIdMldsaSeed,    \* the LDevID MLDSA key-pair seed
    FuseBank,           \* [anti_rollback_disable, vendor_pub_key_info_hash]
    FwProcInfo,         \* [effective_fuse_svn, pqc_key_type, owner_pub_keys_digest_in_fuses]
    OwnerPkHash,        \* data_vault.owner_pk_hash()
    EngineFaults,       \* whether the HMAC, ECC, MLDSA, SHA and KV engines may fail
    EMPTY               \* the material of an erased key-vault slot

\* caliptra_image_verify::MAX_FIRMWARE_SVN.  populate_fw_key_ladder refuses
\* a larger fw_svn before this layer runs (FW_PROC_SVN_TOO_LARGE).
MAX_FIRMWARE_SVN == 128

ASSUME FmcAliasAssumption ==
    /\ EngineFaults \in BOOLEAN
    /\ SvnValues \subseteq 0..MAX_FIRMWARE_SVN
    /\ LDevIdCdi # EMPTY
    /\ Lifecycles \subseteq {"Unprovisioned", "Manufacturing", "Production"}

\* The key-vault slots the layer uses (rom/dev/src key_ids).
KEY_ID_ROM_FMC_CDI == "ROM_FMC_CDI"
KEY_ID_FMC_ECDSA_PRIV_KEY == "FMC_ECDSA_PRIV_KEY"
KEY_ID_FMC_MLDSA_KEYPAIR_SEED == "FMC_MLDSA_KEYPAIR_SEED"
KEY_ID_TMP == "TMP"
KEY_ID_LDEVID_ECDSA_PRIV_KEY == "LDEVID_ECDSA_PRIV_KEY"
KEY_ID_LDEVID_MLDSA_KEYPAIR_SEED == "LDEVID_MLDSA_KEYPAIR_SEED"
KeyIds == {KEY_ID_ROM_FMC_CDI, KEY_ID_FMC_ECDSA_PRIV_KEY,
           KEY_ID_FMC_MLDSA_KEYPAIR_SEED, KEY_ID_TMP,
           KEY_ID_LDEVID_ECDSA_PRIV_KEY, KEY_ID_LDEVID_MLDSA_KEYPAIR_SEED}

\* The errors: an engine failure, and a key-vault read the engine refuses.
EngineError == "ENGINE_ERROR"
KvReadError == "KV_READ_ERROR"
NoError == "NO_ERROR"

VARIABLES
    pc,             \* the step of derive, "Done" (returned Ok) or "Fatal"
    dev,            \* the device: lifecycle, debug_locked, PCR0
    kv,             \* the key vault: slot -> [mat, usage]
    dv,             \* the data vault entries the layer reads and writes
    out,            \* DiceOutput: the alias public keys
    tbs,            \* the FMC alias TBS buffers of the persistent data
    fw_error_fatal  \* FW_ERROR_FATAL

vars == <<pc, dev, kv, dv, out, tbs, fw_error_fatal>>

-----------------------------------------------------------------------------
(* Engines.                                                                *)

NoContext == "None"
HmacKdf(key, label, context) == <<"HMAC_KDF", key, label, context>>
EccPrivOf(seed) == <<"ECC_PRIV", seed>>
EccPubOf(priv) == <<"ECC_PUB", priv>>
MldsaPubOf(seed) == <<"MLDSA_PUB", seed>>
\* The KDF's output is a new key: deriving the alias CDI over the LDevID CDI
\* never yields the LDevID CDI itself.
ASSUME KdfAssumption ==
    \A m \in Measurements : HmacKdf(LDevIdCdi, "alias_fmc_cdi", m) # LDevIdCdi

Sign(priv, data) == [key |-> priv, tbs |-> data]
\* ecdsa384 / mldsa87 verification of sig over data under pub.
EccVerifies(pub, sig, data) == pub = EccPubOf(sig.key) /\ sig.tbs = data
MldsaVerifies(pub, sig, data) == pub = MldsaPubOf(sig.key) /\ sig.tbs = data

Slot(m, u) == [mat |-> m, usage |-> u]
Erased == Slot(EMPTY, {})
\* The usage Crypto::hmac_kdf gives its output slot.
KdfUsage == {"hmac_key", "ecc_key_gen_seed", "mldsa_key_gen_seed"}

\* An engine may read slot s of vault k for usage u.
Usable(k, s, u) == k[s].mat # EMPTY /\ u \in k[s].usage

\* handle_fatal_error: report e, zeroize the key vault, halt.
Fatal(e) ==
    /\ pc' = "Fatal"
    /\ fw_error_fatal' = e
    /\ kv' = [s \in KeyIds |-> Erased]

\* An engine call sequence of a key-derivation step whose key-vault reads
\* are all allowed when ok: it takes the step Ok, or it fails (a refused
\* read, or an engine fault) and the DiceOutput is never built.
EngineCall(ok, Ok) ==
    \/ ok /\ Ok
    \/ /\ ~ok \/ EngineFaults
       /\ Fatal(IF ok THEN EngineError ELSE KvReadError)
       /\ UNCHANGED out

\* make_flags: FIXED_WIDTH, NOT_CONFIGURED when unprovisioned, NOT_SECURE in
\* manufacturing, DEBUG when debug is unlocked (as a set of flag bits).
MakeFlags(lifecycle, debug_locked) ==
    {"FIXED_WIDTH"}
    \cup (IF lifecycle = "Unprovisioned" THEN {"NOT_CONFIGURED"}
          ELSE IF lifecycle = "Manufacturing" THEN {"NOT_SECURE"} ELSE {})
    \cup (IF debug_locked THEN {} ELSE {"DEBUG"})

\* fuse_info_digest: SHA-384 over the device, fuse and vault fields.
FuseInfoDigest ==
    <<"SHA384", dev.lifecycle, dev.debug_locked, FuseBank.anti_rollback_disable,
      dv.vendor_ecc_pk_index, dv.vendor_pqc_pk_index, FwProcInfo.pqc_key_type,
      FwProcInfo.owner_pub_keys_digest_in_fuses,
      FuseBank.vendor_pub_key_info_hash, dv.owner_pk_hash>>

\* Mutant: the authority's public key placed in the subject field.
CertTbsIssuerSubject(alg, pub, auth_pub, svn) ==
    [alg |-> alg, subject_pub |-> auth_pub, issuer_pub |-> auth_pub,
     fmc_tci |-> dv.fmc_tci, device_info_hash |-> FuseInfoDigest,
     flags |-> MakeFlags(dev.lifecycle, dev.debug_locked),
     fw_svn |-> svn % 256, fw_svn_fuses |-> FwProcInfo.effective_fuse_svn % 256]

\* The TBS of an FMC alias certificate of algorithm alg for the subject key
\* pub, issued by auth_pub, carrying the firmware SVN svn (taken as u8).
CertTbs(alg, pub, auth_pub, svn) ==
    [alg |-> alg, subject_pub |-> pub, issuer_pub |-> auth_pub,
     fmc_tci |-> dv.fmc_tci, device_info_hash |-> FuseInfoDigest,
     flags |-> MakeFlags(dev.lifecycle, dev.debug_locked),
     fw_svn |-> svn % 256, fw_svn_fuses |-> FwProcInfo.effective_fuse_svn % 256]

-----------------------------------------------------------------------------
(* The layer.                                                              *)

\* The LDevID authority public keys (DiceInput).
LDevIdEccPub == EccPubOf(LDevIdEccPriv)
LDevIdMldsaPub == MldsaPubOf(LDevIdMldsaSeed)

\* The state the LDevID layer and the firmware processor leave: the LDevID
\* CDI and key pairs in the vault, the other slots empty, the data vault
\* populated from the verified image (cold_boot_fw_svn = fw_svn).
Init ==
    /\ pc = "DeriveCdi"
    /\ dev \in [lifecycle : Lifecycles, debug_locked : BOOLEAN, pcr0 : Measurements]
    /\ kv = [s \in KeyIds |->
               CASE s = KEY_ID_ROM_FMC_CDI -> Slot(LDevIdCdi, KdfUsage)
                 [] s = KEY_ID_LDEVID_ECDSA_PRIV_KEY ->
                        Slot(LDevIdEccPriv, {"ecc_private_key"})
                 [] s = KEY_ID_LDEVID_MLDSA_KEYPAIR_SEED -> Slot(LDevIdMldsaSeed, KdfUsage)
                 [] OTHER -> Erased]
    /\ \E tci \in Tcis, svn \in SvnValues :
          dv = [fmc_tci |-> tci, cold_boot_fw_svn |-> svn, fw_svn |-> svn,
                vendor_ecc_pk_index |-> 0, vendor_pqc_pk_index |-> 0,
                owner_pk_hash |-> OwnerPkHash,
                fmc_dice_ecc_signature |-> EMPTY, fmc_ecc_pub_key |-> EMPTY,
                fmc_dice_mldsa_signature |-> EMPTY, fmc_mldsa_pub_key |-> EMPTY]
    /\ out = [ecc_pub |-> EMPTY, mldsa_pub |-> EMPTY]
    /\ tbs = [ecc |-> EMPTY, mldsa |-> EMPTY]
    /\ fw_error_fatal = NoError

\* Mutant: the CDI derived without the measurement as context.
DeriveCdiNoMeasurement ==
    /\ pc = "DeriveCdi"
    /\ EngineCall(Usable(kv, KEY_ID_ROM_FMC_CDI, "hmac_key"),
                  /\ kv' = [kv EXCEPT ![KEY_ID_ROM_FMC_CDI] =
                              Slot(HmacKdf(kv[KEY_ID_ROM_FMC_CDI].mat, "alias_fmc_cdi",
                                           NoContext), KdfUsage)]
                  /\ pc' = "EccKeyGen"
                  /\ UNCHANGED <<out, fw_error_fatal>>)
    /\ UNCHANGED <<dev, dv, tbs>>

\* derive reads PCR0; derive_cdi: HMAC-KDF keyed by the CDI slot, label
\* "alias_fmc_cdi", context PCR0, written back over the same slot.
DeriveCdi ==
    /\ pc = "DeriveCdi"
    /\ EngineCall(Usable(kv, KEY_ID_ROM_FMC_CDI, "hmac_key"),
                  /\ kv' = [kv EXCEPT ![KEY_ID_ROM_FMC_CDI] =
                              Slot(HmacKdf(kv[KEY_ID_ROM_FMC_CDI].mat, "alias_fmc_cdi",
                                           dev.pcr0), KdfUsage)]
                  /\ pc' = "EccKeyGen"
                  /\ UNCHANGED <<out, fw_error_fatal>>)
    /\ UNCHANGED <<dev, dv, tbs>>

\* Crypto::ecc384_key_gen(cdi, label, priv), first call: HMAC-KDF keyed by
\* cdi into KEY_ID_TMP.
EccSeedVault(k, cdi, label) ==
    [k EXCEPT ![KEY_ID_TMP] = Slot(HmacKdf(k[cdi].mat, label, NoContext), KdfUsage)]

\* Mutant: the temporary seed slot left holding the seed.
EccKeyGenKeepTmp(k, cdi, label, priv) ==
    LET k1 == EccSeedVault(k, cdi, label)
    IN  [k1 EXCEPT ![priv] = Slot(EccPrivOf(k1[KEY_ID_TMP].mat), {"ecc_private_key"})]

\* The rest of ecc384_key_gen: ecc384.key_pair from KEY_ID_TMP into priv,
\* then erase KEY_ID_TMP.
EccKeyGenVault(k, cdi, label, priv) ==
    LET k1 == EccSeedVault(k, cdi, label)
        k2 == [k1 EXCEPT ![priv] = Slot(EccPrivOf(k1[KEY_ID_TMP].mat), {"ecc_private_key"})]
    IN  [k2 EXCEPT ![KEY_ID_TMP] = Erased]

\* derive_key_pair, ECC half: ecc384_key_gen with label "alias_fmc_ecc_key".
\* Its reads: the CDI as HMAC key, then KEY_ID_TMP as key-generation seed.
EccKeyGen ==
    /\ pc = "EccKeyGen"
    /\ LET k2 == EccKeyGenVault(kv, KEY_ID_ROM_FMC_CDI, "alias_fmc_ecc_key",
                                KEY_ID_FMC_ECDSA_PRIV_KEY)
           k1 == EccSeedVault(kv, KEY_ID_ROM_FMC_CDI, "alias_fmc_ecc_key")
       IN EngineCall(/\ Usable(kv, KEY_ID_ROM_FMC_CDI, "hmac_key")
                     /\ Usable(k1, KEY_ID_TMP, "ecc_key_gen_seed"),
                     /\ kv' = k2
                     /\ out' = [out EXCEPT !.ecc_pub =
                                  EccPubOf(k2[KEY_ID_FMC_ECDSA_PRIV_KEY].mat)]
                     /\ pc' = "MldsaKeyGen"
                     /\ UNCHANGED fw_error_fatal)
    /\ UNCHANGED <<dev, dv, tbs>>

\* derive_key_pair, MLDSA half: mldsa_key_gen with label
\* "alias_fmc_mldsa_key": HMAC-KDF into the seed slot, then mldsa87.key_pair.
MldsaKeyGen ==
    /\ pc = "MldsaKeyGen"
    /\ LET k1 == [kv EXCEPT ![KEY_ID_FMC_MLDSA_KEYPAIR_SEED] =
                    Slot(HmacKdf(kv[KEY_ID_ROM_FMC_CDI].mat, "alias_fmc_mldsa_key",
                                 NoContext), KdfUsage)]
       IN EngineCall(/\ Usable(kv, KEY_ID_ROM_FMC_CDI, "hmac_key")
                     /\ Usable(k1, KEY_ID_FMC_MLDSA_KEYPAIR_SEED, "mldsa_key_gen_seed"),
                     /\ kv' = k1
                     /\ out' = [out EXCEPT !.mldsa_pub =
                                  MldsaPubOf(k1[KEY_ID_FMC_MLDSA_KEYPAIR_SEED].mat)]
                     /\ pc' = "SubjIds"
                     /\ UNCHANGED fw_error_fatal)
    /\ UNCHANGED <<dev, dv, tbs>>

\* x509::subj_sn and subj_key_id of both public keys (SHA-256 engine).
SubjIds ==
    /\ pc = "SubjIds"
    /\ EngineCall(TRUE, pc' = "EccCert" /\ UNCHANGED <<kv, out, fw_error_fatal>>)
    /\ UNCHANGED <<dev, dv, tbs>>

\* Mutant: the authority key erased before the TBS is signed with it.
EccCertEraseFirst ==
    /\ pc = "EccCert"
    /\ LET auth == KEY_ID_LDEVID_ECDSA_PRIV_KEY
           k == [kv EXCEPT ![auth] = Erased]
           t == CertTbs("ECC", out.ecc_pub, LDevIdEccPub, dv.cold_boot_fw_svn)
           stored == [dv EXCEPT !.fmc_dice_ecc_signature = Sign(k[auth].mat, t),
                                !.fmc_ecc_pub_key = out.ecc_pub]
       IN \/ /\ Usable(k, auth, "ecc_private_key")
             /\ kv' = k /\ dv' = stored /\ tbs' = [tbs EXCEPT !.ecc = t]
             /\ pc' = "MldsaCert" /\ UNCHANGED fw_error_fatal
          \/ /\ ~Usable(k, auth, "ecc_private_key") \/ EngineFaults
             /\ Fatal(IF Usable(k, auth, "ecc_private_key") THEN EngineError ELSE KvReadError)
             /\ UNCHANGED <<dv, tbs>>
          \/ /\ Usable(k, auth, "ecc_private_key") /\ EngineFaults
             /\ Fatal(EngineError) /\ dv' = stored /\ UNCHANGED tbs
    /\ UNCHANGED <<dev, out>>

\* Mutant: the alias private key, not the public key, stored in the vault.
EccCertStorePriv ==
    /\ pc = "EccCert"
    /\ LET auth == KEY_ID_LDEVID_ECDSA_PRIV_KEY
           ok == Usable(kv, auth, "ecc_private_key")
           t == CertTbs("ECC", out.ecc_pub, LDevIdEccPub, dv.cold_boot_fw_svn)
           stored == [dv EXCEPT !.fmc_dice_ecc_signature = Sign(kv[auth].mat, t),
                                !.fmc_ecc_pub_key = kv[KEY_ID_FMC_ECDSA_PRIV_KEY].mat]
       IN \/ /\ ok
             /\ kv' = [kv EXCEPT ![auth] = Erased]
             /\ dv' = stored /\ tbs' = [tbs EXCEPT !.ecc = t]
             /\ pc' = "MldsaCert" /\ UNCHANGED fw_error_fatal
          \/ /\ ~ok \/ EngineFaults
             /\ Fatal(IF ok THEN EngineError ELSE KvReadError)
             /\ UNCHANGED <<dv, tbs>>
          \/ /\ ok /\ EngineFaults
             /\ Fatal(EngineError) /\ dv' = stored /\ UNCHANGED tbs
    /\ UNCHANGED <<dev, out>>

\* generate_cert_sig_ecc: the TBS over the ECC alias key with the cold-boot
\* SVN, signed by ecdsa384_sign_and_verify with the LDevID ECC key; erase
\* that key; signature and public key into the data vault; copy_tbs.  The
\* fuse-info hash, UEID, serial number, signing or erase may fail before the
\* data vault is written, copy_tbs after.
EccCert ==
    /\ pc = "EccCert"
    /\ LET auth == KEY_ID_LDEVID_ECDSA_PRIV_KEY
           ok == Usable(kv, auth, "ecc_private_key")
           t == CertTbs("ECC", out.ecc_pub, LDevIdEccPub, dv.cold_boot_fw_svn)
           stored == [dv EXCEPT !.fmc_dice_ecc_signature = Sign(kv[auth].mat, t),
                                !.fmc_ecc_pub_key = out.ecc_pub]
       IN \/ /\ ok
             /\ kv' = [kv EXCEPT ![auth] = Erased]
             /\ dv' = stored /\ tbs' = [tbs EXCEPT !.ecc = t]
             /\ pc' = "MldsaCert" /\ UNCHANGED fw_error_fatal
          \/ /\ ~ok \/ EngineFaults
             /\ Fatal(IF ok THEN EngineError ELSE KvReadError)
             /\ UNCHANGED <<dv, tbs>>
          \/ /\ ok /\ EngineFaults
             /\ Fatal(EngineError) /\ dv' = stored /\ UNCHANGED tbs
    /\ UNCHANGED <<dev, out>>

\* generate_cert_sig_mldsa: the same for the MLDSA alias key with fw_svn,
\* signed by mldsa87_sign_and_verify with the LDevID MLDSA seed; on success
\* derive returns Ok (FmcAliasDerivationComplete).
MldsaCert ==
    /\ pc = "MldsaCert"
    /\ LET auth == KEY_ID_LDEVID_MLDSA_KEYPAIR_SEED
           ok == Usable(kv, auth, "mldsa_key_gen_seed")
           t == CertTbs("MLDSA", out.mldsa_pub, LDevIdMldsaPub, dv.fw_svn)
           stored == [dv EXCEPT !.fmc_dice_mldsa_signature = Sign(kv[auth].mat, t),
                                !.fmc_mldsa_pub_key = out.mldsa_pub]
       IN \/ /\ ok
             /\ kv' = [kv EXCEPT ![auth] = Erased]
             /\ dv' = stored /\ tbs' = [tbs EXCEPT !.mldsa = t]
             /\ pc' = "Done" /\ UNCHANGED fw_error_fatal
          \/ /\ ~ok \/ EngineFaults
             /\ Fatal(IF ok THEN EngineError ELSE KvReadError)
             /\ UNCHANGED <<dv, tbs>>
          \/ /\ ok /\ EngineFaults
             /\ Fatal(EngineError) /\ dv' = stored /\ UNCHANGED tbs
    /\ UNCHANGED <<dev, out>>

Next ==
    \/ DeriveCdi
    \/ EccKeyGen
    \/ MldsaKeyGen
    \/ SubjIds
    \/ EccCert
    \/ MldsaCert

\* The ROM runs the layer alone on one hart: every enabled step is taken.
Spec == Init /\ [][Next]_vars /\ WF_vars(Next)

-----------------------------------------------------------------------------
(* Properties.                                                             *)

Phases == {"DeriveCdi", "EccKeyGen", "MldsaKeyGen", "SubjIds", "EccCert",
           "MldsaCert", "Done", "Fatal"}

\* x is absent or a key of the given kind (the tag its constructor gives).
IsKey(tag, x) == x # EMPTY => x[1] = tag

\* Type correctness: in particular the DiceOutput and the data vault's alias
\* key entries, which the FMC and the SoC read, only ever hold public keys.
TypeOK ==
    /\ pc \in Phases
    /\ DOMAIN kv = KeyIds
    /\ \A s \in KeyIds : kv[s].usage \subseteq KdfUsage \cup {"ecc_private_key"}
    /\ fw_error_fatal \in {NoError, EngineError, KvReadError}
    /\ dev.lifecycle \in Lifecycles /\ dev.pcr0 \in Measurements
    /\ IsKey("ECC_PUB", out.ecc_pub) /\ IsKey("ECC_PUB", dv.fmc_ecc_pub_key)
    /\ IsKey("MLDSA_PUB", out.mldsa_pub) /\ IsKey("MLDSA_PUB", dv.fmc_mldsa_pub_key)

\* The alias CDI the layer must derive: HMAC-KDF of the LDevID CDI over PCR0.
FmcCdi == HmacKdf(LDevIdCdi, "alias_fmc_cdi", dev.pcr0)

\* When derive returns Ok, the key vault holds what the FMC relies on, each
\* bound to the PCR0 measurement through the alias CDI (derive_cdi and
\* derive_key_pair): the CDI, the ECC alias private key and the MLDSA seed
\* with the usage the FMC's signing needs, and the data vault's alias public
\* keys are those of the keys in the vault.
AliasKeysBoundToPcr0 ==
    pc = "Done" =>
        /\ kv[KEY_ID_ROM_FMC_CDI] = Slot(FmcCdi, KdfUsage)
        /\ kv[KEY_ID_FMC_ECDSA_PRIV_KEY] =
               Slot(EccPrivOf(HmacKdf(FmcCdi, "alias_fmc_ecc_key", NoContext)),
                    {"ecc_private_key"})
        /\ kv[KEY_ID_FMC_MLDSA_KEYPAIR_SEED] =
               Slot(HmacKdf(FmcCdi, "alias_fmc_mldsa_key", NoContext), KdfUsage)
        /\ dv.fmc_ecc_pub_key = EccPubOf(kv[KEY_ID_FMC_ECDSA_PRIV_KEY].mat)
        /\ dv.fmc_mldsa_pub_key = MldsaPubOf(kv[KEY_ID_FMC_MLDSA_KEYPAIR_SEED].mat)

\* When derive returns Ok, each alias certificate the FMC will present (the
\* data vault's signature over the persistent TBS buffer) verifies under the
\* LDevID public key and certifies the alias public key of the data vault,
\* the FMC TCI and the SVN of the data vault (generate_cert_sig_ecc/_mldsa).
AliasCertsCertifyAliasKeys ==
    pc = "Done" =>
        /\ EccVerifies(LDevIdEccPub, dv.fmc_dice_ecc_signature, tbs.ecc)
        /\ MldsaVerifies(LDevIdMldsaPub, dv.fmc_dice_mldsa_signature, tbs.mldsa)
        /\ tbs.ecc.subject_pub = dv.fmc_ecc_pub_key
        /\ tbs.mldsa.subject_pub = dv.fmc_mldsa_pub_key
        /\ tbs.ecc.fmc_tci = dv.fmc_tci /\ tbs.mldsa.fmc_tci = dv.fmc_tci
        /\ tbs.ecc.fw_svn = dv.cold_boot_fw_svn /\ tbs.mldsa.fw_svn = dv.fw_svn

\* Once derive has returned or the ROM has halted, no secret of the LDevID
\* layer and no temporary seed is left in the key vault: the LDevID CDI is
\* overwritten, the authority keys are erased after signing, and KEY_ID_TMP
\* is released by ecc384_key_gen (spec: scoped key-slot acquisitions).
NoLDevIdSecretLeft ==
    pc \in {"Done", "Fatal"} =>
        /\ kv[KEY_ID_TMP] = Erased
        /\ kv[KEY_ID_LDEVID_ECDSA_PRIV_KEY] = Erased
        /\ kv[KEY_ID_LDEVID_MLDSA_KEYPAIR_SEED] = Erased
        /\ kv[KEY_ID_ROM_FMC_CDI].mat # LDevIdCdi

\* Every run of derive ends, and it ends in a fatal error only when an
\* engine failed: no key-vault read of the layer is ever refused (each slot
\* is read after it is written and before it is erased, with the usage its
\* writer gave it).
DerivationCompletes == <>(pc = "Done" \/ fw_error_fatal = EngineError)

=============================================================================
