---------------------------- MODULE FmcAliasProofs ----------------------------
(***************************************************************************)
(* TLAPS proofs about FmcAlias, for every value of the constants that      *)
(* FmcAliasAssumption and KdfAssumption allow.                             *)
(*                                                                         *)
(* None of the layer's invariants is inductive alone: each is about the    *)
(* state at "Done" or "Fatal", which is reached through the intermediate   *)
(* steps of derive.  IInv says what the key vault, the DiceOutput, the     *)
(* data vault and the TBS buffers hold after each step.                    *)
(***************************************************************************)
EXTENDS FmcAlias, TLAPS

\* The phases after each step of derive that completed.
CdiDerived   == {"EccKeyGen", "MldsaKeyGen", "SubjIds", "EccCert", "MldsaCert", "Done"}
EccKeyMade   == {"MldsaKeyGen", "SubjIds", "EccCert", "MldsaCert", "Done"}
MldsaKeyMade == {"SubjIds", "EccCert", "MldsaCert", "Done"}
EccCertMade  == {"MldsaCert", "Done"}

\* The alias key material derive must produce from the alias CDI.
AliasEccPriv   == EccPrivOf(HmacKdf(FmcCdi, "alias_fmc_ecc_key", NoContext))
AliasMldsaSeed == HmacKdf(FmcCdi, "alias_fmc_mldsa_key", NoContext)

DvFields == {"fmc_tci", "cold_boot_fw_svn", "fw_svn", "vendor_ecc_pk_index",
             "vendor_pqc_pk_index", "owner_pk_hash", "fmc_dice_ecc_signature",
             "fmc_ecc_pub_key", "fmc_dice_mldsa_signature", "fmc_mldsa_pub_key"}

\* The inductive invariant: what each completed step has left in the vaults.
IInv ==
    /\ TypeOK
    /\ DOMAIN dv = DvFields
    /\ DOMAIN out = {"ecc_pub", "mldsa_pub"}
    /\ DOMAIN tbs = {"ecc", "mldsa"}
    /\ dv.cold_boot_fw_svn \in SvnValues /\ dv.fw_svn \in SvnValues
    /\ pc = "Fatal" => kv = [s \in KeyIds |-> Erased]
    /\ pc # "Fatal" => kv[KEY_ID_TMP] = Erased
    /\ pc = "DeriveCdi" => kv[KEY_ID_ROM_FMC_CDI] = Slot(LDevIdCdi, KdfUsage)
    /\ pc \in CdiDerived => kv[KEY_ID_ROM_FMC_CDI] = Slot(FmcCdi, KdfUsage)
    /\ pc \in EccKeyMade =>
           /\ kv[KEY_ID_FMC_ECDSA_PRIV_KEY] = Slot(AliasEccPriv, {"ecc_private_key"})
           /\ out.ecc_pub = EccPubOf(AliasEccPriv)
    /\ pc \in MldsaKeyMade =>
           /\ kv[KEY_ID_FMC_MLDSA_KEYPAIR_SEED] = Slot(AliasMldsaSeed, KdfUsage)
           /\ out.mldsa_pub = MldsaPubOf(AliasMldsaSeed)
    /\ pc \in Phases \ (EccCertMade \cup {"Fatal"}) =>
           kv[KEY_ID_LDEVID_ECDSA_PRIV_KEY] = Slot(LDevIdEccPriv, {"ecc_private_key"})
    /\ pc \in Phases \ {"Done", "Fatal"} =>
           kv[KEY_ID_LDEVID_MLDSA_KEYPAIR_SEED] = Slot(LDevIdMldsaSeed, KdfUsage)
    /\ pc \in EccCertMade =>
           /\ kv[KEY_ID_LDEVID_ECDSA_PRIV_KEY] = Erased
           /\ dv.fmc_dice_ecc_signature = Sign(LDevIdEccPriv, tbs.ecc)
           /\ dv.fmc_ecc_pub_key = out.ecc_pub
           /\ tbs.ecc.subject_pub = out.ecc_pub
           /\ tbs.ecc.fmc_tci = dv.fmc_tci
           /\ tbs.ecc.fw_svn = dv.cold_boot_fw_svn
    /\ pc = "Done" =>
           /\ kv[KEY_ID_LDEVID_MLDSA_KEYPAIR_SEED] = Erased
           /\ dv.fmc_dice_mldsa_signature = Sign(LDevIdMldsaSeed, tbs.mldsa)
           /\ dv.fmc_mldsa_pub_key = out.mldsa_pub
           /\ tbs.mldsa.subject_pub = out.mldsa_pub
           /\ tbs.mldsa.fmc_tci = dv.fmc_tci
           /\ tbs.mldsa.fw_svn = dv.fw_svn

-----------------------------------------------------------------------------
(* The invariant holds initially and is kept by every step.                *)

\* The slot names, phases and error codes are distinct strings.
USE DEF KEY_ID_ROM_FMC_CDI, KEY_ID_FMC_ECDSA_PRIV_KEY, KEY_ID_FMC_MLDSA_KEYPAIR_SEED,
        KEY_ID_TMP, KEY_ID_LDEVID_ECDSA_PRIV_KEY, KEY_ID_LDEVID_MLDSA_KEYPAIR_SEED,
        KeyIds, Phases, CdiDerived, EccKeyMade, MldsaKeyMade, EccCertMade,
        EngineError, KvReadError, NoError

\* The layer starts, with the LDevID layer's key vault, in a state of IInv.
LEMMA InitIInv == Init => IInv
  <1> SUFFICES ASSUME Init PROVE IInv
    OBVIOUS
  <1>1. PICK tci \in Tcis, svn \in SvnValues :
            dv = [fmc_tci |-> tci, cold_boot_fw_svn |-> svn, fw_svn |-> svn,
                  vendor_ecc_pk_index |-> 0, vendor_pqc_pk_index |-> 0,
                  owner_pk_hash |-> OwnerPkHash,
                  fmc_dice_ecc_signature |-> EMPTY, fmc_ecc_pub_key |-> EMPTY,
                  fmc_dice_mldsa_signature |-> EMPTY, fmc_mldsa_pub_key |-> EMPTY]
    BY DEF Init
  <1> QED
    BY <1>1 DEF Init, IInv, TypeOK, Phases, IsKey, KeyIds, Slot, Erased, KdfUsage,
                DvFields, CdiDerived, EccKeyMade, MldsaKeyMade, EccCertMade

\* A fatal error (handle_fatal_error zeroizing the key vault) keeps the
\* invariant, whatever the failing step wrote to the data vault before.
LEMMA FatalIInv ==
    ASSUME IInv, NEW e \in {EngineError, KvReadError}, Fatal(e),
           dev' = dev, out' = out,
           DOMAIN dv' = DvFields, DOMAIN tbs' = {"ecc", "mldsa"},
           dv'.cold_boot_fw_svn \in SvnValues, dv'.fw_svn \in SvnValues,
           IsKey("ECC_PUB", dv'.fmc_ecc_pub_key),
           IsKey("MLDSA_PUB", dv'.fmc_mldsa_pub_key)
    PROVE  IInv'
  BY DEF IInv, TypeOK, Fatal, Phases, Erased, Slot, KdfUsage, CdiDerived,
         EccKeyMade, MldsaKeyMade, EccCertMade, EngineError, KvReadError, NoError

\* derive_cdi: the alias CDI over PCR0 replaces the LDevID CDI.
LEMMA DeriveCdiIInv == IInv /\ DeriveCdi => IInv'
  <1> SUFFICES ASSUME IInv, DeriveCdi PROVE IInv'
    OBVIOUS
  <1>1. CASE Usable(kv, KEY_ID_ROM_FMC_CDI, "hmac_key")
             /\ kv' = [kv EXCEPT ![KEY_ID_ROM_FMC_CDI] =
                         Slot(HmacKdf(kv[KEY_ID_ROM_FMC_CDI].mat, "alias_fmc_cdi",
                                      dev.pcr0), KdfUsage)]
             /\ pc' = "EccKeyGen"
             /\ UNCHANGED <<out, fw_error_fatal>>
    <2>0. kv[KEY_ID_ROM_FMC_CDI].mat = LDevIdCdi
      BY DEF DeriveCdi, IInv, Slot
    <2>1. kv' = [kv EXCEPT ![KEY_ID_ROM_FMC_CDI] = Slot(FmcCdi, KdfUsage)]
      BY <1>1, <2>0 DEF FmcCdi
    <2>2. UNCHANGED <<dev, dv, tbs, out, fw_error_fatal>>
      BY <1>1 DEF DeriveCdi
    <2>3. TypeOK'
      BY <1>1, <2>1, <2>2 DEF IInv, TypeOK, Slot, KdfUsage, IsKey
    <2>4. /\ kv'[KEY_ID_TMP] = Erased
          /\ kv'[KEY_ID_ROM_FMC_CDI] = Slot(FmcCdi, KdfUsage)
          /\ kv'[KEY_ID_LDEVID_ECDSA_PRIV_KEY] = Slot(LDevIdEccPriv, {"ecc_private_key"})
          /\ kv'[KEY_ID_LDEVID_MLDSA_KEYPAIR_SEED] = Slot(LDevIdMldsaSeed, KdfUsage)
      BY <2>1 DEF DeriveCdi, IInv, TypeOK
    <2>5. FmcCdi' = FmcCdi
      BY <2>2 DEF FmcCdi
    <2> QED
      BY <1>1, <2>2, <2>3, <2>4, <2>5 DEF IInv
  <1>2. CASE /\ ~Usable(kv, KEY_ID_ROM_FMC_CDI, "hmac_key") \/ EngineFaults
             /\ Fatal(IF Usable(kv, KEY_ID_ROM_FMC_CDI, "hmac_key")
                      THEN EngineError ELSE KvReadError)
             /\ UNCHANGED out
    BY <1>2, FatalIInv DEF DeriveCdi, IInv, TypeOK
  <1> QED
    BY <1>1, <1>2 DEF DeriveCdi, EngineCall

\* derive_key_pair, ECC half: the alias ECC key from the alias CDI, with the
\* temporary seed slot erased again.
LEMMA EccKeyGenIInv == IInv /\ EccKeyGen => IInv'
  <1> SUFFICES ASSUME IInv, EccKeyGen PROVE IInv'
    OBVIOUS
  <1>1. UNCHANGED <<dev, dv, tbs>>
    BY DEF EccKeyGen
  <1>2. CASE pc' = "MldsaKeyGen"
    <2>1. kv[KEY_ID_ROM_FMC_CDI] = Slot(FmcCdi, KdfUsage) /\ kv[KEY_ID_TMP] = Erased
      BY DEF EccKeyGen, IInv
    <2>2. /\ kv' = EccKeyGenVault(kv, KEY_ID_ROM_FMC_CDI, "alias_fmc_ecc_key",
                                  KEY_ID_FMC_ECDSA_PRIV_KEY)
          /\ out' = [out EXCEPT !.ecc_pub = EccPubOf(kv'[KEY_ID_FMC_ECDSA_PRIV_KEY].mat)]
          /\ fw_error_fatal' = fw_error_fatal
      BY <1>2 DEF EccKeyGen, EngineCall, Fatal
    <2>3. /\ DOMAIN kv' = KeyIds
          /\ kv'[KEY_ID_FMC_ECDSA_PRIV_KEY] = Slot(AliasEccPriv, {"ecc_private_key"})
          /\ \A s \in KeyIds \ {KEY_ID_FMC_ECDSA_PRIV_KEY} : kv'[s] = kv[s]
      <3> DEFINE k1 == EccSeedVault(kv, KEY_ID_ROM_FMC_CDI, "alias_fmc_ecc_key")
      <3>1. /\ DOMAIN k1 = KeyIds
            /\ k1[KEY_ID_TMP].mat = HmacKdf(FmcCdi, "alias_fmc_ecc_key", NoContext)
            /\ \A s \in KeyIds \ {KEY_ID_TMP} : k1[s] = kv[s]
        BY <2>1 DEF EccSeedVault, IInv, TypeOK, Slot
      <3>2. kv' = [[k1 EXCEPT ![KEY_ID_FMC_ECDSA_PRIV_KEY] =
                      Slot(EccPrivOf(k1[KEY_ID_TMP].mat), {"ecc_private_key"})]
                   EXCEPT ![KEY_ID_TMP] = Erased]
        BY <2>2 DEF EccKeyGenVault
      <3> QED
        BY <2>1, <3>1, <3>2 DEF AliasEccPriv
    <2>4. /\ DOMAIN out' = {"ecc_pub", "mldsa_pub"}
          /\ out'.ecc_pub = EccPubOf(AliasEccPriv)
          /\ out'.mldsa_pub = out.mldsa_pub
      BY <2>2, <2>3 DEF IInv, Slot
    <2>5. FmcCdi' = FmcCdi
      BY <1>1 DEF FmcCdi
    <2>6. TypeOK'
      <3>1. \A s \in KeyIds : kv'[s].usage \subseteq KdfUsage \cup {"ecc_private_key"}
        BY <2>3 DEF IInv, TypeOK, Slot
      <3>2. IsKey("ECC_PUB", out'.ecc_pub) /\ IsKey("MLDSA_PUB", out'.mldsa_pub)
        BY <2>4 DEF IInv, TypeOK, IsKey, EccPubOf
      <3> QED
        BY <1>2, <1>1, <2>2, <2>3, <3>1, <3>2 DEF IInv, TypeOK
    <2>7. /\ kv'[KEY_ID_ROM_FMC_CDI] = Slot(FmcCdi, KdfUsage)
          /\ kv'[KEY_ID_TMP] = Erased
          /\ kv'[KEY_ID_LDEVID_ECDSA_PRIV_KEY] = Slot(LDevIdEccPriv, {"ecc_private_key"})
          /\ kv'[KEY_ID_LDEVID_MLDSA_KEYPAIR_SEED] = Slot(LDevIdMldsaSeed, KdfUsage)
      BY <2>1, <2>3 DEF EccKeyGen, IInv
    <2> QED
      BY <1>2, <1>1, <2>3, <2>4, <2>5, <2>6, <2>7 DEF IInv, AliasEccPriv, AliasMldsaSeed
  <1>3. CASE pc' = "Fatal"
    BY <1>1, <1>3, FatalIInv DEF EccKeyGen, EngineCall, IInv, TypeOK
  <1> QED
    BY <1>2, <1>3 DEF EccKeyGen, EngineCall, Fatal

\* derive_key_pair, MLDSA half: the alias MLDSA seed from the alias CDI.
LEMMA MldsaKeyGenIInv == IInv /\ MldsaKeyGen => IInv'
  <1> SUFFICES ASSUME IInv, MldsaKeyGen PROVE IInv'
    OBVIOUS
  <1>1. UNCHANGED <<dev, dv, tbs>>
    BY DEF MldsaKeyGen
  <1>2. CASE pc' = "SubjIds"
    <2>1. kv[KEY_ID_ROM_FMC_CDI] = Slot(FmcCdi, KdfUsage)
      BY DEF MldsaKeyGen, IInv
    <2>2. /\ kv' = [kv EXCEPT ![KEY_ID_FMC_MLDSA_KEYPAIR_SEED] =
                      Slot(HmacKdf(kv[KEY_ID_ROM_FMC_CDI].mat, "alias_fmc_mldsa_key",
                                   NoContext), KdfUsage)]
          /\ out' = [out EXCEPT !.mldsa_pub = MldsaPubOf(kv'[KEY_ID_FMC_MLDSA_KEYPAIR_SEED].mat)]
          /\ fw_error_fatal' = fw_error_fatal
      BY <1>2 DEF MldsaKeyGen, EngineCall, Fatal
    <2>3. /\ DOMAIN kv' = KeyIds
          /\ kv'[KEY_ID_FMC_MLDSA_KEYPAIR_SEED] = Slot(AliasMldsaSeed, KdfUsage)
          /\ \A s \in KeyIds \ {KEY_ID_FMC_MLDSA_KEYPAIR_SEED} : kv'[s] = kv[s]
      BY <2>1, <2>2 DEF IInv, TypeOK, AliasMldsaSeed, Slot
    <2>4. /\ DOMAIN out' = {"ecc_pub", "mldsa_pub"}
          /\ out'.mldsa_pub = MldsaPubOf(AliasMldsaSeed)
          /\ out'.ecc_pub = out.ecc_pub
      BY <2>2, <2>3 DEF IInv, Slot
    <2>5. FmcCdi' = FmcCdi
      BY <1>1 DEF FmcCdi
    <2>6. TypeOK'
      <3>1. \A s \in KeyIds : kv'[s].usage \subseteq KdfUsage \cup {"ecc_private_key"}
        BY <2>3 DEF IInv, TypeOK, Slot
      <3>2. IsKey("ECC_PUB", out'.ecc_pub) /\ IsKey("MLDSA_PUB", out'.mldsa_pub)
        BY <2>4 DEF IInv, TypeOK, IsKey, MldsaPubOf
      <3> QED
        BY <1>2, <1>1, <2>2, <2>3, <3>1, <3>2 DEF IInv, TypeOK
    <2>7. /\ kv'[KEY_ID_ROM_FMC_CDI] = Slot(FmcCdi, KdfUsage)
          /\ kv'[KEY_ID_TMP] = Erased
          /\ kv'[KEY_ID_FMC_ECDSA_PRIV_KEY] = Slot(AliasEccPriv, {"ecc_private_key"})
          /\ kv'[KEY_ID_LDEVID_ECDSA_PRIV_KEY] = Slot(LDevIdEccPriv, {"ecc_private_key"})
          /\ kv'[KEY_ID_LDEVID_MLDSA_KEYPAIR_SEED] = Slot(LDevIdMldsaSeed, KdfUsage)
      BY <2>1, <2>3 DEF MldsaKeyGen, IInv
    <2> QED
      BY <1>2, <1>1, <2>3, <2>4, <2>5, <2>6, <2>7 DEF MldsaKeyGen, IInv, AliasEccPriv,
                                                     AliasMldsaSeed
  <1>3. CASE pc' = "Fatal"
    BY <1>1, <1>3, FatalIInv DEF MldsaKeyGen, EngineCall, IInv, TypeOK
  <1> QED
    BY <1>2, <1>3 DEF MldsaKeyGen, EngineCall, Fatal

\* The subject identifiers are computed without touching the vaults.
LEMMA SubjIdsIInv == IInv /\ SubjIds => IInv'
  <1> SUFFICES ASSUME IInv, SubjIds PROVE IInv'
    OBVIOUS
  <1>1. UNCHANGED <<dev, dv, tbs>>
    BY DEF SubjIds
  <1>2. CASE pc' = "EccCert"
    <2>1. UNCHANGED <<kv, out, fw_error_fatal>>
      BY <1>2 DEF SubjIds, EngineCall, Fatal
    <2>2. FmcCdi' = FmcCdi
      BY <1>1 DEF FmcCdi
    <2> QED
      BY <1>1, <1>2, <2>1, <2>2 DEF SubjIds, IInv, TypeOK, AliasEccPriv, AliasMldsaSeed
  <1>3. CASE pc' = "Fatal"
    BY <1>1, <1>3, FatalIInv DEF SubjIds, EngineCall, IInv, TypeOK
  <1> QED
    BY <1>2, <1>3 DEF SubjIds, EngineCall, Fatal

\* generate_cert_sig_ecc: the certificate over the alias ECC key is signed
\* with the LDevID ECC key, which is then erased.  A failure after the data
\* vault was written (copy_tbs) is fatal.
LEMMA EccCertIInv == IInv /\ EccCert => IInv'
  <1> SUFFICES ASSUME IInv, EccCert PROVE IInv'
    OBVIOUS
  <1> USE FmcAliasAssumption
  <1> DEFINE auth == KEY_ID_LDEVID_ECDSA_PRIV_KEY
             t == CertTbs("ECC", out.ecc_pub, LDevIdEccPub, dv.cold_boot_fw_svn)
             stored == [dv EXCEPT !.fmc_dice_ecc_signature = Sign(kv[auth].mat, t),
                                  !.fmc_ecc_pub_key = out.ecc_pub]
  <1>1. UNCHANGED <<dev, out>> /\ pc = "EccCert"
    BY DEF EccCert
  <1>2. /\ DOMAIN stored = DvFields
        /\ stored.fmc_dice_ecc_signature = Sign(LDevIdEccPriv, t)
        /\ stored.fmc_ecc_pub_key = out.ecc_pub
        /\ \A f \in DvFields \ {"fmc_dice_ecc_signature", "fmc_ecc_pub_key"} :
              stored[f] = dv[f]
    <2>1. kv[auth].mat = LDevIdEccPriv
      BY <1>1 DEF IInv, Slot, auth
    <2>2. stored = [f \in DvFields |->
                      IF f = "fmc_dice_ecc_signature" THEN Sign(kv[auth].mat, t)
                      ELSE IF f = "fmc_ecc_pub_key" THEN out.ecc_pub ELSE dv[f]]
      BY DEF IInv, stored, DvFields
    <2> QED
      BY <2>1, <2>2 DEF DvFields
  <1>3. CASE pc' = "MldsaCert"
    <2>1. /\ kv' = [kv EXCEPT ![auth] = Erased]
          /\ dv' = stored /\ tbs' = [tbs EXCEPT !.ecc = t]
          /\ UNCHANGED fw_error_fatal
      BY <1>3 DEF EccCert, Fatal, t, stored, auth
    <2>2. /\ t.subject_pub = out.ecc_pub
          /\ t.fmc_tci = dv.fmc_tci
          /\ t.fw_svn = dv.cold_boot_fw_svn
      <3>1. /\ t.subject_pub = out.ecc_pub
            /\ t.fmc_tci = dv.fmc_tci
            /\ t.fw_svn = dv.cold_boot_fw_svn % 256
        BY DEF t, CertTbs
      <3>2. dv.cold_boot_fw_svn \in 0..128
        BY DEF IInv, MAX_FIRMWARE_SVN
      <3> QED
        BY <3>1, <3>2
    <2>3. /\ DOMAIN tbs' = {"ecc", "mldsa"}
          /\ tbs'.ecc = t
      BY <2>1 DEF IInv
    <2>4. /\ DOMAIN kv' = KeyIds
          /\ kv'[auth] = Erased
          /\ \A s \in KeyIds \ {auth} : kv'[s] = kv[s]
      BY <2>1 DEF IInv, TypeOK
    <2>5. FmcCdi' = FmcCdi
      BY <1>1 DEF FmcCdi
    <2>6. TypeOK'
      <3>1. \A s \in KeyIds : kv'[s].usage \subseteq KdfUsage \cup {"ecc_private_key"}
        BY <2>4 DEF IInv, TypeOK, Erased, Slot
      <3>2. IsKey("ECC_PUB", dv'.fmc_ecc_pub_key) /\ IsKey("MLDSA_PUB", dv'.fmc_mldsa_pub_key)
        BY <1>2, <2>1 DEF IInv, TypeOK, DvFields
      <3> QED
        BY <1>1, <1>3, <2>1, <2>4, <3>1, <3>2 DEF IInv, TypeOK
    <2> QED
      BY <1>1, <1>2, <1>3, <2>1, <2>2, <2>3, <2>4, <2>5, <2>6
         DEF IInv, DvFields, AliasEccPriv, AliasMldsaSeed
  <1>4. CASE pc' = "Fatal"
    <2>1. /\ tbs' = tbs
          /\ \E e \in {EngineError, KvReadError} : Fatal(e)
          /\ dv' \in {dv, stored}
      BY <1>4 DEF EccCert, Fatal, t, stored, auth
    <2>2. IsKey("ECC_PUB", dv'.fmc_ecc_pub_key) /\ IsKey("MLDSA_PUB", dv'.fmc_mldsa_pub_key)
      BY <1>2, <2>1 DEF IInv, TypeOK, DvFields
    <2>3. /\ DOMAIN dv' = DvFields
          /\ dv'.cold_boot_fw_svn \in SvnValues /\ dv'.fw_svn \in SvnValues
      BY <1>2, <2>1 DEF IInv, DvFields
    <2>4. PICK e \in {EngineError, KvReadError} : Fatal(e)
      BY <2>1
    <2> QED
      BY <1>1, <2>1, <2>2, <2>3, <2>4, FatalIInv DEF IInv
  <1> QED
    BY <1>3, <1>4 DEF EccCert, Fatal

\* generate_cert_sig_mldsa: the same for the alias MLDSA key, signed with
\* the LDevID MLDSA seed; on success derive returns.
LEMMA MldsaCertIInv == IInv /\ MldsaCert => IInv'
  <1> SUFFICES ASSUME IInv, MldsaCert PROVE IInv'
    OBVIOUS
  <1> USE FmcAliasAssumption
  <1> DEFINE auth == KEY_ID_LDEVID_MLDSA_KEYPAIR_SEED
             t == CertTbs("MLDSA", out.mldsa_pub, LDevIdMldsaPub, dv.fw_svn)
             stored == [dv EXCEPT !.fmc_dice_mldsa_signature = Sign(kv[auth].mat, t),
                                  !.fmc_mldsa_pub_key = out.mldsa_pub]
  <1>1. UNCHANGED <<dev, out>> /\ pc = "MldsaCert"
    BY DEF MldsaCert
  <1>2. /\ DOMAIN stored = DvFields
        /\ stored.fmc_dice_mldsa_signature = Sign(LDevIdMldsaSeed, t)
        /\ stored.fmc_mldsa_pub_key = out.mldsa_pub
        /\ \A f \in DvFields \ {"fmc_dice_mldsa_signature", "fmc_mldsa_pub_key"} :
              stored[f] = dv[f]
    <2>1. kv[auth].mat = LDevIdMldsaSeed
      BY <1>1 DEF IInv, Slot, auth
    <2>2. stored = [f \in DvFields |->
                      IF f = "fmc_dice_mldsa_signature" THEN Sign(kv[auth].mat, t)
                      ELSE IF f = "fmc_mldsa_pub_key" THEN out.mldsa_pub ELSE dv[f]]
      BY DEF IInv, stored, DvFields
    <2> QED
      BY <2>1, <2>2 DEF DvFields
  <1>3. CASE pc' = "Done"
    <2>1. /\ kv' = [kv EXCEPT ![auth] = Erased]
          /\ dv' = stored /\ tbs' = [tbs EXCEPT !.mldsa = t]
          /\ UNCHANGED fw_error_fatal
      BY <1>3 DEF MldsaCert, Fatal, t, stored, auth
    <2>2. /\ t.subject_pub = out.mldsa_pub
          /\ t.fmc_tci = dv.fmc_tci
          /\ t.fw_svn = dv.fw_svn
      <3>1. /\ t.subject_pub = out.mldsa_pub
            /\ t.fmc_tci = dv.fmc_tci
            /\ t.fw_svn = dv.fw_svn % 256
        BY DEF t, CertTbs
      <3>2. dv.fw_svn \in 0..128
        BY DEF IInv, MAX_FIRMWARE_SVN
      <3> QED
        BY <3>1, <3>2
    <2>3. /\ DOMAIN tbs' = {"ecc", "mldsa"}
          /\ tbs'.mldsa = t
          /\ tbs'.ecc = tbs.ecc
      BY <2>1 DEF IInv
    <2>4. /\ DOMAIN kv' = KeyIds
          /\ kv'[auth] = Erased
          /\ \A s \in KeyIds \ {auth} : kv'[s] = kv[s]
      BY <2>1 DEF IInv, TypeOK
    <2>5. FmcCdi' = FmcCdi
      BY <1>1 DEF FmcCdi
    <2>6. TypeOK'
      <3>1. \A s \in KeyIds : kv'[s].usage \subseteq KdfUsage \cup {"ecc_private_key"}
        BY <2>4 DEF IInv, TypeOK, Erased, Slot
      <3>2. IsKey("ECC_PUB", dv'.fmc_ecc_pub_key) /\ IsKey("MLDSA_PUB", dv'.fmc_mldsa_pub_key)
        BY <1>2, <2>1 DEF IInv, TypeOK, DvFields
      <3> QED
        BY <1>1, <1>3, <2>1, <2>4, <3>1, <3>2 DEF IInv, TypeOK
    <2> QED
      BY <1>1, <1>2, <1>3, <2>1, <2>2, <2>3, <2>4, <2>5, <2>6
         DEF IInv, DvFields, AliasEccPriv, AliasMldsaSeed
  <1>4. CASE pc' = "Fatal"
    <2>1. /\ tbs' = tbs
          /\ \E e \in {EngineError, KvReadError} : Fatal(e)
          /\ dv' \in {dv, stored}
      BY <1>4 DEF MldsaCert, Fatal, t, stored, auth
    <2>2. IsKey("ECC_PUB", dv'.fmc_ecc_pub_key) /\ IsKey("MLDSA_PUB", dv'.fmc_mldsa_pub_key)
      BY <1>2, <2>1 DEF IInv, TypeOK, DvFields
    <2>3. /\ DOMAIN dv' = DvFields
          /\ dv'.cold_boot_fw_svn \in SvnValues /\ dv'.fw_svn \in SvnValues
      BY <1>2, <2>1 DEF IInv, DvFields
    <2>4. PICK e \in {EngineError, KvReadError} : Fatal(e)
      BY <2>1
    <2> QED
      BY <1>1, <2>1, <2>2, <2>3, <2>4, FatalIInv DEF IInv
  <1> QED
    BY <1>3, <1>4 DEF MldsaCert, Fatal

\* Every step of derive, success or fatal, keeps IInv.
LEMMA NextIInv == IInv /\ [Next]_vars => IInv'
  <1> SUFFICES ASSUME IInv, [Next]_vars PROVE IInv'
    OBVIOUS
  <1>1. CASE DeriveCdi   BY <1>1, DeriveCdiIInv
  <1>2. CASE EccKeyGen   BY <1>2, EccKeyGenIInv
  <1>3. CASE MldsaKeyGen BY <1>3, MldsaKeyGenIInv
  <1>4. CASE SubjIds     BY <1>4, SubjIdsIInv
  <1>5. CASE EccCert     BY <1>5, EccCertIInv
  <1>6. CASE MldsaCert   BY <1>6, MldsaCertIInv
  <1>7. CASE UNCHANGED vars
    BY <1>7 DEF vars, IInv, TypeOK, FmcCdi, AliasEccPriv, AliasMldsaSeed
  <1> QED
    BY <1>1, <1>2, <1>3, <1>4, <1>5, <1>6, <1>7 DEF Next

\* The FMC alias layer keeps IInv from its first step on.
THEOREM IInvHolds == Spec => []IInv
  BY InitIInv, NextIInv, PTL DEF Spec

-----------------------------------------------------------------------------
(* The layer's invariants, for every value of the constants.               *)

\* Type correctness: the DiceOutput and the data vault's alias key entries
\* only ever hold public keys, and the key vault only the usages the layer
\* gives (derive with every engine call and fatal path).
THEOREM TypeCorrect == Spec => []TypeOK
  BY IInvHolds, PTL DEF IInv

\* When derive returns Ok, the alias CDI and the alias key pairs in the key
\* vault are derived from PCR0, and the data vault holds their public keys
\* (derive_cdi overwriting the LDevID CDI, derive_key_pair reading it).
LEMMA IInvKeysBound == IInv => AliasKeysBoundToPcr0
  BY DEF IInv, AliasKeysBoundToPcr0, AliasEccPriv, AliasMldsaSeed, Slot

\* The alias keys derive keeps are bound to PCR0's measurement, for every
\* fault setting, SVN and lifecycle.
THEOREM KeysBoundToPcr0 == Spec => []AliasKeysBoundToPcr0
  BY IInvHolds, IInvKeysBound, PTL

\* When derive returns Ok, both alias certificates verify under the LDevID
\* keys and certify the data vault's alias keys, FMC TCI and SVNs
\* (generate_cert_sig_ecc and _mldsa, the u8 SVN fields included).
LEMMA IInvCertsCertify == IInv => AliasCertsCertifyAliasKeys
  BY DEF IInv, AliasCertsCertifyAliasKeys, EccVerifies, MldsaVerifies, Sign,
         LDevIdEccPub, LDevIdMldsaPub

\* The alias certificates derive stores certify the alias keys it stores,
\* for every fault setting, SVN and lifecycle.
THEOREM CertsCertifyAliasKeys == Spec => []AliasCertsCertifyAliasKeys
  BY IInvHolds, IInvCertsCertify, PTL

\* Once derive returned or the ROM halted, no LDevID secret and no temporary
\* seed is left in the key vault (the erases of ecc384_key_gen and of the
\* certificate steps, and handle_fatal_error's zeroization).
LEMMA IInvNoSecret == IInv => NoLDevIdSecretLeft
  <1> SUFFICES ASSUME IInv, pc \in {"Done", "Fatal"} PROVE NoLDevIdSecretLeft
    BY DEF NoLDevIdSecretLeft
  <1>1. CASE pc = "Done"
    <2>1. kv[KEY_ID_ROM_FMC_CDI].mat = FmcCdi
      BY <1>1 DEF IInv, Slot
    <2>2. FmcCdi # LDevIdCdi
      BY KdfAssumption DEF IInv, TypeOK, FmcCdi
    <2> QED
      BY <1>1, <2>1, <2>2 DEF IInv, NoLDevIdSecretLeft
  <1>2. CASE pc = "Fatal"
    BY <1>2, FmcAliasAssumption DEF IInv, NoLDevIdSecretLeft, Erased, Slot
  <1> QED
    BY <1>1, <1>2

\* derive, whether it returns or fails, leaves no LDevID secret in the key
\* vault, for every fault setting, SVN and lifecycle.
THEOREM NoSecretLeft == Spec => []NoLDevIdSecretLeft
  BY IInvHolds, IInvNoSecret, PTL

=============================================================================
