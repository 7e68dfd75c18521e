--------------------------- MODULE BootFlowProofs ---------------------------
(***************************************************************************)
(* Proofs about the ROM reset flows (BootFlow), for every set of bundles,  *)
(* fuses, faults and ICCM range: the data vault describes the manifest of  *)
(* the running image, every byte of its load ranges lies in ICCM, and no   *)
(* step shortens the key ladder.  They rest on what a successful           *)
(* ImageVerifier::verify implies: every one of its checks passed.          *)
(***************************************************************************)
EXTENDS BootFlow, SequenceTheorems, TLAPS

\* A list of checks of the verifier none of which fails.
Passes(c) == \A i \in DOMAIN c : ~c[i][1]

\* x is a tuple of n entries.
IsTuple(x, n) == n \in Nat /\ x = [i \in 1..n |-> x[i]]

\* Concatenating check lists: the result is a tuple, and it passes only
\* if both parts do.
LEMMA PassesConcat ==
  ASSUME NEW s, NEW t, NEW n, NEW k, IsTuple(s, n), IsTuple(t, k)
  PROVE  /\ IsTuple(s \o t, n + k)
         /\ Passes(s \o t) => Passes(s) /\ Passes(t)
  <1> DEFINE S == {s[i] : i \in 1..n} \cup {t[i] : i \in 1..k}
  <1>0. s \in [1..n -> S] /\ t \in [1..k -> S]
    BY DEF IsTuple
  <1>1. s \in Seq(S) /\ t \in Seq(S)
    BY <1>0, SeqDef, ZenonT(40) DEF IsTuple
  <1>9. Len(s) = n /\ Len(t) = k
    BY <1>0, <1>1, LenProperties DEF IsTuple
  <1>2. /\ s \o t \in Seq(S)
        /\ Len(s \o t) = n + k
        /\ \A i \in 1 .. n + k : (s \o t)[i] = IF i <= n THEN s[i] ELSE t[i - n]
    BY <1>1, <1>9, ConcatProperties, ZenonT(40)
  <1>3. IsTuple(s \o t, n + k) /\ DOMAIN (s \o t) = 1..(n + k)
    BY <1>1, <1>9, <1>2 DEF IsTuple
  <1>4. ASSUME Passes(s \o t) PROVE Passes(s) /\ Passes(t)
    <2>1. Passes(s)
      <3> SUFFICES ASSUME NEW j \in DOMAIN s PROVE ~s[j][1]
        BY DEF Passes
      <3>1. j \in DOMAIN (s \o t) /\ (s \o t)[j] = s[j]
        BY <1>1, <1>9, <1>2, <1>3 DEF IsTuple
      <3> QED BY <3>1, <1>4 DEF Passes
    <2>2. Passes(t)
      <3> SUFFICES ASSUME NEW j \in DOMAIN t PROVE ~t[j][1]
        BY DEF Passes
      <3>1. j + n \in DOMAIN (s \o t) /\ (s \o t)[j + n] = t[j]
        BY <1>1, <1>9, <1>2, <1>3 DEF IsTuple
      <3> QED BY <3>1, <1>4 DEF Passes
    <2> QED BY <2>1, <2>2
  <1> QED BY <1>3, <1>4

\* The two halves of PassesConcat, each on its own.
LEMMA ConcatIsTuple ==
  ASSUME NEW s, NEW t, NEW n, NEW k, IsTuple(s, n), IsTuple(t, k)
  PROVE  IsTuple(s \o t, n + k)
  BY PassesConcat

LEMMA PassesSplit ==
  ASSUME NEW s, NEW t, NEW n, NEW k, IsTuple(s, n), IsTuple(t, k),
         Passes(s \o t)
  PROVE  Passes(s) /\ Passes(t)
  BY PassesConcat

\* Every check of a verification that succeeds passes, in particular the
\* checks of verify_owner_pk_digest, verify_vendor_*_pk_idx, verify_toc,
\* verify_fmc and verify_runtime.
LEMMA VerifyOkPasses ==
  ASSUME NEW m, NEW img, NEW sz, NEW r, NEW fz, NEW d,
         Verify(m, img, sz, r, fz, d).ok
  PROVE  /\ Passes(OwnerPkDigestChecks(m, r, fz, d))
         /\ Passes(VendorEccPkIdxChecks(m, r, fz, d))
         /\ Passes(VendorPqcPkIdxChecks(m, r, fz, d))
         /\ Passes(TocChecks(m, sz))
         /\ Passes(FmcChecks(m, img, r, d))
         /\ Passes(RuntimeChecks(m, img))
  <1> DEFINE Mc == ManifestChecks(m, fz)
             Vc == VendorPubKeyInfoChecks(m, fz)
             Ac == ActiveKeyChecks(m, fz)
             Oc == OwnerPkDigestChecks(m, r, fz, d)
             Ec == VendorEccPkIdxChecks(m, r, fz, d)
             Pc == VendorPqcPkIdxChecks(m, r, fz, d)
             Hc == HeaderChecks(m)
             Tc == TocChecks(m, sz)
             Fc == FmcChecks(m, img, r, d)
             Rc == RuntimeChecks(m, img)
             Sc == SvnChecks(m, fz)
             P1 == Mc \o Vc
             P2 == P1 \o Ac
             P3 == P2 \o Oc
             P4 == P3 \o Ec
             P5 == P4 \o Pc
             P6 == P5 \o Hc
             P7 == P6 \o Tc
             P8 == P7 \o Fc
             P9 == P8 \o Rc
  <1>1. /\ IsTuple(Mc, 4) /\ IsTuple(Vc, 9) /\ IsTuple(Ac, 4) /\ IsTuple(Oc, 2)
        /\ IsTuple(Ec, 3) /\ IsTuple(Pc, 3) /\ IsTuple(Tc, 10) /\ IsTuple(Fc, 7)
        /\ IsTuple(Rc, 6) /\ IsTuple(Sc, 2)
    <2>1. IsTuple(Mc, 4) /\ IsTuple(Vc, 9) /\ IsTuple(Ac, 4)
      BY DEF IsTuple, ManifestChecks, VendorPubKeyInfoChecks, ActiveKeyChecks
    <2>2. IsTuple(Oc, 2) /\ IsTuple(Ec, 3) /\ IsTuple(Pc, 3)
      BY DEF IsTuple, OwnerPkDigestChecks, VendorEccPkIdxChecks, VendorPqcPkIdxChecks
    <2>3. IsTuple(Tc, 10)
      BY DEF IsTuple, TocChecks
    <2>4. IsTuple(Fc, 7) /\ IsTuple(Rc, 6) /\ IsTuple(Sc, 2)
      BY DEF IsTuple, FmcChecks, RuntimeChecks, SvnChecks
    <2> QED BY <2>1, <2>2, <2>3, <2>4
  <1>2. IsTuple(Hc, 10)
    <2> DEFINE pre == m.preamble
               h == m.header
               Ev == EccSigChecks("VENDOR", pre.vendor_ecc_active_pub_key,
                                  pre.vendor_sigs.ecc_sig, Sha384(VendorHeader(h)))
               Pv == PqcSigChecks("VENDOR", m.pqc_key_type, pre.vendor_pqc_active_pub_key,
                                  pre.vendor_sigs.pqc_sig, VendorHeader(h))
               Eo == EccSigChecks("OWNER", pre.owner_pub_keys.ecc_pub_key,
                                  pre.owner_sigs.ecc_sig, Sha384(h))
               Po == PqcSigChecks("OWNER", m.pqc_key_type, pre.owner_pub_keys.pqc_pub_key,
                                  pre.owner_sigs.pqc_sig, h)
               Ix == << <<h.vendor_ecc_pub_key_idx # pre.vendor_ecc_pub_key_idx,
                          "VENDOR_ECC_PUB_KEY_INDEX_MISMATCH">>,
                        <<h.vendor_pqc_pub_key_idx # pre.vendor_pqc_pub_key_idx,
                          "VENDOR_PQC_PUB_KEY_INDEX_MISMATCH">> >>
    <2>1. IsTuple(Ev, 3) /\ IsTuple(Eo, 3) /\ IsTuple(Pv, 1) /\ IsTuple(Po, 1)
          /\ IsTuple(Ix, 2)
      <3>1. IsTuple(Ev, 3) /\ IsTuple(Eo, 3)
        BY DEF IsTuple, EccSigChecks
      <3>2. IsTuple(Pv, 1) /\ IsTuple(Po, 1)
        BY DEF IsTuple, PqcSigChecks
      <3>3. IsTuple(Ix, 2)
        BY DEF IsTuple
      <3> QED BY <3>1, <3>2, <3>3
    <2>2. IsTuple(Ev \o Pv, 3 + 1) /\ IsTuple(Eo \o Po, 3 + 1)
      BY <2>1, PassesConcat, Zenon
    <2>3. IsTuple((Ev \o Pv) \o Ix, (3 + 1) + 2)
      BY <2>1, <2>2, PassesConcat, Zenon
    <2>4. Hc = ((Ev \o Pv) \o Ix) \o (Eo \o Po)
      BY DEF HeaderChecks, VendorSigChecks, OwnerSigChecks
    <2>5. IsTuple(((Ev \o Pv) \o Ix) \o (Eo \o Po), ((3 + 1) + 2) + (3 + 1))
      BY <2>2, <2>3, PassesConcat, Zenon
    <2>6. ((3 + 1) + 2) + (3 + 1) = 10
      OBVIOUS
    <2> QED BY <2>4, <2>5, <2>6, Zenon
  <1>3. IsTuple(P1, 13)
    <2>1. IsTuple(Mc, 4) /\ IsTuple(Vc, 9) BY <1>1
    <2>2. IsTuple(Mc \o Vc, 4 + 9) BY <2>1, ConcatIsTuple
    <2> QED BY <2>2 DEF P1
  <1>4. IsTuple(P2, 17)
    <2>1. IsTuple(Ac, 4) BY <1>1
    <2>2. IsTuple(P1 \o Ac, 13 + 4) BY <1>3, <2>1, ConcatIsTuple
    <2> QED BY <2>2 DEF P2
  <1>5. IsTuple(P3, 19)
    <2>1. IsTuple(Oc, 2) BY <1>1
    <2>2. IsTuple(P2 \o Oc, 17 + 2) BY <1>4, <2>1, ConcatIsTuple
    <2> QED BY <2>2 DEF P3
  <1>6. IsTuple(P4, 22)
    <2>1. IsTuple(Ec, 3) BY <1>1
    <2>2. IsTuple(P3 \o Ec, 19 + 3) BY <1>5, <2>1, ConcatIsTuple
    <2> QED BY <2>2 DEF P4
  <1>7. IsTuple(P5, 25)
    <2>1. IsTuple(Pc, 3) BY <1>1
    <2>2. IsTuple(P4 \o Pc, 22 + 3) BY <1>6, <2>1, ConcatIsTuple
    <2> QED BY <2>2 DEF P5
  <1>8. IsTuple(P6, 35)
    <2>1. IsTuple(Hc, 10) BY <1>2
    <2>2. IsTuple(P5 \o Hc, 25 + 10) BY <1>7, <2>1, ConcatIsTuple
    <2> QED BY <2>2 DEF P6
  <1>9. IsTuple(P7, 45)
    <2>1. IsTuple(Tc, 10) BY <1>1
    <2>2. IsTuple(P6 \o Tc, 35 + 10) BY <1>8, <2>1, ConcatIsTuple
    <2> QED BY <2>2 DEF P7
  <1>10. IsTuple(P8, 52)
    <2>1. IsTuple(Fc, 7) BY <1>1
    <2>2. IsTuple(P7 \o Fc, 45 + 7) BY <1>9, <2>1, ConcatIsTuple
    <2> QED BY <2>2 DEF P8
  <1>11. IsTuple(P9, 58)
    <2>1. IsTuple(Rc, 6) BY <1>1
    <2>2. IsTuple(P8 \o Rc, 52 + 6) BY <1>10, <2>1, ConcatIsTuple
    <2> QED BY <2>2 DEF P9
  <1>12. Passes(P9 \o Sc)
    BY DEF Verify, Passes, Checks, P9, P8, P7, P6, P5, P4, P3, P2, P1, Mc, Vc, Ac, Oc,
           Ec, Pc, Hc, Tc, Fc, Rc, Sc
  <1>13. Passes(P9) /\ Passes(Sc)
    <2>1. IsTuple(Sc, 2) BY <1>1
    <2> QED BY <1>11, <1>12, <2>1, PassesSplit
  <1>14. Passes(P8) /\ Passes(Rc)
    <2>1. Passes(P8 \o Rc) BY <1>13, Zenon DEF P9
    <2>2. IsTuple(Rc, 6) BY <1>1
    <2> QED BY <1>10, <2>1, <2>2, PassesSplit
  <1>15. Passes(P7) /\ Passes(Fc)
    <2>1. Passes(P7 \o Fc) BY <1>14, Zenon DEF P8
    <2>2. IsTuple(Fc, 7) BY <1>1
    <2> QED BY <1>9, <2>1, <2>2, PassesSplit
  <1>16. Passes(P6) /\ Passes(Tc)
    <2>1. Passes(P6 \o Tc) BY <1>15, Zenon DEF P7
    <2>2. IsTuple(Tc, 10) BY <1>1
    <2> QED BY <1>8, <2>1, <2>2, PassesSplit
  <1>17. Passes(P5)
    <2>1. Passes(P5 \o Hc) BY <1>16, Zenon DEF P6
    <2>2. IsTuple(Hc, 10) BY <1>2
    <2> QED BY <1>7, <2>1, <2>2, PassesSplit
  <1>18. Passes(P4) /\ Passes(Pc)
    <2>1. Passes(P4 \o Pc) BY <1>17, Zenon DEF P5
    <2>2. IsTuple(Pc, 3) BY <1>1
    <2> QED BY <1>6, <2>1, <2>2, PassesSplit
  <1>19. Passes(P3) /\ Passes(Ec)
    <2>1. Passes(P3 \o Ec) BY <1>18, Zenon DEF P4
    <2>2. IsTuple(Ec, 3) BY <1>1
    <2> QED BY <1>5, <2>1, <2>2, PassesSplit
  <1>20. Passes(P2) /\ Passes(Oc)
    <2>1. Passes(P2 \o Oc) BY <1>19, Zenon DEF P3
    <2>2. IsTuple(Oc, 2) BY <1>1
    <2> QED BY <1>4, <2>1, <2>2, PassesSplit
  <1> QED BY <1>14, <1>15, <1>16, <1>18, <1>19, <1>20
-----------------------------------------------------------------------------
(* The inductive invariant.                                                *)

ColdPhases == {"ColdMbox", "ColdKeyLadder", "ColdFmcAlias"}
UpdPhases == {"UpdVerify", "UpdPopulate", "UpdLoad", "UpdCommit"}
VerifiedPhases == {"UpdPopulate", "UpdLoad", "UpdCommit"}
DvFields == {"fmc_tci", "rt_tci", "owner_pk_hash", "vendor_ecc_pk_index",
             "vendor_pqc_pk_index", "fw_svn", "fw_min_svn", "cold_boot_status",
             "update_reset_status"}
BundleManifests == {b.manifest : b \in Bundles}

\* What the vault holds of manifest m at all times after a cold boot: the
\* owner key digest, vendor key indices and FMC digest.
VaultCore(m, v) ==
    /\ Sha384(m.preamble.owner_pub_keys) = v.owner_pk_hash
    /\ m.preamble.vendor_ecc_pub_key_idx = v.vendor_ecc_pk_index
    /\ m.preamble.vendor_pqc_pub_key_idx = v.vendor_pqc_pk_index
    /\ m.fmc.digest = v.fmc_tci

\* What the vault holds of manifest m outside an update reset: the runtime
\* digest and the SVN.
VaultRuntime(m, v) ==
    m.runtime.digest = v.rt_tci /\ m.header.svn = v.fw_svn

\* The load ranges of manifest m lie in ICCM.
LoadOk(m) ==
    \A e \in {m.fmc, m.runtime} :
        e.load_addr..(e.load_addr + e.size - 1) \subseteq IccmAddrs

\* The flows keep these facts between their steps: a cold boot in progress
\* has the vault's status entries clear and no ladder until it builds one;
\* from the population of the vault on, the vault describes manifest1
\* (cold boot) or, from a successful update verification on, manifest2
\* (update reset), whose load ranges verify_toc, verify_fmc and
\* verify_runtime have checked.
IInv ==
    /\ pc \in Phases
    /\ DOMAIN dv = DvFields
    /\ ladder \in {NoLadder} \cup Nat
    /\ dv.fw_svn \in Nat /\ dv.fw_min_svn \in Nat
    /\ pc \in ColdPhases =>
           dv.cold_boot_status = "None" /\ dv.update_reset_status = "None"
    /\ pc \in {"ColdMbox", "ColdKeyLadder"} => ladder = NoLadder
    /\ pc \in {"ColdKeyLadder", "ColdFmcAlias"} =>
           /\ VaultCore(manifest1, dv) /\ VaultRuntime(manifest1, dv)
           /\ LoadOk(manifest1)
    /\ pc \in {"Running", "UpdStart"} \cup UpdPhases =>
           dv.cold_boot_status = "ColdResetComplete"
    /\ pc \in {"UpdStart"} \cup UpdPhases => mbox \in Bundles \cup {OtherCommand}
    /\ pc \in UpdPhases => dv.update_reset_status = "UpdateResetStarted"
    /\ dv.cold_boot_status = "ColdResetComplete" =>
           /\ VaultCore(manifest1, dv) /\ LoadOk(manifest1)
           /\ dv.update_reset_status # "UpdateResetStarted" =>
                  VaultRuntime(manifest1, dv)
    /\ pc \in VerifiedPhases =>
           /\ manifest2 \in BundleManifests
           /\ vinfo = VerificationInfo(manifest2, Fuses)
           /\ VaultCore(manifest2, dv) /\ LoadOk(manifest2)
    /\ pc \in {"UpdLoad", "UpdCommit"} => VaultRuntime(manifest2, dv)

-----------------------------------------------------------------------------
(* What a successful verification establishes.                             *)

\* u32 arithmetic is integer arithmetic: the word size is an integer.
LEMMA WordIsInt == Word \in Int
  BY VerifierAssumption DEF Word

\* Entry i of a passing check list does not fail.
LEMMA PassesEntry ==
  ASSUME NEW c, NEW i, NEW fails, Passes(c), i \in DOMAIN c, c[i][1] = fails
  PROVE  ~fails
  BY Zenon DEF Passes

\* verify_toc, verify_fmc and verify_runtime passing put the load ranges
\* in ICCM: the size is not zero, the end address does not wrap, and both
\* ends are in the ICCM range.
LEMMA ChecksLoadOk ==
  ASSUME NEW m, NEW img, NEW sz, NEW r, NEW d,
         \A e \in {m.fmc, m.runtime} : e.load_addr \in Nat /\ e.size \in Nat,
         Passes(TocChecks(m, sz)), Passes(FmcChecks(m, img, r, d)),
         Passes(RuntimeChecks(m, img))
  PROVE  LoadOk(m)
  <1> DEFINE Tc == TocChecks(m, sz)
             Fc == FmcChecks(m, img, r, d)
             Rc == RuntimeChecks(m, img)
  <1>1. /\ {3, 4, 8, 9} \subseteq DOMAIN Tc
        /\ Tc[3][1] = (m.fmc.size = 0) /\ Tc[4][1] = (m.runtime.size = 0)
        /\ Tc[8][1] = LoadOverflow(m.fmc) /\ Tc[9][1] = LoadOverflow(m.runtime)
    <2>1. {3, 4, 8, 9} \subseteq DOMAIN Tc
      BY DEF Tc, TocChecks
    <2>2. Tc[3][1] = (m.fmc.size = 0) /\ Tc[4][1] = (m.runtime.size = 0)
      BY DEF Tc, TocChecks
    <2>3. Tc[8][1] = LoadOverflow(m.fmc) /\ Tc[9][1] = LoadOverflow(m.runtime)
      BY DEF Tc, TocChecks
    <2> QED BY <2>1, <2>2, <2>3
  <1>2. /\ 3 \in DOMAIN Fc /\ 3 \in DOMAIN Rc
        /\ Fc[3][1] = (~InIccm(m.fmc.load_addr) \/ ~InIccm(LoadEnd(m.fmc)))
        /\ Rc[3][1] = (~InIccm(m.runtime.load_addr) \/ ~InIccm(LoadEnd(m.runtime)))
    <2>1. 3 \in DOMAIN Fc /\ Fc[3][1] = (~InIccm(m.fmc.load_addr) \/ ~InIccm(LoadEnd(m.fmc)))
      BY DEF Fc, FmcChecks
    <2>2. 3 \in DOMAIN Rc
          /\ Rc[3][1] = (~InIccm(m.runtime.load_addr) \/ ~InIccm(LoadEnd(m.runtime)))
      BY DEF Rc, RuntimeChecks
    <2> QED BY <2>1, <2>2
  <1>3. /\ m.fmc.size # 0 /\ m.runtime.size # 0
        /\ ~LoadOverflow(m.fmc) /\ ~LoadOverflow(m.runtime)
    BY <1>1, PassesEntry, Zenon
  <1>4. /\ InIccm(m.fmc.load_addr) /\ InIccm(LoadEnd(m.fmc))
        /\ InIccm(m.runtime.load_addr) /\ InIccm(LoadEnd(m.runtime))
    BY <1>2, PassesEntry, Zenon
  <1>5. ASSUME NEW e \in {m.fmc, m.runtime}, e.size # 0, ~LoadOverflow(e),
               InIccm(e.load_addr), InIccm(LoadEnd(e))
        PROVE  e.load_addr..(e.load_addr + e.size - 1) \subseteq IccmAddrs
    <2>1. /\ e.load_addr \in Nat /\ e.size \in Nat \ {0}
          /\ e.load_addr + e.size - 1 < Word
      BY <1>5, WordIsInt DEF LoadOverflow
    <2>2. \A x \in Nat : x < Word => x % Word = x
      BY WordIsInt
    <2>3. LoadEnd(e) = e.load_addr + e.size - 1
      BY <2>1, <2>2 DEF LoadEnd
    <2> QED BY <1>5, <2>1, <2>3, VerifierAssumption DEF InIccm, IccmAddrs
  <1> QED BY <1>3, <1>4, <1>5 DEF LoadOk

\* An update-reset verification that passes verify_owner_pk_digest,
\* verify_vendor_ecc_pk_idx, verify_vendor_pqc_pk_idx and verify_fmc
\* matches what the vault holds of the cold-booted image.
LEMMA ChecksVaultCore ==
  ASSUME NEW m, NEW img, NEW fz, NEW d,
         Passes(OwnerPkDigestChecks(m, "UpdateReset", fz, d)),
         Passes(VendorEccPkIdxChecks(m, "UpdateReset", fz, d)),
         Passes(VendorPqcPkIdxChecks(m, "UpdateReset", fz, d)),
         Passes(FmcChecks(m, img, "UpdateReset", d))
  PROVE  VaultCore(m, d)
  <1> DEFINE Oc == OwnerPkDigestChecks(m, "UpdateReset", fz, d)
             Ec == VendorEccPkIdxChecks(m, "UpdateReset", fz, d)
             Pc == VendorPqcPkIdxChecks(m, "UpdateReset", fz, d)
             Fc == FmcChecks(m, img, "UpdateReset", d)
             digest == ImageDigest(img, m.fmc)
  <1>1. /\ 2 \in DOMAIN Oc
        /\ Oc[2][1] = (d.owner_pk_hash # Sha384(m.preamble.owner_pub_keys))
    BY DEF Oc, OwnerPkDigestChecks
  <1>2. /\ 3 \in DOMAIN Ec /\ 3 \in DOMAIN Pc
        /\ Ec[3][1] = (d.vendor_ecc_pk_index # m.preamble.vendor_ecc_pub_key_idx)
        /\ Pc[3][1] = (d.vendor_pqc_pk_index # m.preamble.vendor_pqc_pub_key_idx)
    BY DEF Ec, Pc, VendorEccPkIdxChecks, VendorPqcPkIdxChecks
  <1>3. /\ {1, 2, 7} \subseteq DOMAIN Fc
        /\ Fc[1][1] = ~InSram(img, m.fmc)
        /\ Fc[2][1] = (InSram(img, m.fmc) /\ digest # m.fmc.digest)
        /\ Fc[7][1] = (digest # d.fmc_tci)
    BY DEF Fc, FmcChecks, digest
  <1>4. /\ Sha384(m.preamble.owner_pub_keys) = d.owner_pk_hash
        /\ m.preamble.vendor_ecc_pub_key_idx = d.vendor_ecc_pk_index
        /\ m.preamble.vendor_pqc_pub_key_idx = d.vendor_pqc_pk_index
    BY <1>1, <1>2, PassesEntry, Zenon
  <1>5. m.fmc.digest = d.fmc_tci
    BY <1>3, PassesEntry, Zenon
  <1> QED BY <1>4, <1>5 DEF VaultCore

-----------------------------------------------------------------------------
(* The invariant is inductive.                                             *)

USE DEF Phases, ColdPhases, UpdPhases, VerifiedPhases, DvFields, NoLadder

\* The ROM's first cold boot starts in a state of the invariant.
LEMMA InitIInv == Init => IInv
  BY DEF Init, IInv, ColdVault

\* A cold-boot verification that succeeds commits the manifest to the vault
\* (populate_data_vault) with load ranges in ICCM.
LEMMA ColdFwProcessIInv ==
  ASSUME IInv, NEW b \in Bundles, ColdFwProcess(b)
  PROVE  IInv'
  <1> DEFINE r == Verify(b.manifest, b.image, Len(b.image), "ColdReset", Fuses, dv)
             info == VerificationInfo(b.manifest, Fuses)
             m == b.manifest
  <1>1. pc = "ColdMbox" /\ manifest1' = m
        /\ dv.cold_boot_status = "None" /\ dv.update_reset_status = "None"
        /\ ladder = NoLadder
    BY DEF ColdFwProcess, IInv
  <1>2. m.header.svn \in Nat
        /\ \A e \in {m.fmc, m.runtime} : e.load_addr \in Nat /\ e.size \in Nat
    BY BundleFieldsAssumption
  <1>3. CASE ~r.ok
    <2>1. pc' = "Fatal" /\ ladder' = NoLadder /\ dv' = dv
      BY <1>3, SMTT(30) DEF ColdFwProcess, FatalError
    <2> QED BY <1>1, <2>1 DEF IInv
  <1>4. CASE r.ok
    <2>1. pc' = "ColdKeyLadder" /\ ladder' = NoLadder
          /\ dv' = ColdPopulateVault(dv, r.info)
      BY <1>1, <1>4, SMTT(30) DEF ColdFwProcess
    <2>2. r.info = info
      BY <1>4 DEF Verify
    <2>3. /\ DOMAIN dv' = DvFields
          /\ dv'.fmc_tci = m.fmc.digest /\ dv'.rt_tci = m.runtime.digest
          /\ dv'.owner_pk_hash = Sha384(m.preamble.owner_pub_keys)
          /\ dv'.vendor_ecc_pk_index = m.preamble.vendor_ecc_pub_key_idx
          /\ dv'.vendor_pqc_pk_index = m.preamble.vendor_pqc_pub_key_idx
          /\ dv'.fw_svn = m.header.svn /\ dv'.fw_min_svn = m.header.svn
          /\ dv'.cold_boot_status = "None" /\ dv'.update_reset_status = "None"
      BY <1>1, <2>1, <2>2 DEF IInv, ColdPopulateVault, VerificationInfo, ExeInfo
    <2>4. LoadOk(m)
      BY <1>2, <1>4, VerifyOkPasses, ChecksLoadOk
    <2> QED BY <1>1, <1>2, <2>1, <2>3, <2>4 DEF IInv, VaultCore, VaultRuntime
  <1> QED BY <1>3, <1>4

\* populate_fw_key_ladder builds a ladder of MAX_FIRMWARE_SVN - fw_svn links.
LEMMA ColdKeyLadderIInv ==
  ASSUME IInv, ColdKeyLadder
  PROVE  IInv'
  <1>0. dv.fw_svn \in Nat /\ MAX_FIRMWARE_SVN \in Nat
    BY VerifierAssumption DEF IInv
  <1>1. CASE dv.fw_svn > MAX_FIRMWARE_SVN
    <2>1. ~(dv.fw_svn <= MAX_FIRMWARE_SVN)
      BY <1>0, <1>1
    <2>2. pc' = "Fatal" /\ ladder' = NoLadder
      BY <2>1 DEF ColdKeyLadder, FatalError
    <2> QED BY <2>2 DEF ColdKeyLadder, IInv
  <1>2. CASE dv.fw_svn <= MAX_FIRMWARE_SVN
    <2>0. ~(dv.fw_svn > MAX_FIRMWARE_SVN)
      BY <1>0, <1>2
    <2>1. ladder' = MAX_FIRMWARE_SVN - dv.fw_svn /\ pc' = "ColdFmcAlias"
      BY <2>0 DEF ColdKeyLadder
    <2>2. ladder' \in Nat
      BY <1>2, <2>1, VerifierAssumption DEF IInv
    <2> QED BY <2>1, <2>2 DEF ColdKeyLadder, IInv
  <1> QED BY <1>0, <1>1, <1>2

\* The cold boot completes with the vault describing manifest1.
LEMMA ColdFmcAliasIInv ==
  ASSUME IInv, ColdFmcAlias
  PROVE  IInv'
  <1>1. /\ DOMAIN dv' = DvFields
        /\ dv'.cold_boot_status = "ColdResetComplete"
        /\ \A f \in DvFields \ {"cold_boot_status"} : dv'[f] = dv[f]
    BY DEF ColdFmcAlias, IInv
  <1> QED BY <1>1 DEF ColdFmcAlias, IInv, VaultCore, VaultRuntime

\* The running firmware's update reset only takes the pending transaction.
LEMMA UpdateResetIInv ==
  ASSUME IInv, NEW b \in Bundles \cup {OtherCommand}, UpdateReset(b)
  PROVE  IInv'
  BY DEF UpdateReset, IInv

\* UpdateResetFlow::run records the start of the update in the vault.
LEMMA UpdStartIInv ==
  ASSUME IInv, UpdStart
  PROVE  IInv'
  <1>1. /\ DOMAIN dv' = DvFields
        /\ dv'.update_reset_status = "UpdateResetStarted"
        /\ \A f \in DvFields \ {"update_reset_status"} : dv'[f] = dv[f]
    BY DEF UpdStart, IInv
  <1> QED BY <1>1 DEF UpdStart, IInv, VaultCore, VaultRuntime

\* An update verification that succeeds (verify_image with reason
\* UpdateReset) makes manifest2 one the vault describes, with load ranges
\* in ICCM; any other outcome hands back to the running firmware.
LEMMA UpdVerifyIInv ==
  ASSUME IInv, UpdVerify
  PROVE  IInv'
  <1> DEFINE r == Verify(mbox.manifest, mbox.image, Len(mbox.image), "UpdateReset",
                         Fuses, dv)
             m == mbox.manifest
  <1>0. pc = "UpdVerify" /\ UNCHANGED <<dv, manifest1, ladder>>
    BY DEF UpdVerify
  <1>1. CASE mbox = OtherCommand
    <2>1. pc' = "Running"
      BY <1>1 DEF UpdVerify, UpdateFailed
    <2> QED BY <1>0, <2>1 DEF IInv
  <1>2. CASE mbox # OtherCommand /\ ~r.ok
    <2>1. pc' = "Running"
      BY <1>2 DEF UpdVerify, UpdateFailed
    <2> QED BY <1>0, <2>1 DEF IInv
  <1>3. CASE mbox # OtherCommand /\ r.ok
    <2>1. pc' = "UpdPopulate" /\ manifest2' = m /\ vinfo' = r.info /\ mbox' = mbox
      BY <1>3 DEF UpdVerify, UpdateFailed
    <2>2. mbox \in Bundles
      BY <1>0, <1>3, SMTT(30) DEF IInv
    <2>3. r.info = VerificationInfo(m, Fuses)
      BY <1>3 DEF Verify
    <2>4. \A e \in {m.fmc, m.runtime} : e.load_addr \in Nat /\ e.size \in Nat
      BY <2>2, BundleFieldsAssumption
    <2>5. LoadOk(m)
      BY <1>3, <2>4, VerifyOkPasses, ChecksLoadOk
    <2>6. VaultCore(m, dv)
      BY <1>3, VerifyOkPasses, ChecksVaultCore
    <2>7. m \in BundleManifests
      BY <2>2 DEF BundleManifests
    <2> QED BY <1>0, <2>1, <2>3, <2>5, <2>6, <2>7 DEF IInv
  <1> QED BY <1>1, <1>2, <1>3

\* populate_data_vault writes the runtime digest, SVN and min-SVN of
\* manifest2 and extends the ladder by the min-SVN decrement; the engine
\* failures after it hand back to the running firmware mid-update.
LEMMA UpdPopulateIInv ==
  ASSUME IInv, UpdPopulate
  PROVE  IInv'
  <1> DEFINE old_min == dv.fw_min_svn
             new_min == IF vinfo.fw_svn < old_min THEN vinfo.fw_svn ELSE old_min
             decrement_by == old_min - new_min
             m == manifest2
  <1>0. /\ pc = "UpdPopulate" /\ UNCHANGED <<manifest1, manifest2>>
        /\ m \in BundleManifests /\ vinfo = VerificationInfo(m, Fuses)
    BY DEF UpdPopulate, IInv
  <1>1. /\ vinfo.fw_svn = m.header.svn /\ vinfo.runtime.digest = m.runtime.digest
        /\ m.header.svn \in Nat
    <2>1. vinfo.fw_svn = m.header.svn /\ vinfo.runtime.digest = m.runtime.digest
      BY <1>0 DEF VerificationInfo, ExeInfo
    <2>2. m.header.svn \in Nat
      BY <1>0, BundleFieldsAssumption DEF BundleManifests
    <2> QED BY <2>1, <2>2
  <1>2. new_min \in Nat /\ decrement_by \in Nat
    BY <1>1 DEF IInv
  <1>3. /\ DOMAIN dv' = DvFields
        /\ dv'.rt_tci = m.runtime.digest
        /\ dv'.fw_svn = m.header.svn
        /\ dv'.fw_min_svn = new_min
        /\ \A f \in DvFields \ {"rt_tci", "fw_svn", "fw_min_svn"} : dv'[f] = dv[f]
    BY <1>0, <1>1 DEF UpdPopulate, IInv
  <1>4. ladder' \in {NoLadder} \cup Nat
    <2>1. \A k \in Nat : ExtendLadder(ladder, k) \in {NoLadder} \cup Nat
      BY DEF ExtendLadder, IInv
    <2>2. \/ ladder' = ExtendLadder(ladder, decrement_by)
          \/ \E k \in 0..(decrement_by - 1) : ladder' = ExtendLadder(ladder, k)
      BY DEF UpdPopulate
    <2> QED BY <1>2, <2>1, <2>2
  <1>5. pc' \in {"UpdLoad", "Running"}
        /\ (pc' = "UpdLoad" => UNCHANGED <<mbox, vinfo>>)
    BY DEF UpdPopulate, UpdateFailed
  <1> QED BY <1>0, <1>1, <1>2, <1>3, <1>4, <1>5 DEF IInv, VaultCore, VaultRuntime

\* load_image writes only ICCM, whichever way the copy ends.
LEMMA UpdLoadIInv ==
  ASSUME IInv, UpdLoad
  PROVE  IInv'
  <1>1. /\ pc = "UpdLoad" /\ UNCHANGED <<dv, manifest1, manifest2, ladder>>
        /\ pc' \in {"UpdCommit", "Running"}
        /\ (pc' = "UpdCommit" => UNCHANGED <<mbox, vinfo>>)
    BY DEF UpdLoad, UpdateFailed
  <1> QED BY <1>1 DEF IInv

\* The update completes: manifest1 becomes the verified manifest2, which
\* the vault describes in full.
LEMMA UpdCommitIInv ==
  ASSUME IInv, UpdCommit
  PROVE  IInv'
  <1>1. /\ pc = "UpdCommit" /\ pc' = "Running" /\ manifest1' = manifest2
        /\ UNCHANGED <<manifest2, ladder>>
    BY DEF UpdCommit
  <1>2. /\ DOMAIN dv' = DvFields
        /\ dv'.update_reset_status = "UpdateResetComplete"
        /\ \A f \in DvFields \ {"update_reset_status"} : dv'[f] = dv[f]
    BY DEF UpdCommit, IInv
  <1> QED BY <1>1, <1>2 DEF IInv, VaultCore, VaultRuntime

\* A cold reset clears everything, as the ROM's first boot does.
LEMMA ColdResetIInv ==
  ASSUME IInv, ColdReset
  PROVE  IInv'
  BY DEF ColdReset, IInv, ColdVault

\* A warm reset relaunches the firmware only after a completed cold boot.
LEMMA WarmResetIInv ==
  ASSUME IInv, WarmReset
  PROVE  IInv'
  <1>1. UNCHANGED <<dv, manifest1, manifest2>>
    BY DEF WarmReset
  <1>2. \/ pc' = "Fatal" /\ ladder' = NoLadder
        \/ pc' = "Running" /\ ladder' = ladder
              /\ dv.cold_boot_status = "ColdResetComplete"
    BY DEF WarmReset, FatalError
  <1> QED BY <1>1, <1>2 DEF IInv

\* An unknown reset is fatal and zeroizes the key vault.
LEMMA UnknownResetIInv ==
  ASSUME IInv, UnknownReset
  PROVE  IInv'
  BY DEF UnknownReset, FatalError, IInv

\* Every step of the reset flows keeps the invariant.
LEMMA NextIInv == IInv /\ [Next]_vars => IInv'
  <1> SUFFICES ASSUME IInv, [Next]_vars PROVE IInv'
    OBVIOUS
  <1>1. CASE \E b \in Bundles : ColdFwProcess(b)
    BY <1>1, ColdFwProcessIInv
  <1>2. CASE ColdKeyLadder
    BY <1>2, ColdKeyLadderIInv
  <1>3. CASE ColdFmcAlias
    BY <1>3, ColdFmcAliasIInv
  <1>4. CASE \E b \in Bundles \cup {OtherCommand} : UpdateReset(b)
    BY <1>4, UpdateResetIInv, SMTT(30)
  <1>5. CASE UpdStart
    BY <1>5, UpdStartIInv
  <1>6. CASE UpdVerify
    BY <1>6, UpdVerifyIInv
  <1>7. CASE UpdPopulate
    BY <1>7, UpdPopulateIInv
  <1>8. CASE UpdLoad
    BY <1>8, UpdLoadIInv
  <1>9. CASE UpdCommit
    BY <1>9, UpdCommitIInv
  <1>10. CASE ColdReset
    BY <1>10, ColdResetIInv
  <1>11. CASE WarmReset
    BY <1>11, WarmResetIInv
  <1>12. CASE UnknownReset
    BY <1>12, UnknownResetIInv
  <1>13. CASE UNCHANGED vars
    BY <1>13 DEF vars, IInv, VaultCore, VaultRuntime, LoadOk
  <1> QED BY <1>1, <1>2, <1>3, <1>4, <1>5, <1>6, <1>7, <1>8, <1>9, <1>10,
             <1>11, <1>12, <1>13 DEF Next

-----------------------------------------------------------------------------
(* The theorems.                                                           *)

\* The flows keep the inductive invariant from the first cold boot on.
THEOREM IInvHolds == Spec => []IInv
  BY InitIInv, NextIInv, PTL DEF Spec

\* Whenever the FMC runs, the data vault holds the owner key digest, vendor
\* key indices and FMC digest of the manifest it runs from, and its runtime
\* digest and SVN unless an update reset was left half done
\* (populate_data_vault at cold boot and the update-reset equality checks
\* of ImageVerifier::verify), for every bundle set, fuse bank and fault set.
THEOREM VaultDescribesManifest == Spec => []VaultDescribesRunningManifest
  <1>1. IInv => VaultDescribesRunningManifest
    BY DEF IInv, VaultDescribesRunningManifest, VaultCore, VaultRuntime
  <1> QED BY <1>1, IInvHolds, PTL

\* Whenever the FMC runs, the FMC and runtime load ranges of its manifest
\* lie in ICCM without u32 wrap-around: verify_fmc and verify_runtime check
\* the wrapped end address, which verify_toc's overflowing_add checks make
\* the true one.
THEOREM LoadRangesInIccmHolds == Spec => []LoadRangesInIccm
  <1>1. IInv => LoadRangesInIccm
    BY DEF IInv, LoadRangesInIccm, LoadOk
  <1> QED BY <1>1, IInvHolds, PTL

\* One step never shortens a ladder the key vault holds: only
\* populate_fw_key_ladder builds one, and only when there is none, and the
\* update reset extends it by a min-SVN decrement that is never negative.
LEMMA LadderStep ==
  IInv /\ [Next]_vars => (ladder # NoLadder /\ ladder' # NoLadder => ladder' >= ladder)
  <1> SUFFICES ASSUME IInv, [Next]_vars, ladder # NoLadder, ladder' # NoLadder
               PROVE  ladder' >= ladder
    OBVIOUS
  <1>0. ladder \in Nat
    BY DEF IInv
  <1>1. CASE UpdPopulate
    <2> DEFINE old_min == dv.fw_min_svn
               new_min == IF vinfo.fw_svn < old_min THEN vinfo.fw_svn ELSE old_min
               decrement_by == old_min - new_min
    <2>1. vinfo.fw_svn \in Nat /\ old_min \in Nat
      <3>1. manifest2 \in BundleManifests /\ vinfo = VerificationInfo(manifest2, Fuses)
        BY <1>1 DEF UpdPopulate, IInv
      <3> QED BY <3>1, BundleFieldsAssumption DEF VerificationInfo, BundleManifests, IInv
    <2>2. \E k \in Nat : ladder' = ExtendLadder(ladder, k)
      <3>1. decrement_by \in Nat
        BY <2>1
      <3>2. \/ ladder' = ExtendLadder(ladder, decrement_by)
            \/ \E k \in 0..(decrement_by - 1) : ladder' = ExtendLadder(ladder, k)
        BY <1>1 DEF UpdPopulate
      <3> QED BY <3>1, <3>2
    <2> QED BY <1>0, <2>2 DEF ExtendLadder
  <1>2. CASE ColdKeyLadder
    BY <1>2 DEF ColdKeyLadder, IInv
  <1>3. CASE ~UpdPopulate /\ ~ColdKeyLadder
    <2>1. ladder' = ladder \/ ladder' = NoLadder
      BY <1>3 DEF Next, vars, ColdFwProcess, ColdFmcAlias, UpdateReset, UpdStart,
                  UpdVerify, UpdLoad, UpdCommit, ColdReset, WarmReset, UnknownReset,
                  FatalError
    <2> QED BY <1>0, <2>1
  <1> QED BY <1>1, <1>2, <1>3

\* The key ladder the key vault holds is never shortened (an update reset
\* only extends it), for every MAX_FIRMWARE_SVN, bundle set and fault set.
THEOREM LadderNeverShortened == Spec => KeyLadderNeverShortened
  BY IInvHolds, LadderStep, PTL DEF Spec, KeyLadderNeverShortened

\* Without key-ladder engine failures the ladder always has MAX_FIRMWARE_SVN
\* - min-SVN links, and populate_fw_key_ladder runs with the min-SVN equal
\* to the SVN.
LadderInv ==
    /\ ladder # NoLadder => ladder = MAX_FIRMWARE_SVN - dv.fw_min_svn
    /\ pc = "ColdKeyLadder" => dv.fw_min_svn = dv.fw_svn

\* Without key-ladder faults, every step keeps LadderInv.
LEMMA LadderInvStep ==
  ASSUME "KeyLadder" \notin Faults, IInv, LadderInv, [Next]_vars
  PROVE  LadderInv'
  <1>1. CASE \E b \in Bundles : ColdFwProcess(b)
    <2>1. PICK b \in Bundles : ColdFwProcess(b)
      BY <1>1
    <2> DEFINE r == Verify(b.manifest, b.image, Len(b.image), "ColdReset", Fuses, dv)
    <2>2. CASE r.ok
      <3>1. ladder' = NoLadder /\ pc' = "ColdKeyLadder"
            /\ dv' = ColdPopulateVault(dv, r.info)
        BY <2>1, <2>2 DEF ColdFwProcess, IInv
      <3>2. dv'.fw_min_svn = dv'.fw_svn
        BY <3>1 DEF ColdPopulateVault, IInv
      <3> QED BY <3>1, <3>2 DEF LadderInv
    <2>3. CASE ~r.ok
      BY <2>1, <2>3 DEF ColdFwProcess, FatalError, LadderInv
    <2> QED BY <2>2, <2>3
  <1>2. CASE ColdKeyLadder
    BY <1>2 DEF ColdKeyLadder, FatalError, LadderInv
  <1>3. CASE ColdFmcAlias
    <2>1. dv'.fw_min_svn = dv.fw_min_svn
      BY <1>3 DEF ColdFmcAlias, IInv
    <2> QED BY <1>3, <2>1 DEF ColdFmcAlias, LadderInv
  <1>4. CASE UpdStart
    <2>1. dv'.fw_min_svn = dv.fw_min_svn
      BY <1>4 DEF UpdStart, IInv
    <2> QED BY <1>4, <2>1 DEF UpdStart, LadderInv
  <1>5. CASE UpdCommit
    <2>1. dv'.fw_min_svn = dv.fw_min_svn
      BY <1>5 DEF UpdCommit, IInv
    <2> QED BY <1>5, <2>1 DEF UpdCommit, LadderInv
  <1>6. CASE UpdPopulate
    <2> DEFINE old_min == dv.fw_min_svn
               new_min == IF vinfo.fw_svn < old_min THEN vinfo.fw_svn ELSE old_min
               decrement_by == old_min - new_min
    <2>1. pc' # "ColdKeyLadder" /\ dv'.fw_min_svn = new_min
          /\ ladder' = ExtendLadder(ladder, decrement_by)
      BY <1>6, SMTT(30) DEF UpdPopulate, UpdateFailed, IInv
    <2>2. vinfo.fw_svn \in Nat /\ old_min \in Nat
      <3>1. manifest2 \in BundleManifests /\ vinfo = VerificationInfo(manifest2, Fuses)
        BY <1>6, SMTT(30) DEF UpdPopulate, IInv
      <3> QED BY <3>1, BundleFieldsAssumption DEF VerificationInfo, BundleManifests, IInv
    <2> QED BY <2>1, <2>2, VerifierAssumption DEF ExtendLadder, LadderInv, IInv
  <1>7. CASE \/ \E b \in Bundles \cup {OtherCommand} : UpdateReset(b)
             \/ UpdVerify \/ UpdLoad \/ ColdReset \/ WarmReset \/ UnknownReset
             \/ UNCHANGED vars
    BY <1>7 DEF UpdateReset, UpdVerify, UpdateFailed, UpdLoad, ColdReset, WarmReset,
                UnknownReset, FatalError, vars, LadderInv
  <1> QED BY <1>1, <1>2, <1>3, <1>4, <1>5, <1>6, <1>7 DEF Next

\* Unless the key-ladder engine can fail in the middle of an update reset
\* (the run BootFlowLadderFault shows what happens then), whenever the FMC
\* runs after flows the vault records as complete and the key vault holds
\* the ladder, the ladder has MAX_FIRMWARE_SVN - min-SVN links
\* (initialize_key_ladder at cold boot, extend_key_ladder by the min-SVN
\* decrement at update reset), for every bundle set and MAX_FIRMWARE_SVN.
THEOREM LadderMatchesMinSvn ==
  ASSUME "KeyLadder" \notin Faults
  PROVE  Spec => []KeyLadderMatchesMinSvn
  <1>1. Init => LadderInv
    BY DEF Init, LadderInv
  <1>2. IInv /\ LadderInv /\ [Next]_vars => LadderInv'
    BY LadderInvStep
  <1>3. LadderInv => KeyLadderMatchesMinSvn
    BY DEF LadderInv, KeyLadderMatchesMinSvn
  <1>4. Spec => [](IInv /\ LadderInv)
    BY <1>1, <1>2, InitIInv, NextIInv, PTL DEF Spec
  <1> QED BY <1>3, <1>4, PTL


\* With or without key-ladder faults, the ladder never has more links than
\* MAX_FIRMWARE_SVN - min-SVN: an engine failure in extend_key_ladder can
\* only leave it short.
LadderBound ==
    /\ ladder # NoLadder => ladder \in 0..(MAX_FIRMWARE_SVN - dv.fw_min_svn)
    /\ pc = "ColdKeyLadder" => dv.fw_min_svn = dv.fw_svn

\* Every step keeps LadderBound, faults included.
LEMMA LadderBoundStep ==
  ASSUME IInv, LadderBound, [Next]_vars
  PROVE  LadderBound'
  <1>1. CASE \E b \in Bundles : ColdFwProcess(b)
    <2>1. PICK b \in Bundles : ColdFwProcess(b)
      BY <1>1
    <2> DEFINE r == Verify(b.manifest, b.image, Len(b.image), "ColdReset", Fuses, dv)
    <2>2. CASE r.ok
      <3>1. ladder' = NoLadder /\ dv' = ColdPopulateVault(dv, r.info)
        BY <2>1, <2>2 DEF ColdFwProcess, IInv
      <3>2. dv'.fw_min_svn = dv'.fw_svn
        BY <3>1 DEF ColdPopulateVault, IInv
      <3> QED BY <3>1, <3>2 DEF LadderBound
    <2>3. CASE ~r.ok
      BY <2>1, <2>3 DEF ColdFwProcess, FatalError, LadderBound
    <2> QED BY <2>2, <2>3
  <1>2. CASE ColdKeyLadder
    BY <1>2, VerifierAssumption DEF ColdKeyLadder, FatalError, LadderBound, IInv
  <1>3. CASE ColdFmcAlias
    <2>1. dv'.fw_min_svn = dv.fw_min_svn
      BY <1>3 DEF ColdFmcAlias, IInv
    <2> QED BY <1>3, <2>1 DEF ColdFmcAlias, LadderBound
  <1>4. CASE UpdStart
    <2>1. dv'.fw_min_svn = dv.fw_min_svn
      BY <1>4 DEF UpdStart, IInv
    <2> QED BY <1>4, <2>1 DEF UpdStart, LadderBound
  <1>5. CASE UpdCommit
    <2>1. dv'.fw_min_svn = dv.fw_min_svn
      BY <1>5 DEF UpdCommit, IInv
    <2> QED BY <1>5, <2>1 DEF UpdCommit, LadderBound
  <1>6. CASE UpdPopulate
    <2> DEFINE old_min == dv.fw_min_svn
               new_min == IF vinfo.fw_svn < old_min THEN vinfo.fw_svn ELSE old_min
               decrement_by == old_min - new_min
    <2>1. pc' # "ColdKeyLadder" /\ dv'.fw_min_svn = new_min
      BY <1>6, SMTT(30) DEF UpdPopulate, UpdateFailed, IInv
    <2>2. vinfo.fw_svn \in Nat /\ old_min \in Nat
      <3>1. manifest2 \in BundleManifests /\ vinfo = VerificationInfo(manifest2, Fuses)
        BY <1>6, SMTT(30) DEF UpdPopulate, IInv
      <3> QED BY <3>1, BundleFieldsAssumption DEF VerificationInfo, BundleManifests, IInv
    <2>3. \E k \in 0..decrement_by : ladder' = ExtendLadder(ladder, k)
      <3>1. CASE ladder' = ExtendLadder(ladder, decrement_by)
        BY <3>1, <2>2, SMTT(30)
      <3>2. CASE ladder' \in {ExtendLadder(ladder, k) : k \in 0..(decrement_by - 1)}
        BY <3>2, <2>2, SMTT(30)
      <3> QED BY <1>6, <3>1, <3>2, ZenonT(30) DEF UpdPopulate
    <2>4. PICK k \in 0..decrement_by : ladder' = ExtendLadder(ladder, k)
      BY <2>3
    <2> QED BY <2>1, <2>2, <2>4, VerifierAssumption DEF ExtendLadder, LadderBound, IInv
  <1>7. CASE \/ \E b \in Bundles \cup {OtherCommand} : UpdateReset(b)
             \/ UpdVerify \/ UpdLoad \/ ColdReset \/ WarmReset \/ UnknownReset
             \/ UNCHANGED vars
    BY <1>7 DEF UpdateReset, UpdVerify, UpdateFailed, UpdLoad, ColdReset, WarmReset,
                UnknownReset, FatalError, vars, LadderBound
  <1> QED BY <1>1, <1>2, <1>3, <1>4, <1>5, <1>6, <1>7 DEF Next

\* Whatever engine faults happen, the key ladder that initialize_key_ladder
\* builds and extend_key_ladder grows is always absent or has between 0 and
\* MAX_FIRMWARE_SVN links, for every bundle set and MAX_FIRMWARE_SVN: the
\* ladder bound of TypeOK holds without the string fields TypeOK also types.
THEOREM LadderInRange ==
  Spec => [](ladder \in {NoLadder} \cup 0..MAX_FIRMWARE_SVN)
  <1>1. Init => LadderBound
    BY DEF Init, LadderBound
  <1>2. IInv /\ LadderBound /\ [Next]_vars => LadderBound'
    BY LadderBoundStep
  <1>3. IInv /\ LadderBound => ladder \in {NoLadder} \cup 0..MAX_FIRMWARE_SVN
    BY VerifierAssumption DEF IInv, LadderBound
  <1>4. Spec => [](IInv /\ LadderBound)
    BY <1>1, <1>2, InitIInv, NextIInv, PTL DEF Spec
  <1> QED BY <1>3, <1>4, PTL

=============================================================================
