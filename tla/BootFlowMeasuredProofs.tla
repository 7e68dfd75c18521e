----------------------- MODULE BootFlowMeasuredProofs -----------------------
(***************************************************************************)
(* Proof that the code the FMC runs is the code the data vault measured    *)
(* (BootFlow RunningCodeMeasured), for bundles laid out the way the image  *)
(* builder lays them out and updates that keep the FMC where it was.       *)
(* The three violation runs BootFlowGap, BootFlowOddSize and               *)
(* BootFlowMovedFmc show that each hypothesis is needed: the verifier does *)
(* not check any of them.                                                  *)
(***************************************************************************)
EXTENDS BootFlowProofs

\* The image builder's layout of a bundle whose TOC verify_toc accepts: the
\* FMC right after the manifest, the runtime right after the FMC, both a
\* whole number of words long (what cold-boot and update-reset load_image
\* assume when they copy from the concatenation positions, size/4 words).
BuilderLayout(b) ==
    LET m == b.manifest IN
    Passes(TocChecks(m, Len(b.image))) =>
        /\ m.fmc.offset = ManifestSize
        /\ m.runtime.offset = ManifestSize + m.fmc.size
        /\ m.fmc.size % 4 = 0 /\ m.runtime.size % 4 = 0

\* Bundles carrying the same FMC (by digest) load it at the same address:
\* what update_reset relies on when it keeps the running FMC and checks
\* only the digest of the new one.
FmcPinned ==
    \A m1, m2 \in BundleManifests :
        m1.fmc.digest = m2.fmc.digest =>
            m1.fmc.load_addr = m2.fmc.load_addr /\ m1.fmc.size = m2.fmc.size

BuiltBundles == (\A b \in Bundles : BuilderLayout(b)) /\ FmcPinned

\* The ICCM at the FMC (runtime) load range of manifest m hashes to the FMC
\* (runtime) TCI of the vault v.
FmcMeasured(m, mem, v) ==
    Sha384(IccmRead(mem, m.fmc.load_addr, m.fmc.size)) = v.fmc_tci
RtMeasured(m, mem, v) ==
    Sha384(IccmRead(mem, m.runtime.load_addr, m.runtime.size)) = v.rt_tci

\* The inductive invariant, on top of IInv: once the cold boot has loaded
\* the image, the FMC range always holds the measured FMC (an update never
\* writes there), and the runtime range the measured runtime unless an
\* update reset is under way; an update past verification holds the
\* bundle it verified.
MInv ==
    /\ DOMAIN iccm = IccmAddrs
    /\ pc \in {"ColdKeyLadder", "ColdFmcAlias"} =>
           /\ manifest1 \in BundleManifests
           /\ FmcMeasured(manifest1, iccm, dv) /\ RtMeasured(manifest1, iccm, dv)
    /\ dv.cold_boot_status = "ColdResetComplete" =>
           /\ manifest1 \in BundleManifests
           /\ FmcMeasured(manifest1, iccm, dv)
    /\ dv.cold_boot_status = "ColdResetComplete"
       /\ dv.update_reset_status # "UpdateResetStarted" =>
           RtMeasured(manifest1, iccm, dv)
    /\ pc \in VerifiedPhases =>
           /\ mbox \in Bundles /\ mbox.manifest = manifest2
           /\ Passes(TocChecks(manifest2, Len(mbox.image)))
           /\ Passes(RuntimeChecks(manifest2, mbox.image))
    /\ pc = "UpdCommit" => RtMeasured(manifest2, iccm, dv)

-----------------------------------------------------------------------------
(* ICCM reads and writes.                                                  *)

\* A tuple of n entries has length n.
LEMMA TupleLen ==
  ASSUME NEW x, NEW n, IsTuple(x, n)
  PROVE  Len(x) = n
  <1> DEFINE S == {x[i] : i \in 1..n}
  <1>1. n \in Nat /\ x \in [1..n -> S]
    BY DEF IsTuple
  <1>2. x \in Seq(S)
    BY <1>1, SeqDef
  <1> QED BY <1>1, <1>2, LenProperties

\* A copy of n bytes from SRAM position pos is a tuple of n bytes.
LEMMA SramReadTuple ==
  ASSUME NEW img, NEW pos \in Nat, NEW n \in Nat
  PROVE  /\ IsTuple(SramRead(img, pos, n), n)
         /\ Len(SramRead(img, pos, n)) = n
         /\ \A i \in 1..n : SramRead(img, pos, n)[i] = img[pos + i]
  <1> DEFINE S == {img[i] : i \in (pos + 1)..(pos + n)}
             x == SubSeq(img, pos + 1, pos + n)
  <1>1. /\ x \in Seq(S)
        /\ Len(x) = n
        /\ \A i \in 1..n : x[i] = img[pos + i]
    <2>1. /\ x \in Seq(S)
          /\ Len(x) = IF pos + 1 <= pos + n THEN (pos + n) - (pos + 1) + 1 ELSE 0
          /\ \A i \in 1..((pos + n) - (pos + 1) + 1) : x[i] = img[(pos + 1) + i - 1]
      BY SubSeqProperties
    <2> QED BY <2>1
  <1>2. IsTuple(x, n)
    BY <1>1, LenProperties DEF IsTuple
  <1> QED BY <1>1, <1>2 DEF SramRead

\* Writing bs at addr leaves the domain of the ICCM as it is.
LEMMA WriteDomain ==
  ASSUME NEW mem, NEW addr, NEW bs
  PROVE  DOMAIN IccmWrite(mem, addr, bs) = DOMAIN mem
  BY DEF IccmWrite

\* Reading back the range just written, inside the ICCM, gives the bytes
\* written.
LEMMA ReadWritten ==
  ASSUME NEW mem, NEW addr \in Nat, NEW n \in Nat, NEW bs, IsTuple(bs, n),
         addr..(addr + n - 1) \subseteq DOMAIN mem
  PROVE  IccmRead(IccmWrite(mem, addr, bs), addr, n) = bs
  <1>1. Len(bs) = n
    BY TupleLen
  <1> QED BY <1>1 DEF IccmRead, IccmWrite, IsTuple

\* A write leaves a range disjoint from the one it writes as it was.
LEMMA ReadOther ==
  ASSUME NEW mem, NEW addr \in Int, NEW bs, NEW k \in Nat, IsTuple(bs, k),
         NEW a \in Int, NEW n \in Nat,
         a + n - 1 < addr \/ addr + k - 1 < a
  PROVE  IccmRead(IccmWrite(mem, addr, bs), a, n) = IccmRead(mem, a, n)
  <1>1. Len(bs) = k
    BY TupleLen
  <1> QED BY <1>1 DEF IccmRead, IccmWrite

-----------------------------------------------------------------------------
(* What a passing verification says of the bytes the flows load.          *)

\* verify_toc passing puts the FMC and runtime load ranges apart: neither
\* size is zero, neither end wraps, and the FMC_RUNTIME_LOAD_ADDR_OVERLAP
\* check compares the true end addresses.
LEMMA ChecksLoadDisjoint ==
  ASSUME NEW m, NEW sz,
         \A e \in {m.fmc, m.runtime} : e.load_addr \in Nat /\ e.size \in Nat,
         Passes(TocChecks(m, sz))
  PROVE  \/ m.fmc.load_addr + m.fmc.size - 1 < m.runtime.load_addr
         \/ m.runtime.load_addr + m.runtime.size - 1 < m.fmc.load_addr
  <1> DEFINE Tc == TocChecks(m, sz)
  <1>1. /\ {3, 4, 8, 9, 10} \subseteq DOMAIN Tc
        /\ Tc[3][1] = (m.fmc.size = 0) /\ Tc[4][1] = (m.runtime.size = 0)
        /\ Tc[8][1] = LoadOverflow(m.fmc) /\ Tc[9][1] = LoadOverflow(m.runtime)
        /\ Tc[10][1] = (m.fmc.load_addr <= LoadEnd(m.runtime)
                         /\ LoadEnd(m.fmc) >= m.runtime.load_addr)
    BY DEF Tc, TocChecks
  <1>2. /\ m.fmc.size # 0 /\ m.runtime.size # 0
        /\ ~LoadOverflow(m.fmc) /\ ~LoadOverflow(m.runtime)
        /\ ~(m.fmc.load_addr <= LoadEnd(m.runtime) /\ LoadEnd(m.fmc) >= m.runtime.load_addr)
    BY <1>1, PassesEntry, Zenon
  <1>3. ASSUME NEW e \in {m.fmc, m.runtime}, e.size # 0, ~LoadOverflow(e)
        PROVE  LoadEnd(e) = e.load_addr + e.size - 1
    <2>1. /\ e.load_addr \in Nat /\ e.size \in Nat \ {0}
          /\ e.load_addr + e.size - 1 < Word
      BY <1>3, WordIsInt DEF LoadOverflow
    <2>2. \A x \in Nat : x < Word => x % Word = x
      BY WordIsInt
    <2> QED BY <2>1, <2>2 DEF LoadEnd
  <1>4. /\ LoadEnd(m.fmc) = m.fmc.load_addr + m.fmc.size - 1
        /\ LoadEnd(m.runtime) = m.runtime.load_addr + m.runtime.size - 1
    BY <1>2, <1>3
  <1> QED BY <1>2, <1>4

\* verify_fmc passing: the bytes at the FMC's TOC offset hash to its digest.
LEMMA FmcChecksDigest ==
  ASSUME NEW m, NEW img, NEW r, NEW d, Passes(FmcChecks(m, img, r, d))
  PROVE  ImageDigest(img, m.fmc) = m.fmc.digest
  <1> DEFINE Fc == FmcChecks(m, img, r, d)
  <1>1. /\ {1, 2} \subseteq DOMAIN Fc
        /\ Fc[1][1] = ~InSram(img, m.fmc)
        /\ Fc[2][1] = (InSram(img, m.fmc) /\ ImageDigest(img, m.fmc) # m.fmc.digest)
    BY DEF Fc, FmcChecks
  <1> QED BY <1>1, PassesEntry, Zenon

\* verify_runtime passing: the bytes at the runtime's TOC offset hash to
\* its digest.
LEMMA RuntimeChecksDigest ==
  ASSUME NEW m, NEW img, Passes(RuntimeChecks(m, img))
  PROVE  ImageDigest(img, m.runtime) = m.runtime.digest
  <1> DEFINE Rc == RuntimeChecks(m, img)
  <1>1. /\ {1, 2} \subseteq DOMAIN Rc
        /\ Rc[1][1] = ~InSram(img, m.runtime)
        /\ Rc[2][1] = (InSram(img, m.runtime)
                       /\ ImageDigest(img, m.runtime) # m.runtime.digest)
    BY DEF Rc, RuntimeChecks
  <1> QED BY <1>1, PassesEntry, Zenon

\* A copy of entry e from SRAM position pos, where its TOC offset says it
\* is, is a tuple of e.size bytes that hashes to what the verifier hashed.
LEMMA CopyDigest ==
  ASSUME NEW img, NEW e, NEW pos \in Nat, e.offset = pos, e.size \in Nat
  PROVE  /\ IsTuple(SramRead(img, pos, e.size), e.size)
         /\ Sha384(SramRead(img, pos, e.size)) = ImageDigest(img, e)
  BY SramReadTuple, ZenonT(30) DEF SramRead, ImageDigest

\* A size that is a whole number of words is copied whole.
LEMMA WordBytesExact ==
  ASSUME NEW n \in Nat, n % 4 = 0
  PROVE  WordBytes(n) = n
  BY DEF WordBytes


-----------------------------------------------------------------------------
(* MInv is inductive, given BuiltBundles.                                  *)

LEMMA InitMInv == Init => MInv
  BY DEF Init, MInv, ColdVault, VerifiedPhases

\* Cold-boot load_image writes the FMC and then the runtime, each from
\* where the verifier hashed it, into ranges that lie apart in ICCM.
LEMMA ColdFwProcessMInv ==
  ASSUME IInv, MInv, BuiltBundles, NEW b \in Bundles, ColdFwProcess(b)
  PROVE  MInv'
  <1> DEFINE r == Verify(b.manifest, b.image, Len(b.image), "ColdReset", Fuses, dv)
             m == b.manifest
             img == b.image
  <1>1. pc = "ColdMbox" /\ manifest1' = m /\ dv.cold_boot_status = "None"
    BY DEF ColdFwProcess, IInv, ColdPhases
  <1>2. CASE ~r.ok
    <2>1. pc' = "Fatal" /\ dv' = dv /\ iccm' = iccm
      BY <1>2, SMTT(30) DEF ColdFwProcess, FatalError
    <2> QED BY <1>1, <2>1 DEF MInv, VerifiedPhases
  <1>3. CASE r.ok
    <2> DEFINE fb == SramRead(img, ManifestSize, m.fmc.size)
               rb == SramRead(img, ManifestSize + m.fmc.size, m.runtime.size)
               w1 == IccmWrite(iccm, m.fmc.load_addr, fb)
    <2>1. /\ pc' = "ColdKeyLadder"
          /\ dv' = ColdPopulateVault(dv, r.info)
          /\ iccm' = ColdLoadImage(iccm, m, img)
      BY <1>1, <1>3, SMTT(30) DEF ColdFwProcess
    <2>2. dv'.fmc_tci = m.fmc.digest /\ dv'.rt_tci = m.runtime.digest
      <3>1. r.info = VerificationInfo(m, Fuses)
        BY <1>3 DEF Verify
      <3> QED BY <2>1, <3>1, <1>1, SMTT(30)
              DEF IInv, ColdPopulateVault, VerificationInfo, ExeInfo, DvFields
    <2>3. /\ Passes(TocChecks(m, Len(img)))
          /\ Passes(FmcChecks(m, img, "ColdReset", dv))
          /\ Passes(RuntimeChecks(m, img))
      BY <1>3, VerifyOkPasses
    <2>4. /\ m.fmc.offset = ManifestSize
          /\ m.runtime.offset = ManifestSize + m.fmc.size
          /\ m.fmc.size % 4 = 0 /\ m.runtime.size % 4 = 0
      BY <2>3 DEF BuiltBundles, BuilderLayout
    <2>5. /\ \A e \in {m.fmc, m.runtime} : e.load_addr \in Nat /\ e.size \in Nat
          /\ ManifestSize \in Nat
      BY BundleFieldsAssumption, VerifierAssumption
    <2>6. /\ LoadOk(m)
          /\ \/ m.fmc.load_addr + m.fmc.size - 1 < m.runtime.load_addr
             \/ m.runtime.load_addr + m.runtime.size - 1 < m.fmc.load_addr
      BY <2>3, <2>5, ChecksLoadOk, ChecksLoadDisjoint, SMTT(30)
    <2>7. iccm' = IccmWrite(w1, m.runtime.load_addr, rb)
      <3>1. WordBytes(m.fmc.size) = m.fmc.size
            /\ WordBytes(m.runtime.size) = m.runtime.size
        BY <2>4, <2>5, WordBytesExact
      <3> QED BY <2>1, <3>1 DEF ColdLoadImage
    <2>8. /\ IsTuple(fb, m.fmc.size) /\ Sha384(fb) = m.fmc.digest
          /\ IsTuple(rb, m.runtime.size) /\ Sha384(rb) = m.runtime.digest
      <3>1. ImageDigest(img, m.fmc) = m.fmc.digest
            /\ ImageDigest(img, m.runtime) = m.runtime.digest
        BY <2>3, FmcChecksDigest, RuntimeChecksDigest
      <3>2. IsTuple(fb, m.fmc.size) /\ Sha384(fb) = ImageDigest(img, m.fmc)
        BY <2>4, <2>5, CopyDigest, ZenonT(30)
      <3>3. IsTuple(rb, m.runtime.size) /\ Sha384(rb) = ImageDigest(img, m.runtime)
        <4>1. ManifestSize + m.fmc.size \in Nat /\ m.runtime.size \in Nat
          BY <2>5
        <4> QED BY <2>4, <4>1, CopyDigest, ZenonT(30) DEF rb
      <3> QED BY <3>1, <3>2, <3>3
    <2>9. DOMAIN iccm' = IccmAddrs /\ DOMAIN w1 = IccmAddrs
      BY <2>7, WriteDomain DEF MInv
    <2>10. IccmRead(iccm', m.fmc.load_addr, m.fmc.size) = fb
      <3>1. IccmRead(iccm', m.fmc.load_addr, m.fmc.size)
              = IccmRead(w1, m.fmc.load_addr, m.fmc.size)
        BY <2>5, <2>6, <2>7, <2>8, ReadOther
      <3>2. m.fmc.load_addr..(m.fmc.load_addr + m.fmc.size - 1) \subseteq DOMAIN iccm
        BY <2>6 DEF LoadOk, MInv
      <3> QED BY <2>5, <2>8, <3>1, <3>2, ReadWritten, SMTT(30)
    <2>11. IccmRead(iccm', m.runtime.load_addr, m.runtime.size) = rb
      <3>1. m.runtime.load_addr..(m.runtime.load_addr + m.runtime.size - 1)
              \subseteq DOMAIN w1
        BY <2>6, <2>9 DEF LoadOk
      <3> QED BY <2>5, <2>7, <2>8, <3>1, ReadWritten, ZenonT(30)
    <2>12. m \in BundleManifests
      BY DEF BundleManifests
    <2> QED BY <1>1, <2>1, <2>2, <2>8, <2>9, <2>10, <2>11, <2>12
            DEF MInv, FmcMeasured, RtMeasured, VerifiedPhases
  <1> QED BY <1>2, <1>3


\* The rest of the cold boot touches neither ICCM nor the TCIs.
LEMMA ColdKeyLadderMInv ==
  ASSUME IInv, MInv, ColdKeyLadder
  PROVE  MInv'
  <1>1. /\ pc = "ColdKeyLadder" /\ UNCHANGED <<dv, manifest1, iccm>>
        /\ pc' \in {"Fatal", "ColdFmcAlias"}
    BY DEF ColdKeyLadder, FatalError
  <1> QED BY <1>1 DEF MInv, FmcMeasured, RtMeasured, VerifiedPhases

LEMMA ColdFmcAliasMInv ==
  ASSUME IInv, MInv, ColdFmcAlias
  PROVE  MInv'
  <1>1. /\ pc = "ColdFmcAlias" /\ pc' = "Running" /\ UNCHANGED <<manifest1, iccm>>
        /\ dv.update_reset_status = "None"
    BY DEF ColdFmcAlias, IInv, ColdPhases
  <1>2. /\ dv'.cold_boot_status = "ColdResetComplete"
        /\ dv'.update_reset_status = dv.update_reset_status
        /\ dv'.fmc_tci = dv.fmc_tci /\ dv'.rt_tci = dv.rt_tci
    BY DEF ColdFmcAlias, IInv, DvFields
  <1> QED BY <1>1, <1>2 DEF MInv, FmcMeasured, RtMeasured, VerifiedPhases

\* An update reset and UpdateResetFlow::run's first vault write leave
\* ICCM and the TCIs alone.
LEMMA UpdateResetMInv ==
  ASSUME MInv, NEW b, UpdateReset(b)
  PROVE  MInv'
  <1>1. pc' = "UpdStart" /\ UNCHANGED <<dv, manifest1, manifest2, iccm>>
    BY DEF UpdateReset
  <1> QED BY <1>1 DEF MInv, FmcMeasured, RtMeasured, VerifiedPhases

LEMMA UpdStartMInv ==
  ASSUME IInv, MInv, UpdStart
  PROVE  MInv'
  <1>1. pc' = "UpdVerify" /\ UNCHANGED <<manifest1, manifest2, iccm>>
    BY DEF UpdStart
  <1>2. /\ dv'.cold_boot_status = dv.cold_boot_status
        /\ dv'.update_reset_status = "UpdateResetStarted"
        /\ dv'.fmc_tci = dv.fmc_tci
    BY DEF UpdStart, IInv, DvFields
  <1> QED BY <1>1, <1>2 DEF MInv, FmcMeasured, VerifiedPhases

\* A verification that succeeds holds the bundle it verified, with its
\* TOC and runtime checks passed; a refusal hands back mid-update.
LEMMA UpdVerifyMInv ==
  ASSUME IInv, MInv, UpdVerify
  PROVE  MInv'
  <1> DEFINE r == Verify(mbox.manifest, mbox.image, Len(mbox.image), "UpdateReset",
                         Fuses, dv)
  <1>0. /\ pc = "UpdVerify" /\ UNCHANGED <<dv, manifest1, iccm>>
        /\ dv.update_reset_status = "UpdateResetStarted"
    BY DEF UpdVerify, IInv, UpdPhases
  <1>1. CASE ~(mbox # OtherCommand /\ r.ok)
    <2>1. pc' = "Running"
      BY <1>1 DEF UpdVerify, UpdateFailed
    <2> QED BY <1>0, <2>1 DEF MInv, FmcMeasured, VerifiedPhases
  <1>2. CASE mbox # OtherCommand /\ r.ok
    <2>1. pc' = "UpdPopulate" /\ manifest2' = mbox.manifest /\ mbox' = mbox
      BY <1>2 DEF UpdVerify, UpdateFailed
    <2>2. mbox \in Bundles
      BY <1>0, <1>2, SMTT(30) DEF IInv, UpdPhases
    <2>3. /\ Passes(TocChecks(mbox.manifest, Len(mbox.image)))
          /\ Passes(RuntimeChecks(mbox.manifest, mbox.image))
      BY <1>2, VerifyOkPasses
    <2> QED BY <1>0, <2>1, <2>2, <2>3 DEF MInv, FmcMeasured, VerifiedPhases
  <1> QED BY <1>1, <1>2

\* populate_data_vault writes the runtime TCI, not the FMC TCI, while the
\* update-reset status says Started.
LEMMA UpdPopulateMInv ==
  ASSUME IInv, MInv, UpdPopulate
  PROVE  MInv'
  <1>1. /\ pc = "UpdPopulate" /\ UNCHANGED <<manifest1, manifest2, iccm>>
        /\ pc' \in {"UpdLoad", "Running"}
        /\ (pc' = "UpdLoad" => mbox' = mbox)
    BY DEF UpdPopulate, UpdateFailed
  <1>2. /\ dv.update_reset_status = "UpdateResetStarted"
        /\ dv'.cold_boot_status = dv.cold_boot_status
        /\ dv'.update_reset_status = dv.update_reset_status
        /\ dv'.fmc_tci = dv.fmc_tci
    BY <1>1 DEF UpdPopulate, IInv, UpdPhases, DvFields
  <1> QED BY <1>1, <1>2 DEF MInv, FmcMeasured, VerifiedPhases

\* A cold reset clears the vault; warm and unknown resets change neither
\* ICCM nor the vault and never resume an update.
LEMMA ColdResetMInv ==
  ASSUME ColdReset
  PROVE  MInv'
  BY DEF ColdReset, MInv, ColdVault, VerifiedPhases

LEMMA WarmResetMInv ==
  ASSUME MInv, WarmReset
  PROVE  MInv'
  <1>1. pc' \in {"Fatal", "Running"} /\ UNCHANGED <<dv, manifest1, iccm>>
    BY DEF WarmReset, FatalError
  <1> QED BY <1>1 DEF MInv, FmcMeasured, RtMeasured, VerifiedPhases

LEMMA UnknownResetMInv ==
  ASSUME MInv, UnknownReset
  PROVE  MInv'
  <1>1. pc' = "Fatal" /\ UNCHANGED <<dv, manifest1, iccm>>
    BY DEF UnknownReset, FatalError
  <1> QED BY <1>1 DEF MInv, FmcMeasured, RtMeasured, VerifiedPhases


\* Past verification, the update's FMC sits where the running FMC does:
\* both manifests carry the FMC TCI as FMC digest.
LEMMA FmcRangeKept ==
  ASSUME IInv, MInv, BuiltBundles, pc \in VerifiedPhases
  PROVE  /\ manifest2.fmc.load_addr = manifest1.fmc.load_addr
         /\ manifest2.fmc.size = manifest1.fmc.size
  <1>1. dv.cold_boot_status = "ColdResetComplete"
    BY DEF IInv, VerifiedPhases, UpdPhases
  <1>2. manifest1 \in BundleManifests /\ manifest2 \in BundleManifests
    BY <1>1 DEF MInv, IInv
  <1>3. manifest1.fmc.digest = dv.fmc_tci /\ manifest2.fmc.digest = dv.fmc_tci
    BY <1>1 DEF IInv, VaultCore
  <1> QED BY <1>2, <1>3 DEF BuiltBundles, FmcPinned

\* Update-reset load_image copies the runtime from where the verifier
\* hashed it into a range apart from the FMC's; a failing copy writes a
\* prefix of it and hands back with the update-reset status Started.
LEMMA UpdLoadMInv ==
  ASSUME IInv, MInv, BuiltBundles, UpdLoad
  PROVE  MInv'
  <1> DEFINE m == manifest2
             img == mbox.image
             rb == SramRead(img, ManifestSize + m.fmc.size, m.runtime.size)
             fr == m.fmc
             rt == m.runtime
  <1>1. /\ pc = "UpdLoad" /\ UNCHANGED <<dv, manifest1, manifest2>>
        /\ dv.update_reset_status = "UpdateResetStarted"
        /\ dv.cold_boot_status = "ColdResetComplete"
    BY DEF UpdLoad, IInv, UpdPhases
  <1>2. /\ mbox \in Bundles /\ mbox.manifest = m
        /\ Passes(TocChecks(m, Len(img)))
        /\ Passes(RuntimeChecks(m, img))
    BY <1>1 DEF MInv, VerifiedPhases
  <1>3. /\ fr.offset = ManifestSize
        /\ rt.offset = ManifestSize + fr.size
        /\ fr.size % 4 = 0 /\ rt.size % 4 = 0
    BY <1>2 DEF BuiltBundles, BuilderLayout
  <1>4. /\ \A e \in {fr, rt} : e.load_addr \in Nat /\ e.size \in Nat
        /\ ManifestSize \in Nat
    BY <1>2, BundleFieldsAssumption, VerifierAssumption
  <1>5. /\ LoadOk(m)
        /\ \/ fr.load_addr + fr.size - 1 < rt.load_addr
           \/ rt.load_addr + rt.size - 1 < fr.load_addr
    <2>1. LoadOk(m)
      BY <1>1 DEF IInv, VerifiedPhases
    <2> QED BY <1>2, <1>4, <2>1, ChecksLoadDisjoint
  <1>6. /\ IsTuple(rb, rt.size) /\ Len(rb) = rt.size
        /\ Sha384(rb) = rt.digest
    <2>1. IsTuple(rb, rt.size) /\ Sha384(rb) = ImageDigest(img, rt)
      <3>1. ManifestSize + fr.size \in Nat /\ rt.size \in Nat
        BY <1>4
      <3> QED BY <1>3, <3>1, CopyDigest, ZenonT(30) DEF rb
    <2>2. ImageDigest(img, rt) = rt.digest
      BY <1>2, RuntimeChecksDigest
    <2> QED BY <2>1, <2>2, TupleLen
  <1>7. /\ fr.load_addr = manifest1.fmc.load_addr
        /\ fr.size = manifest1.fmc.size
    BY <1>1, FmcRangeKept DEF VerifiedPhases
  <1>8. ASSUME NEW k \in 0..rt.size, NEW bs, IsTuple(bs, k),
               iccm' = IccmWrite(iccm, rt.load_addr, bs)
        PROVE  /\ DOMAIN iccm' = IccmAddrs
               /\ FmcMeasured(manifest1, iccm', dv)
    <2>1. DOMAIN iccm' = IccmAddrs
      BY <1>8, WriteDomain DEF MInv
    <2>2. IccmRead(iccm', fr.load_addr, fr.size) = IccmRead(iccm, fr.load_addr, fr.size)
      <3>1. fr.load_addr + fr.size - 1 < rt.load_addr
            \/ rt.load_addr + k - 1 < fr.load_addr
        BY <1>4, <1>5
      <3> QED BY <1>4, <1>8, <3>1, ReadOther
    <2>3. FmcMeasured(manifest1, iccm, dv)
      BY <1>1 DEF MInv
    <2> QED BY <1>7, <2>1, <2>2, <2>3 DEF FmcMeasured
  <1>9. rb = SramRead(img, ManifestSize + WordBytes(fr.size), WordBytes(rt.size))
    BY <1>3, <1>4, WordBytesExact
  <1>10. CASE iccm' = IccmWrite(iccm, rt.load_addr, rb) /\ pc' = "UpdCommit"
              /\ UNCHANGED mbox
    <2>1. DOMAIN iccm' = IccmAddrs /\ FmcMeasured(manifest1, iccm', dv)
      BY <1>4, <1>6, <1>10, <1>8
    <2>2. IccmRead(iccm', rt.load_addr, rt.size) = rb
      <3>1. rt.load_addr..(rt.load_addr + rt.size - 1) \subseteq DOMAIN iccm
        BY <1>5 DEF LoadOk, MInv
      <3> QED BY <1>4, <1>6, <1>10, <3>1, ReadWritten, ZenonT(30)
    <2>3. rt.digest = dv.rt_tci
      BY <1>1 DEF IInv, VaultRuntime
    <2> QED BY <1>1, <1>2, <1>6, <1>10, <2>1, <2>2, <2>3
            DEF MInv, RtMeasured, VerifiedPhases
  <1>11. CASE /\ \E n \in 0..Len(rb) : iccm' = IccmWrite(iccm, rt.load_addr, SubSeq(rb, 1, n))
              /\ pc' = "Running"
    <2>1. PICK n \in 0..rt.size : iccm' = IccmWrite(iccm, rt.load_addr, SubSeq(rb, 1, n))
      BY <1>6, <1>11
    <2>2. IsTuple(SubSeq(rb, 1, n), n)
      <3>1. n \in Nat
        BY <1>4
      <3>2. SubSeq(rb, 1, n) = SramRead(rb, 0, n)
        <4>1. 0 + 1 = 1 /\ 0 + n = n
          BY <3>1
        <4> QED BY <4>1, Zenon DEF SramRead
      <3>3. IsTuple(SramRead(rb, 0, n), n)
        BY <3>1, SramReadTuple, ZenonT(30)
      <3> QED BY <3>2, <3>3, ZenonT(30)
    <2>3. DOMAIN iccm' = IccmAddrs /\ FmcMeasured(manifest1, iccm', dv)
      BY <2>1, <2>2, <1>8
    <2> QED BY <1>1, <1>11, <2>3 DEF MInv, VerifiedPhases
  <1>12. \/ iccm' = IccmWrite(iccm, rt.load_addr, rb) /\ pc' = "UpdCommit" /\ UNCHANGED mbox
         \/ /\ \E n \in 0..Len(rb) : iccm' = IccmWrite(iccm, rt.load_addr, SubSeq(rb, 1, n))
            /\ pc' = "Running"
    BY <1>9 DEF UpdLoad, UpdateFailed
  <1> QED BY <1>10, <1>11, <1>12


\* The update commits: manifest1 becomes manifest2, whose FMC range is the
\* running FMC's and whose runtime was just loaded and measured.
LEMMA UpdCommitMInv ==
  ASSUME IInv, MInv, BuiltBundles, UpdCommit
  PROVE  MInv'
  <1>1. /\ pc = "UpdCommit" /\ pc' = "Running"
        /\ manifest1' = manifest2 /\ iccm' = iccm
    BY DEF UpdCommit
  <1>2. /\ dv'.cold_boot_status = dv.cold_boot_status
        /\ dv'.fmc_tci = dv.fmc_tci /\ dv'.rt_tci = dv.rt_tci
    BY DEF UpdCommit, IInv, DvFields
  <1>3. FmcMeasured(manifest2, iccm, dv)
    <2>1. FmcMeasured(manifest1, iccm, dv)
      BY <1>1 DEF MInv, IInv, UpdPhases
    <2>2. manifest2.fmc.load_addr = manifest1.fmc.load_addr
          /\ manifest2.fmc.size = manifest1.fmc.size
      BY <1>1, FmcRangeKept DEF VerifiedPhases
    <2> QED BY <2>1, <2>2 DEF FmcMeasured
  <1>4. RtMeasured(manifest2, iccm, dv) /\ manifest2 \in BundleManifests
    BY <1>1 DEF MInv, IInv, VerifiedPhases
  <1> QED BY <1>1, <1>2, <1>3, <1>4 DEF MInv, FmcMeasured, RtMeasured, VerifiedPhases

LEMMA NextMInv ==
  ASSUME IInv, MInv, BuiltBundles, [Next]_vars
  PROVE  MInv'
  <1>1. CASE \E b \in Bundles : ColdFwProcess(b)
    BY <1>1, ColdFwProcessMInv
  <1>2. CASE ColdKeyLadder
    BY <1>2, ColdKeyLadderMInv
  <1>3. CASE ColdFmcAlias
    BY <1>3, ColdFmcAliasMInv
  <1>4. CASE \E b \in Bundles \cup {OtherCommand} : UpdateReset(b)
    BY <1>4, UpdateResetMInv
  <1>5. CASE UpdStart
    BY <1>5, UpdStartMInv
  <1>6. CASE UpdVerify
    BY <1>6, UpdVerifyMInv
  <1>7. CASE UpdPopulate
    BY <1>7, UpdPopulateMInv
  <1>8. CASE UpdLoad
    BY <1>8, UpdLoadMInv
  <1>9. CASE UpdCommit
    BY <1>9, UpdCommitMInv
  <1>10. CASE ColdReset
    BY <1>10, ColdResetMInv
  <1>11. CASE WarmReset
    BY <1>11, WarmResetMInv
  <1>12. CASE UnknownReset
    BY <1>12, UnknownResetMInv
  <1>13. CASE UNCHANGED vars
    BY <1>13 DEF vars, MInv, FmcMeasured, RtMeasured
  <1> QED BY <1>1, <1>2, <1>3, <1>4, <1>5, <1>6, <1>7, <1>8, <1>9, <1>10,
             <1>11, <1>12, <1>13 DEF Next

-----------------------------------------------------------------------------
(* The theorem.                                                            *)

\* For bundles laid out by the image builder and updates that keep the
\* FMC's load address, whenever the FMC runs after flows the vault records
\* as complete, the ICCM at manifest1's FMC and runtime load ranges hashes
\* to the FMC and runtime TCI: cold-boot and update-reset load_image put
\* in ICCM exactly what verify_fmc and verify_runtime measured.
THEOREM CodeMeasured ==
  ASSUME BuiltBundles
  PROVE  Spec => []RunningCodeMeasured
  <1>1. Init => IInv /\ MInv
    BY InitIInv, InitMInv
  <1>2. IInv /\ MInv /\ [Next]_vars => IInv' /\ MInv'
    BY NextIInv, NextMInv, SMTT(30)
  <1>3. IInv /\ MInv => RunningCodeMeasured
    BY DEF IInv, MInv, RunningCodeMeasured, FmcMeasured, RtMeasured
  <1>4. Spec => [](IInv /\ MInv)
    BY <1>1, <1>2, PTL DEF Spec
  <1> QED BY <1>3, <1>4, PTL

=============================================================================
