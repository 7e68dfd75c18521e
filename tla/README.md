# TLA+ models of the Caliptra ROM boot flows

This directory holds TLA+ models of the Caliptra ROM's firmware-loading path, together with:

- TLC configurations that model-check the models on small instances;
- TLAPS proofs that hold for every value of the constants.

The sources it models are under `src/`:

- `image/verify/src/verifier.rs`;
- `rom/dev/src/flow/cold_reset/fw_processor.rs`;
- `rom/dev/src/flow/update_reset.rs`;
- `rom/dev/src/flow/mod.rs`;
- `rom/dev/src/flow/cold_reset/fmc_alias.rs`;
- `rom/dev/src/crypto.rs`.

`PROJECT.json` lists the components, the runs, the mutants, the map from every definition to the source lines it translates, the findings, the hazards and the theorems.

## The system and how its parts interact

On a **cold reset** the ROM runs a mailbox command loop (`process_mailbox_commands`):

- The SoC may ask for version, capabilities and self-tests.
- It may stash measurements into PCR31 and the measurement log.
- It may read the IDevID CSR, or shut the ROM down.
- The loop ends when a firmware bundle arrives:
  - in passive mode, with `FIRMWARE_LOAD`;
  - in active mode, with `RI_DOWNLOAD_FIRMWARE`, a DMA from the recovery interface.

The firmware processor then does these steps in order:

1. copies the manifest to `manifest1`;
2. has the **image verifier** check the bundle;
3. populates the data vault (FMC/runtime TCI, owner key digest, vendor key indices, SVN, min-SVN);
4. loads FMC and runtime into ICCM;
5. completes the mailbox transaction;
6. builds the firmware key ladder (`MAX_FIRMWARE_SVN - svn` links).

The **FMC alias layer** (`FmcAliasLayer::derive`) then derives the FMC's identity:

1. the FMC CDI, an HMAC KDF of the LDevID CDI over the PCR0 measurement, written over the LDevID CDI's key-vault slot;
2. the FMC alias ECC key pair (a KDF into `KEY_ID_TMP`, a key generation into the alias slot, then `KEY_ID_TMP` erased) and the MLDSA key-pair seed;
3. the subject key identifiers;
4. the ECC alias certificate: TBS built, signed with the LDevID ECC key, verified, the LDevID key erased, signature and public key written to the data vault, TBS copied to the persistent buffer;
5. the same for MLDSA.

Any engine failure, or a key-vault read refused for an empty slot or a missing usage, is a fatal error.

After the FMC alias derivation, the cold-boot status is set and the FMC runs.

An **update reset**, triggered by the running firmware with a new bundle in the mailbox, does these steps in order:

1. records `UpdateResetStarted`;
2. verifies the bundle, with the update-reset checks against the vault;
3. updates the runtime TCI, SVN and min-SVN;
4. extends the key ladder by the min-SVN decrement;
5. extends the PCRs;
6. copies the runtime only;
7. copies `manifest2` to `manifest1`;
8. records `UpdateResetComplete`.

If any step fails, the error goes in FW_ERROR_NON_FATAL and the FMC is launched anyway.

A **warm reset** relaunches the FMC only if the cold boot completed and no update reset was left `Started`.

An **unknown reset** is fatal. A fatal error writes FW_ERROR_FATAL, fails a pending mailbox transaction and zeroizes the key vault.

## Modules

| Module | Models | State | Actions |
|---|---|---|---|
| `ImageVerifier` | `ImageVerifier::verify` and every `verify_*` phase | none (pure operators) | `Verify(m, image, size, reason, fuses, vault)` |
| `BootFlow` | cold-reset firmware processing, update reset, warm/cold/unknown resets | `pc`, `dv` (data vault), `manifest1`, `manifest2`, `iccm`, `ladder`, `mbox`, `vinfo`, both error registers | `ColdFwProcess`, `ColdKeyLadder`, `ColdFmcAlias`, `UpdateReset`, `UpdStart`, `UpdVerify`, `UpdPopulate`, `UpdLoad`, `UpdCommit`, `ColdReset`, `WarmReset`, `UnknownReset` |
| `FwProcMailbox` | the cold-boot mailbox command loop, with the SoC and the fatal handler | `rom`, `err`, `mbox`, `req`, `self_test_in_progress`, `meas_log_index`, `meas_log`, `pcr31`, both error registers | `SocSend`, `SocRelease`, `HandleCommand` (one disjunct per outcome of every command arm), `FatalHandler` |
| `FmcAlias` | `FmcAliasLayer::derive` and the `Crypto` helpers it calls | `pc`, `dev` (lifecycle, debug lock, PCR0), `kv` (key vault), `dv` (data vault), `out` (derived keys), `tbs` (persistent TBS buffers), FW_ERROR_FATAL | `DeriveCdi`, `EccKeyGen`, `MldsaKeyGen`, `SubjIds`, `EccCert`, `MldsaCert` |
| `MailboxService` | the abstract promise of the cold-boot mailbox loop | `status`, `chan`, `stashed` | `Send`, `Answer`, `Stash`, `Handoff`, `Fail`, `Abort`, `Release` |
| `MCBootFlow`, `MCFwProcMailbox`, `MCFmcAlias` | model-checking instances | — | — |
| `FwProcMailboxProofs` | TLAPS proofs about `FwProcMailbox` | — | — |
| `FmcAliasProofs` | TLAPS proofs about `FmcAlias` | — | — |
| `BootFlowProofs` | TLAPS proofs about `BootFlow` and what a successful `Verify` implies | — | — |
| `BootFlowMeasuredProofs` | TLAPS proof that the running code is the measured code, for builder-laid-out bundles | — | — |

### ImageVerifier

Every check of the code is one `<<fails, error>>` entry. The entries are grouped per `verify_*` function in code order. `Checks` concatenates them in the order `verify` calls them. `Verify` returns the error of the first failing check, which is what the early returns give, or the `ImageVerificationInfo`.

The header checks are split as the code splits them: `EccSigChecks` and `PqcSigChecks` (LMS or MLDSA, with the error names of each) are shared by `VendorSigChecks` and `OwnerSigChecks`, and `HeaderChecks` joins them with the key-index checks. The `*_MLDSA_DIGEST_MISSING` errors cannot occur in the model, because a digest is always computed.

Where the code indexes `key_hash` after a bounds check, the model guards the read with the same condition.

Data is abstracted as follows:

- **Digest:** `Sha384(d)` is the value `<<"SHA384", d>>`, so a hash has no collisions.
- **Signature:** a signature is the record `[key, msg]`; it verifies exactly when it was made with that key over that digest.
- **Zero:** an all-zero digest, key or signature is the model value `ZERO`.
- **u32 arithmetic:** `key_hash_count - 1` and `load_addr + size - 1` wrap modulo `2^WordBits`.
- **Revocation shift:** the ECC revocation shift is masked to 5 bits and truncated to the defined bits, as `from_bits_truncate` does.

### BootFlow

Each update-reset step ends at a point where the code reaches persistent state (vault, ICCM, key ladder), so that a reset or an engine fault can fall between steps.

- **`UpdPopulate`:** the whole of `populate_data_vault` and `extend_pcrs`. A key-ladder fault can leave any prefix of the ladder extension. A PCR fault leaves all of the vault writes.
- **`UpdLoad`:** the drop of the FMC words, the runtime copy, and a fault that leaves a prefix of the runtime in ICCM.
- **`ColdFwProcess`:** passive-mode loads copy `size / 4` words (`WordBytes`); active-mode loads are byte-exact.

`LoadEnd` is the end of a load range counted without wrap-around; it is what `verify_toc`'s `overflowing_add` checks refuse to wrap.

### FmcAlias

One action per step of `derive`, each the whole of the step: every engine call and key-vault write of it, and its failure paths in the code's order. Key-vault contents are abstracted as follows:

- a slot is `[mat, usage]`; an erased slot has the material `EMPTY` and no usage;
- HMAC KDF, key generation and signing are injective tuple constructors, so a key or signature reveals what it was made from;
- `EngineCall` has two outcomes: the engine succeeds, or (when `EngineFaults`) it fails and the ROM halts with `Fatal`, which zeroizes the key vault as `handle_fatal_error` does;
- a read of an empty slot, or of one without the usage the engine needs, fails with a key-vault read error.

A certificate step has three outcomes: success; a failure before the data vault is written; and a `copy_tbs` failure after it. The certificate's SVN field is `svn % 256`, as the `u8` cast gives.

### MailboxService and the refinement

`MailboxService` says what the loop promises without commands or error codes. One request is in flight at a time. The ROM answers it, stashes a measurement and answers it, hands it on as the firmware, or stops serving and then fails it. The stashed measurements only grow, and never past `MaxStash`.

`FwProcMailbox` implements it under this mapping:

- `status`: `rom = "Wait"` is Serving, `"FwReceived"` is Handed, anything else is Failed;
- `chan`: `mbox = "Idle"` is Idle, `"Execute"` is Busy, anything else is Answered;
- `stashed`: the first `meas_log_index` entries of the measurement log (`LoggedMeasurements`).

### FwProcMailbox

A request is abstracted to:

- its command;
- whether it comes from the reserved PAUSER;
- whether its length and checksum pass `copy_req_verify_chksum`;
- its `dlen` class;
- for `STASH_MEASUREMENT`, its measurement.

`HandleCommand` has one disjunct per outcome of each command arm, in the code's order of checks. `FatalHandler` writes FW_ERROR_FATAL and then fails a still-executing transaction. That is the order `handle_fatal_error` keeps, because the loop's transactions are `ManuallyDrop`.

## Runs

All runs are listed in `PROJECT.json` under "runs".

| Run | Expect | Properties | What it shows |
|---|---|---|---|
| BootFlowPassive | pass (4,878 states) | TypeOK, RunningCodeMeasured, VaultDescribesRunningManifest, LoadRangesInIccm, KeyLadderNeverShortened | Passive mode with LMS keys. A bundle whose runtime range wraps u32. Updates that lower the min-SVN, change the owner or roll back. Key-ladder and PCR engine faults. All reset kinds at every step. |
| BootFlowActive | pass (78,160 states) | RunningCodeMeasured, KeyLadderMatchesMinSvn | Active mode with MLDSA keys. Partial image loads and PCR faults. Updates refused for another FMC, a revoked key or a wrong signer. Anti-rollback disabled. |
| MailboxPassive | pass (9,348 states) | TypeOK, MeasurementLogMatchesPcr31, CommandEventuallyCompleted, ImplementsMailboxService | Every command with every outcome, KAT/PCR/DMA faults, malformed requests, stash limit 3 with a log of 3. |
| MailboxActive | pass (4,434 states) | CommandEventuallyCompleted, ImplementsMailboxService | Active mode. The log of 2 is shorter than the limit, so the log-exhausted path runs: PCR31 is extended, the log does not grow and the fatal handler completes the command. The type invariant and `MeasurementLogMatchesPcr31` are checked by `MailboxPassive` and proved. The latter does not apply once the log is exhausted, because the ROM is then in `Error`. |
| FmcAlias | pass (624 states) | TypeOK, AliasKeysBoundToPcr0, AliasCertsCertifyAliasKeys, NoLDevIdSecretLeft, DerivationCompletes | Every lifecycle, debug state, PCR0 value and SVN (0 and 128), with an engine fault possible at every engine call. |
| BootFlowGap, BootFlowOddSize, BootFlowMovedFmc | violation | RunningCodeMeasured | The code runs bytes other than the measured ones (see Findings). |
| BootFlowHighSvn | violation | NoSvnTooLarge | The "internal programming error" is reachable. |
| BootFlowLadderFault | violation | KeyLadderMatchesMinSvn | A failed ladder extension lowers the min-SVN without extending the ladder. A second, successful update reset then completes on the short ladder. |
| MailboxFailBeforeError, MailboxSelfTest | violation | FailureCarriesError | The mailbox shows a failure before, or without, an error code. MailboxFailBeforeError allows stashes and `RI_DOWNLOAD_FIRMWARE`; TLC reports the shorter RI trace, and with stashes alone it reports the stash-limit one. |

The properties of the passing runs are:

- **RunningCodeMeasured:** when the FMC runs after flows the vault records as complete, the ICCM at `manifest1`'s load ranges hashes to the FMC and runtime TCI.
- **VaultDescribesRunningManifest:** the running manifest carries the owner key digest, key indices, FMC digest, runtime digest and SVN held in the vault.
- **KeyLadderMatchesMinSvn:** the ladder has `MAX_FIRMWARE_SVN - fw_min_svn` links.
- **KeyLadderNeverShortened:** an action property; no step shortens a present ladder.
- **MeasurementLogMatchesPcr31:** while the ROM runs, PCR31 is the sequence of logged measurements.
- **CommandEventuallyCompleted:** every command sent is completed or taken as the firmware.
- **ImplementsMailboxService:** `FwProcMailbox`, under the mapping above, implements `MailboxService` with its fairness. In particular no stash is logged by a command that then fails, and no stash is lost from the log.
- **LoadRangesInIccm:** when the FMC runs, both load ranges of `manifest1`, counted without wrap-around, lie in ICCM.
- **AliasKeysBoundToPcr0:** when `derive` returns, the FMC CDI, the ECC alias key and the MLDSA seed in the key vault are derived from the CDI that measures PCR0, with the usages the FMC needs, and the data vault holds their public keys.
- **AliasCertsCertifyAliasKeys:** when `derive` returns, each alias certificate (the data vault's signature over the persistent TBS) verifies under the LDevID key and certifies the data vault's alias key, the FMC TCI and the SVN.
- **NoLDevIdSecretLeft:** once `derive` returns or the ROM halts, no LDevID secret and no temporary seed remains in the key vault.
- **DerivationCompletes:** `derive` always ends, and it ends in a fatal error only through an engine failure: no key-vault read is ever refused.

Every property of a passing run has a mutant in `PROJECT.json`: a plausible bug in a mapped definition that TLC then finds violates the property. For example:

- FMC and runtime TCI swapped;
- the FMC words not dropped before the runtime copy;
- the update-reset owner-digest check removed;
- the ladder rebuilt instead of extended;
- the ladder extension a no-op;
- the runtime copied from the FMC's position;
- an extension error ignored;
- the fatal handler not completing the transaction;
- the TOC overflow check removed;
- a stash logged before its PCR extension succeeds;
- the alias CDI derived without the measurement;
- `KEY_ID_TMP` not erased;
- the LDevID key erased before signing;
- issuer and subject swapped in the TBS;
- the alias private key stored in the data vault in place of the public key.

**Bounds.** Images are a 4-byte manifest, a 4-byte FMC and a 4-byte runtime in a 16-byte ICCM, with u32 width 5 bits. That is enough to place the two images at distinct, adjacent or overlapping word-aligned addresses. SVNs run from 0 to 4 with `MAX_FIRMWARE_SVN = 3`, so an update can raise, keep or lower the min-SVN, and exceed the maximum. Each run has a handful of bundles, each differing from a base bundle in one field the verifier checks. The boot-flow image size is 40 bytes, so a load address plus a size can wrap u32 (width 5). The FMC alias run uses SVNs 0 and 128, which the `u8` field keeps apart. The mailbox runs use stash limit 3, with logs of 3 and of 2, so both the limit and the exhausted-log paths are reached.

**Fairness.** The ROM polls the mailbox on a core that runs nothing else, and the fatal handler runs as soon as a handler returns. So `HandleCommand` and `FatalHandler` are weakly fair. The SoC is not: it need not send or release anything. The mailbox runs disable deadlock checking because the ROM really stops, in the fatal handler or on handing the image on. The boot-flow runs check deadlock, since a reset can always strike. `derive` runs on the single ROM hart with nothing else to do, so `FmcAlias` has weak fairness on its `Next`; its run does not check deadlock, since the ROM stops at `Done` or in the fatal handler. `MailboxService` is weakly fair on `Respond`, the ROM's side only, which is what `HandleCommand`'s and `FatalHandler`'s fairness give.

## Findings

All findings are confirmed by the violation runs.

1. **TOC offsets are not where the image is loaded from** (`fw_processor.rs:584`). Verification hashes the FMC and runtime at their TOC offsets. `load_image` copies from right after the manifest. `verify_toc` does not require the images to be contiguous, so a signed bundle with a gap runs bytes other than the measured ones.
2. **Odd sizes are truncated** (`fw_processor.rs:593`). In passive mode, `size as usize / 4` drops the last `size % 4` bytes of an image that was verified over all its bytes.
3. **The update reset does not pin the FMC's load address** (`update_reset.rs:185`, `verifier.rs:1176`). A signed update with the same FMC digest but another load address lays its runtime over the running FMC.
4. **FW_PROC_SVN_TOO_LARGE is reachable** (`fw_processor.rs:665`). It is reached whenever anti-rollback is disabled or the part is unprovisioned and the SVN exceeds the maximum, after the SoC was told the load succeeded.
5. **A failed key-ladder extension leaves the min-SVN lowered** (`update_reset.rs:234`). `populate_data_vault` stores the new min-SVN before `extend_key_ladder` runs. If the extension fails, the update status stays `Started`, and a warm reset in that state is fatal. A later update reset is not refused, though. It computes its decrement from the already-lowered min-SVN, extends the ladder by nothing and completes. The FMC then runs, with the status `Complete`, on a ladder shorter than `MAX_FIRMWARE_SVN - fw_min_svn`.
6. **The mailbox reports failures out of order** (`fw_processor.rs:267`, `:282`, `:319`, `:372`). These four places fail the transaction before the error register is written, or without writing one.

## Proofs

`FwProcMailboxProofs` proves, for every value of the constants allowed by `MailboxAssumption`:

- **`TypeCorrect`:** `Spec => []TypeOK`. The proof is by `InitTypeOK` and `NextTypeOK`, with one step per action. The `STASH_MEASUREMENT` case is split at the limit check, the request check and the log-domain check. This shows the stash counter never passes `MEASUREMENT_MAX_COUNT`.
- **`LogMatchesPcr31`:** `Spec => []MeasurementLogMatchesPcr31`. The property alone is not inductive, because a stash that writes entry `meas_log_index` needs that entry to exist.
  - **Inductive invariant:** `IInv == TypeOK /\ meas_log_index <= MeasLogEntries /\ MeasurementLogMatchesPcr31`.
  - **Lemma:** `StashKeepsLogMatch` shows that appending to PCR31 and writing the next log entry keep the two equal.
  - **Case split:** every other outcome of a stash either fails the command (`rom' = "Error"`, where the property no longer applies) or leaves the log, counter and PCR31 alone.

- **`ImplementsService`:** `Spec => Service!SafeSpec`, the safety part of the refinement.
  - **`InitRefines`:** the initial state maps to `SInit`.
  - **`NextRefines`:** from a state satisfying `IInv`, every step maps to a `MailboxService` step or a stutter. There is one case per action, and the `HandleCommand` case has one per outcome. A successful stash maps to `Stash`; it needs `IInv`'s bound on the log index.
  - **`StashRefines`:** writing entry `meas_log_index` and incrementing the index appends the measurement to `LoggedMeasurements`, below `MaxStash`.

The fairness part of the refinement (`WF(Respond)`) is checked by TLC only.

`FmcAliasProofs` proves, for every value of the constants allowed by `FmcAliasAssumption` and `KdfAssumption`:

- **`TypeCorrect`:** `Spec => []TypeOK`.
- **`KeysBoundToPcr0`:** `Spec => []AliasKeysBoundToPcr0`.
- **`CertsCertifyAliasKeys`:** `Spec => []AliasCertsCertifyAliasKeys`.
- **`NoSecretLeft`:** `Spec => []NoLDevIdSecretLeft`.

**Why an inductive invariant.** All four properties speak of the `Done` and `Fatal` states, which are reached through five intermediate steps. Each step consumes what the previous one left in the key vault. `IInv` therefore states, phase by phase, what each key-vault slot holds:

- the CDI slot holds the LDevID CDI before `DeriveCdi`, and the FMC CDI after it;
- the alias key slots and public keys are set after their key-generation steps;
- the LDevID ECC and MLDSA slots are present until their certificate steps erase them;
- after each certificate step, the stored signature is `Sign(LDevId…Priv, tbs)`, over a TBS whose fields equal the stored key;
- a fatal state has every slot erased.

**Proof structure.** There is one lemma per action (`DeriveCdiIInv` … `MldsaCertIInv`). Each is split into the success case and the fatal case. The fatal cases all go through the shared `FatalIInv`. Each property then follows from `IInv` by a one-step lemma.

**Assumptions.**

- `SvnValues \subseteq 0..MAX_FIRMWARE_SVN`, because `populate_fw_key_ladder` refuses a larger SVN before this layer runs. This makes the `% 256` of the SVN field the identity.
- `LDevIdCdi # EMPTY`.
- `KdfAssumption`: the alias CDI derived by the KDF is never the LDevID CDI it was derived from. This is a property of the HMAC KDF. Without it, erasing the CDI slot could look like erasing the LDevID CDI.

`BootFlowProofs` proves the following for every bundle set, fuse bank, fault set, ICCM range and word size allowed by `VerifierAssumption`, `BootFlowAssumption` and `BundleFieldsAssumption`. The last of these says the SVN, load addresses and sizes are naturals, as the u32 fields they model are.

- **`VaultDescribesManifest`:** `Spec => []VaultDescribesRunningManifest`.
- **`LoadRangesInIccmHolds`:** `Spec => []LoadRangesInIccm`.
- **`LadderNeverShortened`:** `Spec => KeyLadderNeverShortened`, the action property. It follows from the one-step lemma `LadderStep` and PTL.
- **`LadderMatchesMinSvn`:** under the hypothesis `"KeyLadder" \notin Faults`, `Spec => []KeyLadderMatchesMinSvn`. The hypothesis is needed: the `BootFlowLadderFault` run violates the property when the key-ladder engine fails partway. The proof strengthens `IInv` with `LadderInv`, which says the held ladder always has `MAX_FIRMWARE_SVN - fw_min_svn` links, and that `populate_fw_key_ladder` runs when the min-SVN is equal to the SVN.
- **`LadderInRange`:** `Spec => [](ladder \in {NoLadder} \cup 0..MAX_FIRMWARE_SVN)`, with no hypothesis on faults. This is the ladder conjunct of `TypeOK`. The invariant `LadderBound` weakens `LadderInv` from "exactly" to "at most `MAX_FIRMWARE_SVN - fw_min_svn` links". A key-ladder fault in `UpdPopulate` extends by some `k` below the decrement. That keeps the bound, because the new min-SVN is lower by exactly the decrement.
- **Robustness of the `VerifyOkPasses` chain.** `PassesConcat` is cited through two one-conclusion lemmas, `ConcatIsTuple` and `PassesSplit`. Each step of the walk back through `Checks` uses one of them with only the facts it needs.

**What a successful verification implies.** Two lemmas carry this.

- `VerifyOkPasses` shows that a successful `Verify` passes every entry of `verify_owner_pk_digest`, `verify_vendor_*_pk_idx`, `verify_toc`, `verify_fmc` and `verify_runtime`.
  - `Checks` is a concatenation of eleven check lists.
  - `PassesConcat` shows that a concatenation of tuples is a tuple, and passes only if both parts do. It rests on `ConcatProperties` of `SequenceTheorems`.
  - The lemma walks the concatenation back from its last list.
- `ChecksLoadOk` and `ChecksVaultCore` read single entries of those lists, through `PassesEntry`.
  - `ChecksLoadOk`: a nonzero size, no overflow of `load_addr + size - 1` past `Word`, and both ends in ICCM give the load range in ICCM. The wrapped end address `LoadEnd` equals the true one there.
  - `ChecksVaultCore`: the update-reset equality checks against the data vault give `VaultCore`.

**The inductive invariant.** The properties speak of `Running`, which is reached through cold-boot or update-reset steps that leave the vault or `manifest1` half written. `IInv` says:

- during a cold boot, the vault's status entries are `None` and there is no ladder until `populate_fw_key_ladder`;
- from the vault population on, the vault describes `manifest1`, whose load ranges are in ICCM;
- `Running` and every update-reset phase imply a completed cold boot;
- from a successful update verification on, `manifest2` is a bundle manifest, `vinfo` is its verification info, and the vault's owner, index and FMC entries describe it, with load ranges in ICCM;
- after `populate_data_vault`, the vault's runtime digest and SVN describe `manifest2` as well;
- every update-reset phase after `UpdStart` has the update status `Started`, which is what excuses `manifest1`'s runtime entries while the update is in flight.

TLC checked `IInv` as an invariant of every BootFlow configuration before it was proved. It also checked `LadderInv` where there are no key-ladder faults, and `LadderBound` everywhere. There is one lemma per action.

**The running code is the measured code.** `BootFlowMeasuredProofs` proves `CodeMeasured`:

> `ASSUME BuiltBundles PROVE Spec => []RunningCodeMeasured`

`BuiltBundles` has two parts, and each one is needed. Each part rules out one of the violation runs.

- **`BuilderLayout(b)`:** for each bundle whose TOC checks pass, the layout is the one the image builder produces. The FMC starts right after the manifest, and the runtime right after the FMC. Both sizes are multiples of 4.
  - Without the layout: `BootFlowGap`.
  - Without word-multiple sizes: `BootFlowOddSize`.
- **`FmcPinned`:** two bundle manifests with the same FMC digest have the same FMC load address and size. `UpdVerify` accepts an update only when the FMC digest is unchanged, so this makes the update's FMC range that of `manifest1`.
  - Without it: `BootFlowMovedFmc`.

TLC checked `BuiltBundles` on the `BootFlowPassive` and `BootFlowActive` instances, where it holds, and on each violation instance, where it fails.

The proof strengthens `IInv` with `MInv`:

- from `populate_fw_key_ladder` to the hand-off, the ICCM at `manifest1`'s ranges hashes to both TCIs;
- after a completed cold boot it still hashes to the FMC TCI;
- the runtime range hashes to the runtime TCI unless an update reset is in flight;
- from a successful update verification on, the mailbox holds a bundle with manifest `manifest2` whose TOC and runtime checks pass;
- at `UpdCommit`, `manifest2`'s runtime range hashes to the runtime TCI.

The lemmas about ICCM are these:

- `ReadWritten`: a read of the range just written returns the bytes written.
- `ReadOther`: writing one range leaves a disjoint range unchanged.
- `ChecksLoadDisjoint`: the TOC checks make the FMC and runtime ranges disjoint.
- `CopyDigest`: the bytes copied from the image at an entry's offset hash to the entry's `ImageDigest`.
- `FmcChecksDigest` and `RuntimeChecksDigest`: passing checks make that digest the manifest's.

The cold load writes both ranges. An update writes only the runtime range, which leaves the FMC range untouched. If an update load fails partway, the runtime range is not measured, but the update status stays `Started` and the cold-boot status excuses it until the next reset.

**What stays model-checked only.**

- `BootFlow`'s `TypeOK`. Its error registers range over strings that the verifier builds with `\o`, and the provers treat string concatenation as uninterpreted. Its ICCM conjunct, that every cell holds `JUNK` or a bundle byte, is not proved either. `MInv` proves only the ICCM's domain. Its ladder conjunct is proved on its own (`LadderInRange`).
- `RunningCodeMeasured` on bundle sets that violate `BuiltBundles`. There it is false, as the three violation runs show.
- `ImageVerifier`'s choice of the *first* failing check. Only the success direction of `Verify` is used in proofs.

These are beyond the prover and stay with TLC:

- liveness (`CommandEventuallyCompleted`, `DerivationCompletes`, the fairness of the refinement) and anything using ENABLED;
- facts about recursive definitions.

## Not modelled

- **`BootFlow`'s `ColdFmcAlias`** stays one step; `FmcAlias` models what it does.
- **KATs and `Crypto::hmac_mac`:** pure computation; only the KAT failure outcome is modelled.
- **The byte layout of certificates and of `copy_tbs`:** a TBS is a record of its fields.
- **`lock.rs`:** writes lock bits that no modelled flow reads.
- **The fake ROM (`fake.rs`):** a development build (`fake-rom` feature) that copies canned certificates and skips the IDevID layer; it reuses the firmware processor, which is modelled.
- **Generated register/x509 code, the register generator, the emulator's MCI/DMA peripheral:** code generation and test infrastructure.
- **Cold-boot faults in `update_fuse_log` and `extend_pcrs`:** both are fatal, and are not modelled as faults.
- **A failing `try_start_recv_txn` in the update reset.**
- **ICCM range inclusiveness:** whether `iccm_range()` is inclusive, since that driver is not under `src/`.

`warm_reset.rs`, the ROM's `main`, `handle_fatal_error` and the key-vault/engine drivers behind `Fatal`, `Usable` and `EngineCall` are not under `src/` either. They are modelled from the spec and marked `spec_modelled` in the map.
