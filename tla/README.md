# TLA+ models of libcryfs: opening, creating and re-keying a filesystem, and the JNI handle life cycle

This directory holds TLA+ models of the libcryfs sources under `src/src`,
the TLC configurations that check them, and TLAPS proofs about them.
`PROJECT.json` lists the components, the runs, the mutants and the map
from each definition to the source lines it translates. It also lists the
findings, the hazards and the proved theorems.

## The system and its parts

libcryfs is the CryFS encrypted filesystem packaged as a library for an
Android app. It has the following parts:

- **JNI bindings** (`jni/libcryfs-jni.cpp`):
  - `cryfs_init` turns Java arguments into `ProgramOptions` and `Credentials`, then calls `Cli::initFilesystem`.
  - It stores the returned `Fuse*` in the global set `validFusePtrs` and hands back the derived password hash.
  - `cryfs_change_encryption_key` re-encrypts the descriptor under a new password.
  - `cryfs_destroy`, `cryfs_is_closed` and about 20 wrappers forward the file operations to `Fuse`.
- **Cli** (`cryfs-cli/Cli.cpp`):
  - `initFilesystem` runs sanity checks, then `_loadOrCreateConfig`.
  - `_loadOrCreateConfig` builds a key provider (`_createKeyProvider`), calls `CryConfigLoader::loadOrCreate`, and binds the basedir to the filesystem id (`_checkConfigIntegrity`).
  - It then builds the `CryDevice` and a `Fuse` object and calls `Fuse::init`.
  - Every exception is caught, and the function returns `nullptr`.
- **Config loader** (`cryfs/impl/config/CryConfigLoader.cpp`). `_loadConfig` runs these steps in order:
  1. decrypt the descriptor (`CryConfigFile::load`);
  2. fix the 0.9.7/0.9.8 version strings;
  3. check the version (`_checkVersion`);
  4. save the refreshed descriptor (new format version, last-opened version);
  5. check the cipher (`_checkCipher`);
  6. create or check the local-state record (`LocalStateMetadata::loadOrGenerate`);
  7. run the single-client and integrity checks (`_checkMissingBlocksAreIntegrityViolations`).

  `_createConfig` and `changeEncryptionKey` are built on these.
- **Key providers**:
  - `CryPresetPasswordBasedKeyProvider` derives the key with scrypt and writes it to the caller's `returnedHash`.
  - `CryDirectKeyProvider` uses a given hash, and throws when asked to create a filesystem.
- **Console defaults** (`CryConfigConsole`): the default cipher and the default integrity mode.
- **Fuse adapter** (`fspp/fuse/Fuse.cpp`): `init`/`destroy` set the `_fs` pointer, and each operation maps exceptions to `-errno`.
- Parts that are not under `src/` are modelled from the specification only: `CryConfigFile`, `LocalStateMetadata`, `BasedirMetadata` and `CryConfigCreator`.

The interaction that matters for safety:

- Several machines share one basedir (a synchronised folder), and any of them may change it.
- Each machine has a private local state. It holds one record per filesystem id (client id, key fingerprint) and a basedir → filesystem-id binding.
- These records are the only defence against a descriptor that was swapped, replaced or rolled back.

## Modules

`ConfigLoader.tla` is the core module. Its state:

| Variable | What it holds |
|---|---|
| `file` | The descriptor in the basedir (`None` if absent): the cleartext fields, plus the password and kdf salt the envelope was written under. |
| `localState`, `nextClientId` | `LocalStateMetadata` per machine. A client id is a pair `<<machine, n>>`: each machine hands out its own ids in order (the code draws them at random, so two machines practically never share one), and no two machines share one. |
| `basedirFs` | `BasedirMetadata` per machine. |
| `returnedHashes` | The password hashes handed back to the app on each machine. |
| `generated` | The random values drawn so far, so that fresh ids, keys and salts are really fresh. |
| `backup` | A copy kept by the environment, for rollbacks. |
| `mounts`, `exclusiveMounts` | History variables: what each machine mounted. |

Actions and the code they model (line numbers are in `PROJECT.json`):

| Action | Code |
|---|---|
| `LoadExisting(m,c,o)` | `Cli::initFilesystem` on an existing descriptor: every gate of `_loadConfig` in code order, with the refresh save after the version gate, then `_checkConfigIntegrity`. |
| `CreateWithPassword(m,pw,o)` | `loadOrCreate` → `_createConfig` with console defaults, then `_checkConfigIntegrity`. That check can refuse a filesystem it has just written. |
| `CreateWithDirectKey(m)` | Creating with a hash. The creator's local-state record is written before `CryDirectKeyProvider` throws. |
| `ChangeKeyRejected(m,c)` | `cryfs_change_encryption_key` when `_loadConfig` fails: a `LoadError` (the call returns false) or an exception that escapes the `extern "C"` function. |
| `ChangeKeySucceeds(m,c,pw)` | The same call when the re-save under a new derived key goes through. |
| `AttackerReplace`, `AttackerBackup`, `AttackerRestore`, `AttackerDelete` | The environment writing the basedir. |

Data is abstracted as follows:

- Ids, keys, salts, passwords and ciphers are model values.
- A derived key is the record `[pw, salt]`: scrypt is injective for the model's purposes.
- Format versions are the integers `1..6` in release order:

  | Integer | Version |
  |---|---|
  | 1 | 0.9.3 |
  | 2 | 0.9.4 (oldest supported) |
  | 3 | 0.9.6 |
  | 4 | 0.9.7 (a release version written as a format) |
  | 5 | current |
  | 6 | newer |

- Only `ThisBuild` and `OtherBuild` are distinguished as last-opened versions.

`MC_ConfigLoader.tla` gives the initial descriptors. They cover:

- an empty basedir;
- one descriptor for each branch of `_checkVersion`;
- both ciphers;
- single-client mode.

It also gives the option sets that each entry point can pass:

- `cryfs_init` passes an optional cipher and nothing else.
- `Cli::initFilesystem` accepts every integrity, upgrade and replaced option.

`ConfigLoaderProofs.tla`, `ConfigKeyProofs.tla`, `ConfigActionProofs.tla` and `ConfigReloadProofs.tla` hold the TLAPS proofs.

`JniHandles.tla` models the life of a `Fuse*` handed to Java, with
concurrent Java threads. Each statement that touches shared state is a step
of its own, and `pc[t]` says where thread `t` is. Its state:

| Variable | What it holds |
|---|---|
| `heap` | The Fuse object at each address, or `Free`. A freed address can be handed out again by the next `new Fuse`. |
| `running` | Objects whose `_fs` is their `FilesystemImpl`: `Fuse::init` ran and `Fuse::destroy` has not. |
| `valid` | The global `validFusePtrs` set. |
| `handles` | Pointers Java holds as open (returned by `cryfs_init`, not yet passed to `cryfs_destroy`). |
| `created` | The number of Fuse objects created, bounded by `MaxMounts`. |
| `pc`, `ptr`, `obj`, `gotFs`, `stage` | Per thread: the call in progress, its pointer, the object it means, whether an operation dereferenced a live `FilesystemImpl`, and the step of `cryfs_destroy`. |
| `withPw`, `hash`, `report` | Per thread: whether `cryfs_init` got a password, the state of its `returnedHash` struct, and what it told Java. |

| Action | Code |
|---|---|
| `InitCall(t)` | `cryfs_init` up to the Cli call: the credentials, with `returnedHash` pointing at an uninitialised local struct. |
| `InitCli(t)` | `Cli::initFilesystem` as seen from JNI: it fails before a key is derived, fails after, or mounts (`new Fuse` at a free address, then `Fuse::init`). |
| `InitHash(t)` | The copy of the password hash to Java. |
| `InitInsert(t)` | The null check, the insert into `validFusePtrs` and the return. |
| `OpCall(t,a)`, `OpRun(t)` | A file-operation wrapper: the cast back to `Fuse*` and `_fs->op(...)` on whatever `_fs` is then. The operation either returns, or, on a tampered basedir, first reports an integrity violation. |
| `OnIntegrityViolation(t)` | The `onIntegrityViolation` lambda of `Cli::initFilesystem`, run by `CryDevice` from inside an operation. It reads `fuse` through a reference to a local that died when `initFilesystem` returned. That read is undefined behaviour, so the model reads a nondeterministic slot: null (the lambda throws, and the operation's handler turns the exception into `-EIO`) or any address, whose object `Fuse::destroy` then stops. |
| `DestroyCall(t,a)`, `DestroyStep(t)` | `cryfs_destroy`: `Fuse::destroy`, `delete`, `erase`, one step each, in the order `DestroyOrder`. |

`IsClosed(a)` is `cryfs_is_closed`.

Two constants state the discipline the app may or may not keep, because the
library itself takes no lock:

- `LifecycleSerialised`: no two `cryfs_init`/`cryfs_destroy` calls overlap.
- `OpsDrainedBeforeDestroy`: a handle is destroyed only when no operation on it runs.

A third constant, `BasedirTampered`, says whether blocks of a mounted basedir may be removed or rolled back, so that `CryDevice` reports an integrity violation. The JNI entry point passes `allowIntegrityViolations = false`, so such a report runs the callback.

`JniRegistry.tla` is the abstract specification of what the handle API promises the app. It has no threads, heap or Fuse objects:

| Variable | What it holds |
|---|---|
| `open` | The handles `cryfs_is_closed` reports as open. |
| `held` | The handles the app holds. |

| Action | Meaning |
|---|---|
| `Mount(h)` | `cryfs_init` returns a new handle. It must not be open already. |
| `GiveUp(h)` | The app calls `cryfs_destroy` on a handle it holds. |
| `Close(h)` | The destroy takes effect. Only a handle the app gave up may close. |

`JniHandles` instantiates it as `Registry` with `open <- valid` and `held <- handles`. `RegistrySpec` is the property that the detailed model implements it.
The TLAPS proofs about it are in three modules:

- `JniHandlesProofs.tla`: types and `IsClosedAccurate`;
- `JniRegistryProofs.tla`: the refinement;
- `JniMemoryProofs.tla`: `DestroyHitsOwnObject`, with no assumption on the app.

## Runs

The `ConfigLoader` runs use one machine, two ids, two keys, two salts, two passwords, two ciphers and two client ids per machine, with versions 1..6. The `single` run uses two machines, one password, and an initial basedir that is either empty or holds a single-client descriptor pinned to the first client id of machine `m1` (`MCInitFilesSingle`).

| Run | Expect | What it shows |
|---|---|---|
| `jni` | pass | Under the options of the JNI entry points, against replacement, rollback and deletion, these hold: `MountsOneFilesystem`, `MountsOneKey`, `ReloadSucceeds` (a successful call can be repeated with the same credential and with the hash it returned) and `VersionNeverLowered`. |
| `desktop` | pass | The safety properties hold under every option the CLI accepts, including `allowReplacedFilesystem`. |
| `reload` | pass | `ReloadSucceeds` holds in every integrity mode, with and without upgrade. |
| `refresh` | violation | `FailedLoadLeavesDescriptor`. The code saves the refreshed descriptor before the cipher, local-state and integrity gates, so a load refused with `WrongCipher` has already rewritten `cryfs.config`. The spec orders the gates first. |
| `changekey` | violation | `ChangeKeyReportsFailure`. When `_loadConfig` throws in `cryfs_change_encryption_key` (for example `EncryptionKeyChanged` after a replacement that reuses the id), the exception leaves an `extern "C"` JNI function and terminates the process. |
| `single` | pass | `SingleClientExclusive`. A filesystem in single-client mode is mounted by one machine only: the other machine gets `SingleClientFileSystem`, with or without a local-state record for it, whatever the environment copies, replaces or restores in the basedir, both for the initial descriptor and for one a machine creates during the run. |
| `handles` | pass | With both disciplines kept (two threads, two addresses, three mounts), `cryfs_is_closed` is accurate (`IsClosedAccurate`), no call touches a freed object (`NoUseAfterFree`), `cryfs_destroy` stops and deletes the Fuse it was given (`DestroyHitsOwnObject`), and the model implements `JniRegistry` (`RegistrySpec`). The basedir is not tampered with. |
| `aba` | violation | `IsClosedAccurate`. Without serialised life-cycle calls, `cryfs_destroy` deletes the Fuse before erasing its pointer. A concurrent `cryfs_init` gets the same address, inserts it, and the erase then removes the new, live handle: `cryfs_is_closed` reports an open filesystem as closed. |
| `oprace` | violation | `NoUseAfterFree`. An operation that read `_fs` before `Fuse::destroy` swapped it is still running on the freed `FilesystemImpl`. Nothing in the library waits for running operations. |
| `integrity` | violation | `NoUseAfterFree`, with both disciplines kept and a tampered basedir. An operation reports an integrity violation. The callback reads a dead slot holding the address of the operation's own Fuse and runs `Fuse::destroy` on it, so the operation continues on a freed `FilesystemImpl`. The same read can stop a filesystem on another mount. |
| `errorcode` | violation | `InitFailureReported`. `Cli::initFilesystem` catches every exception and returns `nullptr`, so the `CryfsException` handler in `cryfs_init` that sets `jerrorCode` is never reached: a failed init returns 0 with no error code. |
| `hash` | violation | `ReturnedHashInitialised`. When `Cli::initFilesystem` fails in the sanity checks, before any key is derived, `cryfs_init` still reads the uninitialised `returnedHash` struct and copies it to Java. |

The `aba` counterexample also says what fixes it: with the order
erase, destroy, delete (`DestroyOrder == <<"erase", "destroy", "delete">>`)
the `aba` configuration passes, so an address is out of `validFusePtrs`
before it can be reused.

Why the bounds are enough:

- Two ids, two keys and two salts are what a replacement needs: one with a new id, and one reusing the id with a new key.
- Two passwords give a key change.
- The version set has one value on each side of every comparison in `_checkVersion`, plus the legacy rewrite.
- Two client ids per machine let a machine allocate for two filesystems. With two machines, the second machine may load the first one's single-client filesystem with or without a record of its own.
- For the handles, two threads are what a race needs; two addresses and three mounts make an address be freed and reused by a third Fuse while the other address is in use.

Every action and every disjunct of `Next` fires in the passing runs.

Each property of a passing run has a mutant in `PROJECT.json`: a plausible bug in the mapped code, defined in `ConfigLoader.tla` just before the definition it replaces. TLC finds each mutant violating its property. The mutants are:

- a dropped "too new" branch;
- a refresh that writes the release version;
- a local-state check whose result is ignored;
- a skipped basedir check;
- a missing default cipher;
- an off-by-one exclusive client id;
- an integrity check without its single-client branch;
- `cryfs_init` inserting the null pointer;
- `cryfs_destroy` without the erase, which breaks both `IsClosedAccurate` and `RegistrySpec`, because a given-up handle never closes and its address cannot be opened again;
- `cryfs_destroy` deleting before `Fuse::destroy`, which breaks both `NoUseAfterFree` and `DestroyHitsOwnObject`.

**Fairness.** None is assumed. Every property is a safety property: an invariant or an action property `[][A]_vars`. Each call is one atomic step, because the code runs one call single-threaded from start to end. Nothing in the config path waits for anything else. In `JniHandles` every statement is its own step and all interleavings of the threads are explored. No fairness is assumed there either. The library takes no lock and waits for nothing, and every call finishes in at most four of its own steps. The one exception is an operation on a tampered basedir, which may report violations again and again. A liveness property such as "every call returns" would hold by the shape of the model under weak fairness per thread, so it would say nothing about the code. The progress question the code does raise is whether a destroy waits for running operations. It does not, and that is a safety question: `NoUseAfterFree` and the `oprace` run answer it.

## Proofs

`ConfigLoaderProofs.tla` proves two theorems for every value of the constants, under `ConstantsAssumption` and `InitFilesAssumption`:

- **`TypeCorrect`**: `Spec => []TypeOK`.
  - There is one lemma per action that it preserves `TypeOK`.
  - There are helper lemmas for `Refreshed`, `LocalStateAfter`, `Mounted`, `ExclusiveAfter` and `ReturnedHash`.
  - `InitTypeOK` and `NextTypeOK` combine them.
- **`OneFilesystemPerBasedir`**: `Spec => []MountsOneFilesystem`.
  - The invariant is not inductive on its own, because the mounts do not determine what the next check compares with.
  - The strengthening is `IInv == TypeOK /\ BasedirBinding`, where `BasedirBinding` says every mount of `m` has the filesystem id `basedirFs[m]`.
  - Only a successful load or create adds a mount. Success means `_checkConfigIntegrity` passed, so the basedir is bound to the mounted id, or the caller allowed a replacement, which clears the mount history.
  - `IInv` was checked with TLC as an invariant of the `jni` and `desktop` runs before it was proved.

The proofs rest on four named assumptions, all evaluated by TLC on every config run:
- `ConstantsAssumption` gives the types of the constants, and says that `None` is no filesystem id, key, client id, Boolean or `ErrorCode`. `ErrorCodes` lists the `ErrorCode` values `_loadConfig` and `Cli::initFilesystem` can end in.
- `LegacyOrderAssumption` says the normalised release versions (0.9.7, 0.9.8) and the oldest supported format are not newer than the current one. This is true of the code's version strings.
- `InitFilesAssumption` says the initial descriptor is well-typed.
- `NoneNotRecordAssumption` says a missing local-state record is not a record.

To make the error of `_loadConfig` provable, `LoaderError` is written with disjoint guards, one per gate, so each arm holds exactly when every earlier gate passed and its own failed. Under TLC this is the same function as before.

`ConfigKeyProofs.tla` proves **`OneKeyPerFilesystem`**: `Spec => []MountsOneKey`, for every number of machines, filesystem ids and keys.
- `MountsOneKey` is not inductive. A load of a filesystem id with a new inner key is refused only because the machine's local state still records the fingerprint of the key mounted before.
- The strengthening `KInv` adds three facts to `TypeOK`:
  - `KeyBinding`: every mount of `m` has a local-state record whose fingerprint is that of its key;
  - `LocalGenerated`: records exist only for filesystem ids that were already drawn;
  - `FilesGenerated`: the basedir and backup descriptors carry drawn ids.
- The last two are what make a freshly created filesystem never meet a stale record.
- Each operation preserves `KInv` through one lemma, `KeyBindingStep`. Its precondition `KeyStepHyp` says that a step rewrites at most the record for the loaded id, does so only when `loadOrGenerate` accepted the key, and adds at most that mount.
- `KInv` was checked with TLC as an invariant of the `jni` and `desktop` runs before it was proved.

`ConfigActionProofs.tla` proves one action property from `TypeOK` alone:
- **`VersionMonotone`** (`Spec => VersionNeverLowered`): a load that passes the version gate had a version no newer than the current one (`VersionPassedBound`), and a refresh writes the current version.

The action property is proved from a step lemma, `TypeOK /\ [Next]_vars => [Step]_vars`, and PTL.

`ConfigReloadProofs.tla` proves **`ReloadAlwaysSucceeds`**: `Spec => ReloadSucceeds`.
- `GatesPass(m, c, o)` is the conjunction of every gate of `_loadConfig` and of the basedir check of `_checkConfigIntegrity`.
  - `SuccessGates`: a `"Success"` result implies it.
  - `GatesSuccess`: in the state after a step, it implies `"Success"`.
  - `HashGates`: it carries over to the password hash a password-based provider returns.
- `LoadLeavesGates`: a successful load leaves every gate passing. The refresh save keeps the envelope, cipher and integrity mode, and writes the current format version, which `_checkVersion` accepts by `LegacyOrderAssumption`. `loadOrGenerate` stored this key's fingerprint under the same client id, and the basedir is bound to the loaded id.
- `CreateLeavesGates`: a create that changed the mounts succeeded, because a refused create without consent leaves the mounts alone. It leaves every gate passing for its password. The creator's record is fresh because the new id was never drawn. This is where `LocalGenerated`, and so `KInv`, is needed: it gives the single-client descriptor the client id the record holds.
- The antecedents of `ReloadSucceeds` name the step itself, so `KInv` alone gives the step formula, with no case split on `Next`.

`JniHandlesProofs.tla` proves two theorems for every set of threads and addresses and every mount bound, under `JniConstantsAssumption`:

- **`TypeCorrect`**: `Spec => []TypeOK`, with one lemma per action.
- **`ClosedAccurateWhenSerialised`**: under `LifecycleSerialised`, `Spec => []IsClosedAccurate`.
  - `IsClosedAccurate` is not inductive: a state where two destroys run on the same address, or where a destroy's pointer is still held, satisfies it but breaks it in one step.
  - The strengthening is `IInv == TypeOK /\ LifecycleExclusive /\ DestroyingNotHeld /\ IsClosedAccurate`. `LifecycleExclusive` says at most one thread is inside `cryfs_init` or `cryfs_destroy`. `DestroyingNotHeld` says a pointer being destroyed is no longer held by Java.
  - With those facts, an insert can only add an address that is not being destroyed, and an erase can only remove an address that is no longer held.
  - `IInv` was checked with TLC as an invariant of the `handles` run before it was proved.
  - Without `LifecycleSerialised` the theorem is false; the `aba` run is the counterexample.

`JniRegistryProofs.tla` proves **`RegistryRefinement`**: under `LifecycleSerialised`, `Spec => RegistrySpec`. The argument:

- Every initial state maps to `Registry!Init`.
- Every step maps to a registry step or a stutter:
  - a non-null insert is `Mount`;
  - `DestroyCall` is `GiveUp`;
  - the erase is `Close` when the address was in `validFusePtrs`, and otherwise a stutter;
  - every other step leaves `valid` and `handles` unchanged.
- `Mount` needs a fresh address, and `Close` needs an address the app no longer holds. So `IInv` is strengthened with two more invariants:
  - `PendingFresh`: a Fuse between `Cli::initFilesystem` and the insert is at a live address not in `validFusePtrs`;
  - `ValidLive`: every address in `validFusePtrs` holds a live object, unless its own destroy is past the delete.
- TLC agrees: the `handles` run passes and the `aba` configuration violates `RegistrySpec`.

`JniMemoryProofs.tla` proves **`DestroyHitsOwnObjectAlways`**: `Spec => []DestroyHitsOwnObject`, for every number of threads, addresses and mounts, and for every value of `LifecycleSerialised`, `OpsDrainedBeforeDestroy` and `BasedirTampered`. So `cryfs_destroy` runs `Fuse::destroy` and `delete` on the Fuse it was given even when life-cycle calls run concurrently, operations still run on the handle, and the integrity callback stops arbitrary objects. The ABA reuse of the `aba` run reaches only the erase, never the destroy or the delete.

- The property is not inductive: a state where a second thread is about to delete the destroyer's address, or where Java still holds that address and can pass it to another `cryfs_destroy`, satisfies it and breaks it in one step.
- The strengthening `DInv` says that a thread *owns* its address between `new Fuse` and the insert (`Pending`), and between the call of `cryfs_destroy` and its delete (`Destroying`). It adds four facts to `TypeOK`:
  - `HeldAllocated`: every pointer Java holds is allocated;
  - `OwnedAllocated`: an owned address is allocated and not held by Java;
  - `OwnedDistinct`: no two threads own the same address;
  - `DestroyingObj`: until its delete, a destroy finds its object at its address.
- A `new Fuse` takes a free address, so it never lands on an owned or held one. A delete frees only its own address, which nobody else owns and Java does not hold. Operations and the integrity callback change `running` only, never the heap.
- `QuietDInv` covers every step that leaves the heap and the handles alone and changes no ownership; the remaining steps (`new Fuse`, insert, the call of `cryfs_destroy`, delete) have a lemma each.
- `DInv` was checked with TLC before it was proved: 8.4 million states, with unserialised life-cycle calls, no drain and a tampered basedir. `DestroyHitsOwnObject` also held there with four mounts (28 million states).

`NoUseAfterFree`, the stronger claim that no running operation uses a stopped `FilesystemImpl`, is only model-checked. It holds in the `handles` run. The `oprace` run shows that the drain is needed, and the `integrity` run shows that an untampered basedir is needed.

Everything else is only model-checked:

- the violation runs;
- `NoUseAfterFree` and `SingleClientExclusive`;
- anything about specific values of the bounds.

Liveness would be out of the prover's reach, but none is stated.

## Not modelled yet

- **Memory-ownership bugs** other than the uninitialised `returnedHash` and the dangling `[&fuse]` capture are outside the data abstraction. An example is the returned hash pointing into a freed key buffer.
- **Per-operation results** in `Fuse.cpp` and the JNI wrappers are abstracted to "the handler returns". The following are not modelled, because the model keeps no directory contents, stat buffers or error codes:
  - which errno a given exception becomes;
  - `Fuse::link` returning `+ENOSYS` rather than `-ENOSYS`, although no JNI entry point calls it;
  - `cryfs_create` and `cryfs_open` returning `-1` and dropping the errno;
  - the `readDir` helper ignoring the result of `getattr`, which is listed as a hazard.
- **Other parts:**
  - the block store and the `CryDevice` sanity check;
  - the legacy duplicate `fspp/fuse/jni.cpp`;
  - the test mock `MockBlock.cpp`.
