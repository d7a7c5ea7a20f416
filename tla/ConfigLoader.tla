---------------------------- MODULE ConfigLoader ----------------------------
(***************************************************************************)
(* Opening, creating and re-keying a CryFS filesystem descriptor           *)
(* (cryfs.config), as done by CryConfigLoader, the two key providers and   *)
(* the config part of Cli::initFilesystem.                                 *)
(*                                                                         *)
(* One basedir holds one descriptor file, shared by several Machines (a    *)
(* synchronised folder).  Each machine has its own local-state directory:  *)
(* a record per filesystem id (client id, key fingerprint) and the         *)
(* basedir -> filesystem-id binding.  An environment (the attacker with    *)
(* write access to the basedir) may replace, roll back or delete the       *)
(* descriptor.                                                             *)
(*                                                                         *)
(* Each call is one atomic step: the code is single threaded per call and  *)
(* the order of its early returns and saves is kept inside the step.       *)
(***************************************************************************)
EXTENDS Naturals

CONSTANTS
    Machines,               \* machines sharing the basedir
    Passwords,              \* passwords a user may type
    Ciphers,                \* cipher names
    DefaultCipher,          \* CryConfigConsole::DEFAULT_CIPHER
    FsIds,                  \* random filesystem ids
    Keys,                   \* random inner encryption keys
    Salts,                  \* random scrypt kdf parameters
    MaxClientId,            \* bound on client ids allocated per machine
    MaxVersion,             \* format versions are 1..MaxVersion, in order
    MinSupportedVersion,    \* "0.9.4"
    FilesystemFormatVersion,\* CryConfig::FilesystemFormatVersion
    LegacyVersions,         \* "0.9.7", "0.9.8": release versions written as format
    LegacyFormatVersion,    \* "0.9.6": what they are normalised to
    ThisBuild,              \* gitversion::VersionString() of this program
    OtherBuild,             \* any other program version
    None,                   \* boost::none, and the absent descriptor file
    InitFiles,              \* descriptor states the basedir may start in
    CipherOptions,          \* values the caller passes as cipher override
    MissingBlockOptions,    \* ... as missingBlockIsIntegrityViolation
    UpgradeOptions,         \* ... as allowFilesystemUpgrade
    ReplacedOptions         \* ... as allowReplacedFilesystem

Versions == 1 .. MaxVersion
(* A client id names the local state that issued it: each machine hands   *)
(* out its own ids in increasing order, and no two machines share one (a   *)
(* fresh local state on another machine gets an id of its own).           *)
ClientIds == Machines \X (1 .. MaxClientId)
Builds == {ThisBuild, OtherBuild}

(* The ErrorCode values _loadConfig and Cli::initFilesystem end in.         *)
ErrorCodes ==
    {"WrongPassword", "TooOldFilesystemFormat", "TooNewFilesystemFormat",
     "WrongCipher", "EncryptionKeyChanged",
     "FilesystemHasDifferentIntegritySetup", "SingleClientFileSystem",
     "FilesystemIdChanged"}

ASSUME ConstantsAssumption ==
    /\ MaxClientId \in Nat
    /\ MaxVersion \in Nat
    /\ {MinSupportedVersion, FilesystemFormatVersion, LegacyFormatVersion} \subseteq Versions
    /\ LegacyVersions \subseteq Versions
    /\ DefaultCipher \in Ciphers
    /\ None \notin FsIds \cup Keys
    /\ None \notin ClientIds
    /\ None \notin BOOLEAN
    /\ None \notin ErrorCodes
    /\ CipherOptions \subseteq Ciphers \cup {None}
    /\ MissingBlockOptions \subseteq {None, TRUE, FALSE}
    /\ UpgradeOptions \subseteq BOOLEAN
    /\ ReplacedOptions \subseteq BOOLEAN
    /\ ThisBuild # OtherBuild

(* The release versions 0.9.7 and 0.9.8 that _loadConfig normalises to     *)
(* 0.9.6, and the oldest supported format 0.9.4, are older than the        *)
(* current filesystem format.                                              *)
ASSUME LegacyOrderAssumption ==
    /\ \A v \in LegacyVersions : v < FilesystemFormatVersion
    /\ MinSupportedVersion <= FilesystemFormatVersion

(* The cleartext descriptor together with the credential it is encrypted  *)
(* under: the password and the kdf parameters stored in the envelope.      *)
Descriptor == [fsId: FsIds, key: Keys, cipher: Ciphers, version: Versions,
               lastOpened: Builds, excl: ClientIds \cup {None},
               pw: Passwords, salt: Salts]

(* The basedir starts empty or with a well-formed descriptor.              *)
ASSUME InitFilesAssumption == InitFiles \subseteq Descriptor \cup {None}

(* An scrypt output: the outer key derived from a password and kdf params. *)
DerivedKey == [pw: Passwords, salt: Salts]

(* What the caller hands in: a password, or a password hash (a derived key) *)
(* returned by an earlier call.                                            *)
Credential == [kind: {"password"}, pw: Passwords]
                \cup [kind: {"hash"}, hash: DerivedKey]

(* The one-way fingerprint of an inner key kept in the local state.        *)
Fingerprint(k) == [fingerprintOf |-> k]

LocalRecord == [clientId: ClientIds, fp: {Fingerprint(k) : k \in Keys}]

(* A missing local-state record (boost::none) is no record.                *)
ASSUME NoneNotRecordAssumption == None \notin LocalRecord

Options == [cipher: CipherOptions, missingBlock: MissingBlockOptions,
            allowUpgrade: UpgradeOptions, allowReplaced: ReplacedOptions]

(* The options cryfs_change_encryption_key builds its loader with.         *)
ChangeKeyOptions == [cipher |-> None, missingBlock |-> None,
                     allowUpgrade |-> FALSE, allowReplaced |-> FALSE]

VARIABLES
    file,           \* the descriptor in the basedir, or None
    localState,     \* localState[m][f]: m's record for filesystem f, or None
    nextClientId,   \* next client id m's local state hands out
    basedirFs,      \* basedirFs[m]: filesystem id m bound to the basedir, or None
    returnedHashes, \* password hashes handed back to the caller on m
    generated,      \* random values drawn so far (ids, keys, salts)
    backup,         \* a copy of the descriptor the environment kept, or None
    mounts,         \* [fsId, key] pairs m mounted since it last allowed replacement
    exclusiveMounts \* <<m, fsId>> for each single-client filesystem m mounted

vars == <<file, localState, nextClientId, basedirFs, returnedHashes,
          generated, backup, mounts, exclusiveMounts>>

-----------------------------------------------------------------------------
(* Key providers                                                           *)

(* The outer key a credential yields for kdf parameters `salt`:            *)
(* CryPresetPasswordBasedKeyProvider runs scrypt, CryDirectKeyProvider     *)
(* returns the given hash as it is.                                        *)
CredentialKey(c, salt) ==
    IF c.kind = "password" THEN [pw |-> c.pw, salt |-> salt] ELSE c.hash

(* The derived keys the provider writes to the returnedHash sink: only a   *)
(* password-based provider has one (Cli::_createKeyProvider).              *)
ReturnedHash(c, salt) ==
    IF c.kind = "password" THEN {CredentialKey(c, salt)} ELSE {}

OuterKey(d) == [pw |-> d.pw, salt |-> d.salt]

(* CryConfigFile::load: decryption succeeds iff the derived key is the one *)
(* the envelope was written with.                                          *)
Decrypts(c, d) == CredentialKey(c, d.salt) = OuterKey(d)

-----------------------------------------------------------------------------
(* Loader gates, in the order _loadConfig runs them                        *)

FixedVersion(v) == IF v \in LegacyVersions THEN LegacyFormatVersion ELSE v

(* Mutant: _checkVersion without the "too new" branch.                    *)
VersionErrorNoTooNew(v, allowUpgrade) ==
    IF v < MinSupportedVersion THEN "TooOldFilesystemFormat"
    ELSE IF ~allowUpgrade /\ v < FilesystemFormatVersion
         THEN "TooOldFilesystemFormat"
    ELSE None

VersionError(v, allowUpgrade) ==
    IF v < MinSupportedVersion THEN "TooOldFilesystemFormat"
    ELSE IF FilesystemFormatVersion < v THEN "TooNewFilesystemFormat"
    ELSE IF ~allowUpgrade /\ v < FilesystemFormatVersion
         THEN "TooOldFilesystemFormat"
    ELSE None

(* Mutant: the refresh save writes the program's release version as the   *)
(* format version (what 0.9.7 and 0.9.8 did).                              *)
RefreshedReleaseVersion(d) ==
    [d EXCEPT !.version = CHOOSE v \in LegacyVersions : TRUE,
              !.lastOpened = ThisBuild]

(* The descriptor as saved after the version gate: format version and     *)
(* last-opened version set to this program's.                              *)
Refreshed(d) ==
    [d EXCEPT !.version = FilesystemFormatVersion, !.lastOpened = ThisBuild]

CipherMismatch(o, d) == o.cipher # None /\ d.cipher # o.cipher

(* LocalStateMetadata::loadOrGenerate                                      *)
KeyReplaced(m, d, allowReplaced) ==
    /\ localState[m][d.fsId] # None
    /\ localState[m][d.fsId].fp # Fingerprint(d.key)
    /\ ~allowReplaced

MyClientId(m, f) ==
    IF localState[m][f] = None THEN <<m, nextClientId[m]>>
    ELSE localState[m][f].clientId

CanAllocate(m, f) == localState[m][f] # None \/ nextClientId[m] <= MaxClientId

LocalStateAfter(m, f, k) ==
    [localState EXCEPT ![m][f] = [clientId |-> MyClientId(m, f),
                                  fp |-> Fingerprint(k)]]

NextClientIdAfter(m, f) ==
    IF localState[m][f] = None
    THEN [nextClientId EXCEPT ![m] = @ + 1] ELSE nextClientId

(* Mutant: the single-client branch of the integrity check dropped.       *)
IntegrityErrorNoClientCheck(o, excl, myId) ==
    IF o.missingBlock = TRUE /\ excl = None
    THEN "FilesystemHasDifferentIntegritySetup"
    ELSE IF o.missingBlock = FALSE /\ excl # None
    THEN "FilesystemHasDifferentIntegritySetup"
    ELSE None

IntegrityError(o, excl, myId) ==
    IF o.missingBlock = TRUE /\ excl = None
    THEN "FilesystemHasDifferentIntegritySetup"
    ELSE IF o.missingBlock = FALSE /\ excl # None
    THEN "FilesystemHasDifferentIntegritySetup"
    ELSE IF excl # None /\ excl # myId THEN "SingleClientFileSystem"
    ELSE None

(* Mutant: the basedir check skipped.                                      *)
BasedirIdChangedSkipped(m, f, allowReplaced) == FALSE

(* Cli::_checkConfigIntegrity, BasedirMetadata::filesystemIdForBasedirIsCorrect *)
BasedirIdChanged(m, f, allowReplaced) ==
    ~allowReplaced /\ basedirFs[m] # None /\ basedirFs[m] # f

(* How far _loadConfig gets on the present descriptor.                     *)
Decrypted(c) == Decrypts(c, file)
VersionPassed(c, o) ==
    Decrypted(c) /\ VersionError(FixedVersion(file.version), o.allowUpgrade) = None
CipherPassed(c, o) == VersionPassed(c, o) /\ ~CipherMismatch(o, file)
(* Mutant: the result of loadOrGenerate's fingerprint check ignored.      *)
LocalStatePassedNoKeyCheck(m, c, o) == CipherPassed(c, o)
LocalStatePassed(m, c, o) ==
    CipherPassed(c, o) /\ ~KeyReplaced(m, file, o.allowReplaced)
IntegrityPassed(m, c, o) ==
    LocalStatePassed(m, c, o)
    /\ IntegrityError(o, file.excl, MyClientId(m, file.fsId)) = None

(* The error _loadConfig throws or returns, None when it succeeds: the     *)
(* error of the first gate that fails.                                     *)
LoaderError(m, c, o) ==
    CASE ~Decrypted(c) -> "WrongPassword"
      [] Decrypted(c) /\ ~VersionPassed(c, o) ->
            VersionError(FixedVersion(file.version), o.allowUpgrade)
      [] VersionPassed(c, o) /\ ~CipherPassed(c, o) -> "WrongCipher"
      [] CipherPassed(c, o) /\ ~LocalStatePassed(m, c, o) -> "EncryptionKeyChanged"
      [] LocalStatePassed(m, c, o) /\ ~IntegrityPassed(m, c, o) ->
            IntegrityError(o, file.excl, MyClientId(m, file.fsId))
      [] OTHER -> None

(* The result Cli::initFilesystem reaches for an existing descriptor.      *)
LoadResult(m, c, o) ==
    IF LoaderError(m, c, o) # None THEN LoaderError(m, c, o)
    ELSE IF BasedirIdChanged(m, file.fsId, o.allowReplaced)
    THEN "FilesystemIdChanged"
    ELSE "Success"

(* Ghost: what m has mounted since its user last passed                    *)
(* allowReplacedFilesystem, the consent to a replaced filesystem.          *)
Mounted(m, d, o, success) ==
    [mounts EXCEPT ![m] = (IF o.allowReplaced THEN {} ELSE @)
                          \cup (IF success THEN {[fsId |-> d.fsId, key |-> d.key]}
                                ELSE {})]

ExclusiveAfter(m, d) ==
    IF d.excl # None THEN exclusiveMounts \cup {<<m, d.fsId>>}
    ELSE exclusiveMounts

(* Credentials the caller on m can supply: a password, or a hash it got back. *)
CredentialsOn(m) ==
    [kind: {"password"}, pw: Passwords]
        \cup {[kind |-> "hash", hash |-> h] : h \in returnedHashes[m]}

-----------------------------------------------------------------------------
Init ==
    /\ file \in InitFiles
    /\ localState = [m \in Machines |-> [f \in FsIds |-> None]]
    /\ nextClientId = [m \in Machines |-> 1]
    /\ basedirFs = [m \in Machines |-> None]
    /\ returnedHashes = [m \in Machines |-> {}]
    /\ generated = IF file = None THEN {} ELSE {file.fsId, file.key, file.salt}
    /\ backup = file
    /\ mounts = [m \in Machines |-> {}]
    /\ exclusiveMounts = {}

(* Cli::initFilesystem on an existing descriptor: CryConfigLoader::        *)
(* loadOrCreate takes the _loadConfig branch, then _checkConfigIntegrity   *)
(* binds the basedir.  The refresh save happens as soon as the version     *)
(* gate has passed, before the cipher, local-state and integrity gates.    *)
LoadExisting(m, c, o) ==
    LET f == file.fsId
        success == LoadResult(m, c, o) = "Success"
    IN
    /\ file # None
    /\ CipherPassed(c, o) => CanAllocate(m, f)
    /\ file' = IF VersionPassed(c, o) THEN Refreshed(file) ELSE file
    /\ localState' = IF LocalStatePassed(m, c, o)
                     THEN LocalStateAfter(m, f, file.key) ELSE localState
    /\ nextClientId' = IF LocalStatePassed(m, c, o)
                       THEN NextClientIdAfter(m, f) ELSE nextClientId
    /\ basedirFs' = IF success THEN [basedirFs EXCEPT ![m] = f] ELSE basedirFs
    /\ returnedHashes' =
           [returnedHashes EXCEPT ![m] = @ \cup ReturnedHash(c, file.salt)]
    /\ mounts' = Mounted(m, file, o, success)
    /\ exclusiveMounts' = IF success THEN ExclusiveAfter(m, file)
                          ELSE exclusiveMounts
    /\ UNCHANGED <<generated, backup>>

(* Mutant: the cipher option taken as it is, without the console default.  *)
CreatedDescriptorNoDefaultCipher(m, f, k, s, pw, o) ==
    [fsId |-> f, key |-> k, cipher |-> o.cipher,
     version |-> FilesystemFormatVersion, lastOpened |-> ThisBuild,
     excl |-> IF o.missingBlock = TRUE THEN <<m, nextClientId[m]>> ELSE None,
     pw |-> pw, salt |-> s]

(* Mutant: the creator records the client id after the one it allocates.  *)
CreatedDescriptorClientIdOffByOne(m, f, k, s, pw, o) ==
    [fsId |-> f, key |-> k,
     cipher |-> IF o.cipher = None THEN DefaultCipher ELSE o.cipher,
     version |-> FilesystemFormatVersion, lastOpened |-> ThisBuild,
     excl |-> IF o.missingBlock = TRUE THEN <<m, nextClientId[m] + 1>> ELSE None,
     pw |-> pw, salt |-> s]

(* CryConfigCreator::create followed by CryConfigFile::create: a fresh id, *)
(* a fresh inner key, cipher and integrity mode from the options or the    *)
(* console defaults, the creator's local-state record.                     *)
CreatedDescriptor(m, f, k, s, pw, o) ==
    [fsId |-> f, key |-> k,
     cipher |-> IF o.cipher = None THEN DefaultCipher ELSE o.cipher,
     version |-> FilesystemFormatVersion, lastOpened |-> ThisBuild,
     excl |-> IF o.missingBlock = TRUE THEN <<m, nextClientId[m]>> ELSE None,
     pw |-> pw, salt |-> s]

(* Cli::initFilesystem with a password and no descriptor: _createConfig,   *)
(* then _checkConfigIntegrity, which may refuse the new filesystem after   *)
(* it has been written.                                                    *)
CreateWithPassword(m, pw, o) ==
    /\ file = None
    /\ nextClientId[m] <= MaxClientId
    /\ \E f \in FsIds \ generated, k \in Keys \ generated, s \in Salts \ generated :
        LET d == CreatedDescriptor(m, f, k, s, pw, o)
            success == ~BasedirIdChanged(m, f, o.allowReplaced)
        IN
        /\ file' = d
        /\ localState' = LocalStateAfter(m, f, k)
        /\ nextClientId' = NextClientIdAfter(m, f)
        /\ generated' = generated \cup {f, k, s}
        /\ returnedHashes' = [returnedHashes EXCEPT ![m] = @ \cup {OuterKey(d)}]
        /\ basedirFs' = IF success THEN [basedirFs EXCEPT ![m] = f] ELSE basedirFs
        /\ mounts' = Mounted(m, d, o, success)
        /\ exclusiveMounts' = IF success THEN ExclusiveAfter(m, d)
                              ELSE exclusiveMounts
    /\ UNCHANGED backup

(* The same with a password hash: the creator has already made its local- *)
(* state record when CryDirectKeyProvider::requestKeyForNewFilesystem      *)
(* throws std::logic_error, which Cli::initFilesystem logs as a crash.     *)
CreateWithDirectKey(m) ==
    /\ file = None
    /\ nextClientId[m] <= MaxClientId
    /\ \E f \in FsIds \ generated, k \in Keys \ generated :
        /\ localState' = LocalStateAfter(m, f, k)
        /\ nextClientId' = NextClientIdAfter(m, f)
        /\ generated' = generated \cup {f, k}
    /\ UNCHANGED <<file, backup, basedirFs, returnedHashes, mounts,
                   exclusiveMounts>>

(* What cryfs_change_encryption_key ends in when _loadConfig does not get  *)
(* through: a missing file or a failed decryption comes back as a          *)
(* LoadError and the call returns false; every exception _loadConfig      *)
(* throws leaves the extern "C" function uncaught and ends the process.    *)
ChangeKeyFailure(m, c) ==
    IF file = None THEN "ConfigFileNotFound"
    ELSE IF ~Decrypted(c) THEN "WrongPassword"
    ELSE "Terminated"

(* cryfs_change_encryption_key when _loadConfig does not get through.  The *)
(* refresh save and the local-state record it reached are already made.   *)
ChangeKeyRejected(m, c) ==
    LET o == ChangeKeyOptions IN
    /\ \/ /\ file = None
          /\ UNCHANGED <<file, localState, nextClientId>>
       \/ /\ file # None
          /\ ~IntegrityPassed(m, c, o)
          /\ CipherPassed(c, o) => CanAllocate(m, file.fsId)
          /\ file' = IF VersionPassed(c, o) THEN Refreshed(file) ELSE file
          /\ localState' = IF LocalStatePassed(m, c, o)
                           THEN LocalStateAfter(m, file.fsId, file.key)
                           ELSE localState
          /\ nextClientId' = IF LocalStatePassed(m, c, o)
                             THEN NextClientIdAfter(m, file.fsId)
                             ELSE nextClientId
    /\ UNCHANGED <<basedirFs, returnedHashes, generated, backup, mounts,
                   exclusiveMounts>>

(* cryfs_change_encryption_key when _loadConfig succeeds: the loaded       *)
(* descriptor is written again under a key the new password-based provider *)
(* derives with fresh kdf parameters; that key goes to the returnedHash.   *)
ChangeKeySucceeds(m, c, newPw) ==
    LET o == ChangeKeyOptions IN
    /\ file # None
    /\ IntegrityPassed(m, c, o)
    /\ CanAllocate(m, file.fsId)
    /\ \E s \in Salts \ generated :
        LET d == [Refreshed(file) EXCEPT !.pw = newPw, !.salt = s] IN
        /\ file' = d
        /\ generated' = generated \cup {s}
        /\ returnedHashes' = [returnedHashes EXCEPT ![m] = @ \cup {OuterKey(d)}]
    /\ localState' = LocalStateAfter(m, file.fsId, file.key)
    /\ nextClientId' = NextClientIdAfter(m, file.fsId)
    /\ UNCHANGED <<basedirFs, backup, mounts, exclusiveMounts>>

-----------------------------------------------------------------------------
(* The environment: whoever can write the basedir.                         *)

(* A descriptor of an independently created filesystem, under any password *)
(* and with any filesystem id (a reused id with another key included).     *)
AttackerReplace ==
    \E f \in FsIds, k \in Keys \ generated, p \in Passwords, s \in Salts \ generated :
        /\ file' = [fsId |-> f, key |-> k, cipher |-> DefaultCipher,
                    version |-> FilesystemFormatVersion, lastOpened |-> OtherBuild,
                    excl |-> None, pw |-> p, salt |-> s]
        /\ generated' = generated \cup {f, k, s}
        /\ UNCHANGED <<localState, nextClientId, basedirFs, returnedHashes,
                       backup, mounts, exclusiveMounts>>

(* The environment keeps a copy of the descriptor ...                      *)
AttackerBackup ==
    /\ backup # file
    /\ backup' = file
    /\ UNCHANGED <<file, localState, nextClientId, basedirFs, returnedHashes,
                   generated, mounts, exclusiveMounts>>

(* ... and later puts it back: a rollback of the basedir.                  *)
AttackerRestore ==
    /\ backup # file
    /\ file' = backup
    /\ UNCHANGED <<localState, nextClientId, basedirFs, returnedHashes,
                   generated, backup, mounts, exclusiveMounts>>

AttackerDelete ==
    /\ file # None
    /\ file' = None
    /\ UNCHANGED <<localState, nextClientId, basedirFs, returnedHashes,
                   generated, backup, mounts, exclusiveMounts>>

Next ==
    \/ \E m \in Machines :
        \/ \E c \in CredentialsOn(m), o \in Options : LoadExisting(m, c, o)
        \/ \E pw \in Passwords, o \in Options : CreateWithPassword(m, pw, o)
        \/ returnedHashes[m] # {} /\ CreateWithDirectKey(m)
        \/ \E c \in CredentialsOn(m) : ChangeKeyRejected(m, c)
        \/ \E c \in CredentialsOn(m), pw \in Passwords : ChangeKeySucceeds(m, c, pw)
    \/ AttackerReplace
    \/ AttackerBackup
    \/ AttackerRestore
    \/ AttackerDelete

Spec == Init /\ [][Next]_vars

-----------------------------------------------------------------------------
(* Properties                                                              *)

(* Every variable holds a value of its type.                               *)
TypeOK ==
    /\ file \in Descriptor \cup {None}
    /\ localState \in [Machines -> [FsIds -> LocalRecord \cup {None}]]
    /\ nextClientId \in [Machines -> 1 .. MaxClientId + 1]
    /\ basedirFs \in [Machines -> FsIds \cup {None}]
    /\ returnedHashes \in [Machines -> SUBSET DerivedKey]
    /\ generated \subseteq FsIds \cup Keys \cup Salts
    /\ backup \in Descriptor \cup {None}
    /\ mounts \in [Machines -> SUBSET [fsId: FsIds, key: Keys]]
    /\ exclusiveMounts \subseteq Machines \X FsIds

(* Anti-swap, basedir binding (Cli::_checkConfigIntegrity): unless the     *)
(* caller allowed a replaced filesystem, every filesystem a machine mounts *)
(* from the basedir has the same filesystem id, whatever the environment   *)
(* did to the descriptor in between.                                       *)
MountsOneFilesystem ==
    \A m \in Machines : \A x, y \in mounts[m] : x.fsId = y.fsId

(* Anti-swap, key binding (LocalStateMetadata::loadOrGenerate): a machine  *)
(* never mounts one filesystem id under two different inner keys unless    *)
(* the caller allowed a replaced filesystem.                               *)
MountsOneKey ==
    \A m \in Machines : \A x, y \in mounts[m] :
        x.fsId = y.fsId => x.key = y.key

(* The caller, with credential c and options o, loads successfully now, *)
(* and so does every password hash its key provider would return.       *)
SucceedsAgain(m, c, o) ==
    /\ LoadResult(m, c, o) = "Success"
    /\ \A h \in ReturnedHash(c, file.salt) :
          LoadResult(m, [kind |-> "hash", hash |-> h], o) = "Success"

(* The steps of the environment (whoever can write the basedir).           *)
EnvironmentStep ==
    AttackerReplace \/ AttackerBackup \/ AttackerRestore \/ AttackerDelete

(* A call of Cli::initFilesystem that succeeds (loading or creating) can   *)
(* be repeated at once with the same credential and options and succeeds  *)
(* again, and so does a load with the password hash it returned: the       *)
(* refresh save, the local-state record and the basedir binding it leaves  *)
(* are what the next load checks against.                                  *)
ReloadSucceeds ==
    [][ \/ EnvironmentStep
        \/ \A m \in Machines, o \in Options :
             /\ file # None /\ file' = Refreshed(file)
                /\ basedirFs'[m] = file.fsId
                => \A c \in CredentialsOn(m) :
                      LoadResult(m, c, o) = "Success" /\ LoadExisting(m, c, o)
                      => SucceedsAgain(m, c, o)'
             /\ file = None /\ mounts'[m] # mounts[m]
                => \A pw \in Passwords :
                      CreateWithPassword(m, pw, o)
                      => SucceedsAgain(m, [kind |-> "password", pw |-> pw], o)'
    ]_vars

(* A program step never lowers the format version of the descriptor: an   *)
(* older program refuses a newer descriptor (_checkVersion) rather than    *)
(* saving it back with its own, older, format version.  Only the          *)
(* environment (a rollback, a replacement) can lower it.                   *)
VersionNeverLowered ==
    [][ \/ file = None \/ file' = None
        \/ file.version <= file'.version
        \/ EnvironmentStep ]_vars

(* Spec sections 4.5 and 5: the cipher, local-state and integrity gates    *)
(* run before the refresh save, so a load refused by one of them leaves   *)
(* the descriptor file as it was.                                          *)
FailedLoadLeavesDescriptor ==
    [][ \A m \in Machines : \A c \in CredentialsOn(m), o \in Options :
          LoadExisting(m, c, o)
          /\ LoadResult(m, c, o) \in {"WrongCipher", "EncryptionKeyChanged",
                                      "FilesystemHasDifferentIntegritySetup",
                                      "SingleClientFileSystem"}
          => file' = file ]_vars

(* Spec section 7: every failure of a key change is reported to the caller *)
(* as a typed error; cryfs_change_encryption_key never ends the process.   *)
ChangeKeyReportsFailure ==
    [][ \A m \in Machines : \A c \in CredentialsOn(m) :
          ChangeKeyRejected(m, c) => ChangeKeyFailure(m, c) # "Terminated" ]_vars

(* Single-client mode (CryConfigLoader::_checkMissingBlocksAreIntegrity-   *)
(* Violations, spec scenario 4): a filesystem whose descriptor pins an     *)
(* exclusive client id is mounted by one machine only; every other        *)
(* machine, with or without a local-state record for it, gets             *)
(* SingleClientFileSystem, whatever the environment copies or restores.   *)
SingleClientExclusive ==
    \A x, y \in exclusiveMounts : x[2] = y[2] => x[1] = y[1]

=============================================================================
