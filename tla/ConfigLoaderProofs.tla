------------------------- MODULE ConfigLoaderProofs -------------------------
(***************************************************************************)
(* Proofs about ConfigLoader for every value of the constants: the type    *)
(* invariant, and the basedir binding (MountsOneFilesystem) through an     *)
(* inductive strengthening.                                                *)
(***************************************************************************)
EXTENDS ConfigLoader, TLAPS

-----------------------------------------------------------------------------
(* Lemmas about the operators the actions are built from.                  *)

(* The refresh save keeps a descriptor well formed.                        *)
LEMMA RefreshedType ==
    ASSUME ConstantsAssumption, NEW d \in Descriptor
    PROVE  Refreshed(d) \in Descriptor
BY DEF ConstantsAssumption, Refreshed, Descriptor, Builds, Versions

(* LocalStateMetadata::loadOrGenerate writes a well-formed record when it  *)
(* may allocate a client id.                                               *)
LEMMA LocalStateAfterType ==
    ASSUME TypeOK, NEW m \in Machines, NEW f \in FsIds, NEW k \in Keys,
           CanAllocate(m, f)
    PROVE  /\ LocalStateAfter(m, f, k)
                 \in [Machines -> [FsIds -> LocalRecord \cup {None}]]
           /\ NextClientIdAfter(m, f) \in [Machines -> 1 .. MaxClientId + 1]
<1>1. MyClientId(m, f) \in ClientIds
  BY DEF TypeOK, CanAllocate, MyClientId, ClientIds, LocalRecord
<1>2. [clientId |-> MyClientId(m, f), fp |-> Fingerprint(k)] \in LocalRecord
  BY <1>1 DEF LocalRecord
<1>3. LocalStateAfter(m, f, k)
        \in [Machines -> [FsIds -> LocalRecord \cup {None}]]
  BY <1>2 DEF TypeOK, LocalStateAfter
<1>4. NextClientIdAfter(m, f) \in [Machines -> 1 .. MaxClientId + 1]
  BY ConstantsAssumption DEF TypeOK, NextClientIdAfter, CanAllocate
<1>5. QED
  BY <1>3, <1>4

(* The ghost of what a machine mounted stays a set of [fsId, key] pairs.   *)
LEMMA MountedType ==
    ASSUME TypeOK, NEW m \in Machines, NEW d \in Descriptor, NEW o \in Options,
           NEW success \in BOOLEAN
    PROVE  Mounted(m, d, o, success)
               \in [Machines -> SUBSET [fsId: FsIds, key: Keys]]
BY DEF TypeOK, Mounted, Descriptor

(* ... and so does the set of single-client mounts.                        *)
LEMMA ExclusiveAfterType ==
    ASSUME TypeOK, NEW m \in Machines, NEW d \in Descriptor
    PROVE  ExclusiveAfter(m, d) \subseteq Machines \X FsIds
BY DEF TypeOK, ExclusiveAfter, Descriptor

(* A credential of a caller derives a key of the right shape.              *)
LEMMA ReturnedHashType ==
    ASSUME TypeOK, NEW m \in Machines, NEW c \in CredentialsOn(m),
           NEW s \in Salts
    PROVE  ReturnedHash(c, s) \subseteq DerivedKey
BY DEF TypeOK, CredentialsOn, ReturnedHash, CredentialKey, DerivedKey

-----------------------------------------------------------------------------
(* Type correctness, one step per operation.                               *)

(* Cli::initFilesystem on an existing descriptor keeps the types.         *)
LEMMA LoadExistingType ==
    ASSUME TypeOK, NEW m \in Machines, NEW c \in CredentialsOn(m),
           NEW o \in Options, LoadExisting(m, c, o)
    PROVE  TypeOK'
<1> DEFINE f == file.fsId
           success == LoadResult(m, c, o) = "Success"
<1>1. file \in Descriptor
  BY DEF LoadExisting, TypeOK
<1>2. file' \in Descriptor \cup {None}
  BY <1>1, RefreshedType, ConstantsAssumption DEF LoadExisting
<1>3. /\ localState' \in [Machines -> [FsIds -> LocalRecord \cup {None}]]
      /\ nextClientId' \in [Machines -> 1 .. MaxClientId + 1]
  <2>1. CASE LocalStatePassed(m, c, o)
    <3>1. CanAllocate(m, f)
      BY <2>1 DEF LoadExisting, LocalStatePassed
    <3>2. f \in FsIds /\ file.key \in Keys
      BY <1>1 DEF Descriptor
    <3>3. QED
      BY <2>1, <3>1, <3>2, LocalStateAfterType DEF LoadExisting
  <2>2. CASE ~LocalStatePassed(m, c, o)
    BY <2>2 DEF LoadExisting, TypeOK
  <2>3. QED
    BY <2>1, <2>2
<1>4. basedirFs' \in [Machines -> FsIds \cup {None}]
  BY <1>1 DEF LoadExisting, TypeOK, Descriptor
<1>5. returnedHashes' \in [Machines -> SUBSET DerivedKey]
  <2>1. ReturnedHash(c, file.salt) \subseteq DerivedKey
    BY <1>1, ReturnedHashType DEF Descriptor
  <2>2. QED
    BY <2>1 DEF LoadExisting, TypeOK
<1>6. mounts' \in [Machines -> SUBSET [fsId: FsIds, key: Keys]]
  BY <1>1, MountedType DEF LoadExisting
<1>7. exclusiveMounts' \subseteq Machines \X FsIds
  BY <1>1, ExclusiveAfterType DEF LoadExisting, TypeOK
<1>8. /\ generated' \subseteq FsIds \cup Keys \cup Salts
      /\ backup' \in Descriptor \cup {None}
  BY DEF LoadExisting, TypeOK
<1>9. QED
  BY <1>2, <1>3, <1>4, <1>5, <1>6, <1>7, <1>8 DEF TypeOK

(* CryConfigCreator::create produces a well-formed descriptor when a       *)
(* client id can still be allocated.                                       *)
LEMMA CreatedDescriptorType ==
    ASSUME TypeOK, NEW m \in Machines, NEW f \in FsIds, NEW k \in Keys,
           NEW s \in Salts, NEW pw \in Passwords, NEW o \in Options,
           nextClientId[m] <= MaxClientId
    PROVE  CreatedDescriptor(m, f, k, s, pw, o) \in Descriptor
<1>1. (IF o.cipher = None THEN DefaultCipher ELSE o.cipher) \in Ciphers
  BY ConstantsAssumption DEF Options
<1>2. (IF o.missingBlock = TRUE THEN <<m, nextClientId[m]>> ELSE None)
        \in ClientIds \cup {None}
  <2>1. nextClientId[m] \in 1 .. MaxClientId
    BY ConstantsAssumption DEF TypeOK
  <2>2. QED
    BY <2>1 DEF ClientIds
<1>3. FilesystemFormatVersion \in Versions /\ ThisBuild \in Builds
  BY ConstantsAssumption DEF Builds
<1>4. QED
  BY <1>1, <1>2, <1>3 DEF CreatedDescriptor, Descriptor

(* Creating a filesystem with a password keeps the types.                  *)
LEMMA CreateWithPasswordType ==
    ASSUME TypeOK, NEW m \in Machines, NEW pw \in Passwords,
           NEW o \in Options, CreateWithPassword(m, pw, o)
    PROVE  TypeOK'
<1>1. PICK f \in FsIds \ generated, k \in Keys \ generated, s \in Salts \ generated :
        LET d == CreatedDescriptor(m, f, k, s, pw, o)
            success == ~BasedirIdChanged(m, f, o.allowReplaced)
        IN
        /\ file' = d
        /\ localState' = LocalStateAfter(m, f, k)
        /\ nextClientId' = NextClientIdAfter(m, f)
        /\ generated' = generated \cup {f, k, s}
        /\ returnedHashes' = [returnedHashes EXCEPT ![m] = @ \cup {OuterKey(d)}]
        /\ basedirFs' = IF success THEN [basedirFs EXCEPT ![m] = f] ELSE basedirFs
        /\ mounts' = Mounted(m, d, o, success)
        /\ exclusiveMounts' = IF success THEN ExclusiveAfter(m, d)
                              ELSE exclusiveMounts
  BY DEF CreateWithPassword
<1> DEFINE d == CreatedDescriptor(m, f, k, s, pw, o)
<1>2. d \in Descriptor
  BY CreatedDescriptorType DEF CreateWithPassword
<1>3. CanAllocate(m, f)
  BY DEF CreateWithPassword, CanAllocate
<1>4. /\ localState' \in [Machines -> [FsIds -> LocalRecord \cup {None}]]
      /\ nextClientId' \in [Machines -> 1 .. MaxClientId + 1]
  BY <1>1, <1>3, LocalStateAfterType
<1>5. returnedHashes' \in [Machines -> SUBSET DerivedKey]
  <2>1. OuterKey(d) \in DerivedKey
    BY <1>2 DEF OuterKey, Descriptor, DerivedKey
  <2>2. QED
    BY <1>1, <2>1 DEF TypeOK
<1>6. mounts' \in [Machines -> SUBSET [fsId: FsIds, key: Keys]]
  BY <1>1, <1>2, MountedType
<1>7. exclusiveMounts' \subseteq Machines \X FsIds
  BY <1>1, <1>2, ExclusiveAfterType DEF TypeOK
<1>8. /\ file' \in Descriptor \cup {None}
      /\ basedirFs' \in [Machines -> FsIds \cup {None}]
      /\ generated' \subseteq FsIds \cup Keys \cup Salts
      /\ backup' \in Descriptor \cup {None}
  BY <1>1, <1>2 DEF CreateWithPassword, TypeOK
<1>9. QED
  BY <1>4, <1>5, <1>6, <1>7, <1>8 DEF TypeOK

(* The aborted create with a password hash keeps the types.                *)
LEMMA CreateWithDirectKeyType ==
    ASSUME TypeOK, NEW m \in Machines, CreateWithDirectKey(m)
    PROVE  TypeOK'
<1>1. PICK f \in FsIds \ generated, k \in Keys \ generated :
        /\ localState' = LocalStateAfter(m, f, k)
        /\ nextClientId' = NextClientIdAfter(m, f)
        /\ generated' = generated \cup {f, k}
  BY DEF CreateWithDirectKey
<1>2. CanAllocate(m, f)
  BY DEF CreateWithDirectKey, CanAllocate
<1>3. QED
  BY <1>1, <1>2, LocalStateAfterType DEF CreateWithDirectKey, TypeOK

(* A rejected cryfs_change_encryption_key keeps the types.                 *)
LEMMA ChangeKeyRejectedType ==
    ASSUME TypeOK, NEW m \in Machines, NEW c \in CredentialsOn(m),
           ChangeKeyRejected(m, c)
    PROVE  TypeOK'
<1> DEFINE o == ChangeKeyOptions
<1>1. CASE file = None
  BY <1>1 DEF ChangeKeyRejected, TypeOK
<1>2. CASE file # None
  <2>1. file \in Descriptor
    BY <1>2 DEF TypeOK
  <2>2. file' \in Descriptor \cup {None}
    BY <1>2, <2>1, RefreshedType, ConstantsAssumption DEF ChangeKeyRejected
  <2>3. /\ localState' \in [Machines -> [FsIds -> LocalRecord \cup {None}]]
        /\ nextClientId' \in [Machines -> 1 .. MaxClientId + 1]
    <3>1. CASE LocalStatePassed(m, c, o)
      <4>1. CanAllocate(m, file.fsId)
        BY <1>2, <3>1 DEF ChangeKeyRejected, LocalStatePassed
      <4>2. file.fsId \in FsIds /\ file.key \in Keys
        BY <2>1 DEF Descriptor
      <4>3. /\ LocalStateAfter(m, file.fsId, file.key)
                 \in [Machines -> [FsIds -> LocalRecord \cup {None}]]
            /\ NextClientIdAfter(m, file.fsId) \in [Machines -> 1 .. MaxClientId + 1]
        BY <4>1, <4>2, LocalStateAfterType
      <4>4. QED
        BY <1>2, <3>1, <4>3 DEF ChangeKeyRejected
    <3>2. CASE ~LocalStatePassed(m, c, o)
      BY <1>2, <3>2 DEF ChangeKeyRejected, TypeOK
    <3>3. QED
      BY <3>1, <3>2
  <2>4. QED
    BY <2>2, <2>3 DEF ChangeKeyRejected, TypeOK
<1>3. QED
  BY <1>1, <1>2

(* A successful cryfs_change_encryption_key keeps the types.               *)
LEMMA ChangeKeySucceedsType ==
    ASSUME TypeOK, NEW m \in Machines, NEW c \in CredentialsOn(m),
           NEW newPw \in Passwords, ChangeKeySucceeds(m, c, newPw)
    PROVE  TypeOK'
<1>1. file \in Descriptor
  BY DEF ChangeKeySucceeds, TypeOK
<1>2. PICK s \in Salts \ generated :
        LET d == [Refreshed(file) EXCEPT !.pw = newPw, !.salt = s] IN
        /\ file' = d
        /\ generated' = generated \cup {s}
        /\ returnedHashes' = [returnedHashes EXCEPT ![m] = @ \cup {OuterKey(d)}]
  BY DEF ChangeKeySucceeds
<1> DEFINE d == [Refreshed(file) EXCEPT !.pw = newPw, !.salt = s]
<1>3. d \in Descriptor
  <2>1. Refreshed(file) \in Descriptor
    BY <1>1, RefreshedType, ConstantsAssumption
  <2>2. QED
    BY <2>1 DEF Descriptor
<1>4. returnedHashes' \in [Machines -> SUBSET DerivedKey]
  BY <1>2, <1>3 DEF TypeOK, OuterKey, Descriptor, DerivedKey
<1>5. /\ localState' \in [Machines -> [FsIds -> LocalRecord \cup {None}]]
      /\ nextClientId' \in [Machines -> 1 .. MaxClientId + 1]
  BY <1>1, LocalStateAfterType DEF ChangeKeySucceeds, Descriptor
<1>6. QED
  BY <1>2, <1>3, <1>4, <1>5 DEF ChangeKeySucceeds, TypeOK

(* Whatever the environment writes into the basedir keeps the types.       *)
LEMMA EnvironmentType ==
    ASSUME TypeOK, EnvironmentStep
    PROVE  TypeOK'
<1>1. CASE AttackerReplace
  <2>1. PICK f \in FsIds, k \in Keys \ generated, p \in Passwords,
             s \in Salts \ generated :
          /\ file' = [fsId |-> f, key |-> k, cipher |-> DefaultCipher,
                      version |-> FilesystemFormatVersion, lastOpened |-> OtherBuild,
                      excl |-> None, pw |-> p, salt |-> s]
          /\ generated' = generated \cup {f, k, s}
          /\ UNCHANGED <<localState, nextClientId, basedirFs, returnedHashes,
                         backup, mounts, exclusiveMounts>>
    BY <1>1 DEF AttackerReplace
  <2>2. file' \in Descriptor
    BY <2>1, ConstantsAssumption DEF Descriptor, Builds
  <2>3. QED
    BY <2>1, <2>2 DEF TypeOK
<1>2. CASE AttackerBackup \/ AttackerRestore \/ AttackerDelete
  BY <1>2 DEF AttackerBackup, AttackerRestore, AttackerDelete, TypeOK
<1>3. QED
  BY <1>1, <1>2 DEF EnvironmentStep

(* The states the basedir and the machines start in are well typed.       *)
LEMMA InitTypeOK == Init => TypeOK
<1> SUFFICES ASSUME Init PROVE TypeOK
  OBVIOUS
<1>1. file \in Descriptor \cup {None} /\ backup \in Descriptor \cup {None}
  BY InitFilesAssumption DEF Init
<1>2. generated \subseteq FsIds \cup Keys \cup Salts
  BY <1>1 DEF Init, Descriptor
<1>3. nextClientId \in [Machines -> 1 .. MaxClientId + 1]
  <2>1. nextClientId = [m \in Machines |-> 1]
    BY DEF Init
  <2>2. 1 \in 1 .. MaxClientId + 1
    BY ConstantsAssumption
  <2>3. QED
    BY <2>1, <2>2
<1>4. /\ localState \in [Machines -> [FsIds -> LocalRecord \cup {None}]]
      /\ basedirFs \in [Machines -> FsIds \cup {None}]
      /\ returnedHashes \in [Machines -> SUBSET DerivedKey]
      /\ mounts \in [Machines -> SUBSET [fsId: FsIds, key: Keys]]
      /\ exclusiveMounts \subseteq Machines \X FsIds
  BY DEF Init
<1>5. QED
  BY <1>1, <1>2, <1>3, <1>4 DEF TypeOK

(* Every operation and every step of the environment keeps the types.     *)
LEMMA NextTypeOK == TypeOK /\ [Next]_vars => TypeOK'
<1> SUFFICES ASSUME TypeOK, [Next]_vars PROVE TypeOK'
  OBVIOUS
<1>1. ASSUME NEW m \in Machines, NEW c \in CredentialsOn(m), NEW o \in Options,
             LoadExisting(m, c, o)
      PROVE  TypeOK'
  BY <1>1, LoadExistingType
<1>2. ASSUME NEW m \in Machines, NEW pw \in Passwords, NEW o \in Options,
             CreateWithPassword(m, pw, o)
      PROVE  TypeOK'
  BY <1>2, CreateWithPasswordType
<1>3. ASSUME NEW m \in Machines, CreateWithDirectKey(m)
      PROVE  TypeOK'
  BY <1>3, CreateWithDirectKeyType
<1>4. ASSUME NEW m \in Machines, NEW c \in CredentialsOn(m),
             ChangeKeyRejected(m, c)
      PROVE  TypeOK'
  BY <1>4, ChangeKeyRejectedType
<1>5. ASSUME NEW m \in Machines, NEW c \in CredentialsOn(m),
             NEW pw \in Passwords, ChangeKeySucceeds(m, c, pw)
      PROVE  TypeOK'
  BY <1>5, ChangeKeySucceedsType
<1>6. CASE EnvironmentStep
  BY <1>6, EnvironmentType
<1>7. CASE UNCHANGED vars
  BY <1>7 DEF vars, TypeOK
<1>8. QED
  BY <1>1, <1>2, <1>3, <1>4, <1>5, <1>6, <1>7 DEF Next, EnvironmentStep

(* Every state a behaviour of ConfigLoader reaches is well typed.  This is *)
(* what lets the other proofs treat the descriptor, the local-state        *)
(* records and the ghost mounts as records of the expected shape.          *)
THEOREM TypeCorrect == Spec => []TypeOK
BY InitTypeOK, NextTypeOK, PTL DEF Spec

-----------------------------------------------------------------------------
(* The basedir binding.                                                    *)

(* Every filesystem a machine has mounted since its last consent to a      *)
(* replacement carries the filesystem id the machine's basedir record      *)
(* holds.  MountsOneFilesystem is not inductive by itself: a step that     *)
(* binds the basedir to a new id is safe only because the mounts recorded  *)
(* so far all carry the old one.                                           *)
BasedirBinding ==
    \A m \in Machines : \A x \in mounts[m] : x.fsId = basedirFs[m]

IInv == TypeOK /\ BasedirBinding

(* The errors _loadConfig can end in.                                      *)
LoaderErrors ==
    {"WrongPassword", "TooOldFilesystemFormat", "TooNewFilesystemFormat",
     "WrongCipher", "EncryptionKeyChanged",
     "FilesystemHasDifferentIntegritySetup", "SingleClientFileSystem"}

(* _loadConfig ends in one of its typed errors, or succeeds.               *)
LEMMA LoaderErrorRange ==
    ASSUME NEW m, NEW c, NEW o
    PROVE  LoaderError(m, c, o) \in LoaderErrors \cup {None}
<1>1. \A v, a : VersionError(v, a) \in LoaderErrors \cup {None}
  BY DEF VersionError, LoaderErrors
<1>2. \A e, x, i : IntegrityError(o, e, i) \in LoaderErrors \cup {None}
  BY DEF IntegrityError, LoaderErrors
<1>3. QED
  BY <1>1, <1>2 DEF LoaderError, LoaderErrors

(* Cli::initFilesystem reports success only when the basedir check of     *)
(* _checkConfigIntegrity has passed.                                       *)
LEMMA SuccessPassedBasedirCheck ==
    ASSUME NEW m, NEW c, NEW o, LoadResult(m, c, o) = "Success"
    PROVE  ~BasedirIdChanged(m, file.fsId, o.allowReplaced)
<1>1. LoaderError(m, c, o) \in LoaderErrors \cup {None}
  BY LoaderErrorRange
<1>2. "Success" \notin LoaderErrors
  BY DEF LoaderErrors
<1>3. QED
  BY <1>1, <1>2 DEF LoadResult

(* A step that binds the basedir of m to d's id on success and records the *)
(* mount in the ghost keeps the binding.                                   *)
LEMMA MountedKeepsBinding ==
    ASSUME TypeOK, BasedirBinding, ConstantsAssumption,
           NEW m \in Machines, NEW d \in Descriptor, NEW o \in Options,
           NEW success \in BOOLEAN,
           success => ~BasedirIdChanged(m, d.fsId, o.allowReplaced),
           basedirFs' = IF success THEN [basedirFs EXCEPT ![m] = d.fsId]
                        ELSE basedirFs,
           mounts' = Mounted(m, d, o, success)
    PROVE  BasedirBinding'
<1> SUFFICES ASSUME NEW n \in Machines, NEW x \in mounts'[n]
             PROVE  x.fsId = basedirFs'[n]
  BY DEF BasedirBinding
<1>1. CASE n # m
  BY <1>1 DEF Mounted, BasedirBinding, TypeOK
<1> DEFINE new == [fsId |-> d.fsId, key |-> d.key]
<1>2. CASE n = m /\ success
  <2>1. basedirFs'[m] = d.fsId
    BY <1>2 DEF TypeOK
  <2>2. mounts'[m] = (IF o.allowReplaced THEN {} ELSE mounts[m]) \cup {new}
    BY <1>2 DEF Mounted, TypeOK
  <2>3. CASE x = new
    BY <1>2, <2>1, <2>3
  <2>4. CASE x # new
    <3>1. ~o.allowReplaced /\ x \in mounts[m]
      BY <1>2, <2>2, <2>4
    <3>2. x.fsId = basedirFs[m]
      BY <3>1 DEF BasedirBinding
    <3>3. basedirFs[m] # None
      <4>1. x.fsId \in FsIds
        BY <3>1 DEF TypeOK
      <4>2. QED
        BY <3>2, <4>1, ConstantsAssumption
    <3>4. basedirFs[m] = d.fsId
      BY <1>2, <3>1, <3>3 DEF BasedirIdChanged
    <3>5. QED
      BY <1>2, <2>1, <3>2, <3>4
  <2>5. QED
    BY <2>3, <2>4
<1>3. CASE n = m /\ ~success
  <2>1. basedirFs' = basedirFs
    BY <1>3
  <2>2. mounts'[m] = (IF o.allowReplaced THEN {} ELSE mounts[m]) \cup {}
    BY <1>3 DEF Mounted, TypeOK
  <2>3. x \in mounts[m]
    BY <1>3, <2>2
  <2>4. QED
    BY <1>3, <2>1, <2>3 DEF BasedirBinding
<1>4. QED
  BY <1>1, <1>2, <1>3

(* Every step keeps the basedir binding of the ghost mounts.               *)
LEMMA BindingInductive ==
    ASSUME IInv, [Next]_vars
    PROVE  BasedirBinding'
<1> USE ConstantsAssumption
<1>1. ASSUME NEW m \in Machines, NEW c \in CredentialsOn(m), NEW o \in Options,
             LoadExisting(m, c, o)
      PROVE  BasedirBinding'
  <2> DEFINE success == LoadResult(m, c, o) = "Success"
  <2>1. file \in Descriptor
    BY <1>1 DEF LoadExisting, IInv, TypeOK
  <2>2. success => ~BasedirIdChanged(m, file.fsId, o.allowReplaced)
    BY SuccessPassedBasedirCheck
  <2>3. /\ basedirFs' = IF success THEN [basedirFs EXCEPT ![m] = file.fsId]
                       ELSE basedirFs
        /\ mounts' = Mounted(m, file, o, success)
    BY <1>1 DEF LoadExisting
  <2>4. QED
    BY <2>1, <2>2, <2>3, MountedKeepsBinding DEF IInv
<1>2. ASSUME NEW m \in Machines, NEW pw \in Passwords, NEW o \in Options,
             CreateWithPassword(m, pw, o)
      PROVE  BasedirBinding'
  <2>1. PICK f \in FsIds \ generated, k \in Keys \ generated, s \in Salts \ generated :
          LET d == CreatedDescriptor(m, f, k, s, pw, o)
              success == ~BasedirIdChanged(m, f, o.allowReplaced)
          IN  /\ basedirFs' = IF success THEN [basedirFs EXCEPT ![m] = f]
                              ELSE basedirFs
              /\ mounts' = Mounted(m, d, o, success)
    BY <1>2 DEF CreateWithPassword
  <2> DEFINE d == CreatedDescriptor(m, f, k, s, pw, o)
  <2>2. d \in Descriptor /\ d.fsId = f
    BY <1>2, CreatedDescriptorType DEF CreateWithPassword, IInv, CreatedDescriptor
  <2>3. QED
    BY <2>1, <2>2, MountedKeepsBinding DEF IInv
<1>3. CASE \/ \E m \in Machines : CreateWithDirectKey(m)
           \/ \E m \in Machines : \E c \in CredentialsOn(m) : ChangeKeyRejected(m, c)
           \/ \E m \in Machines : \E c \in CredentialsOn(m), pw \in Passwords :
                 ChangeKeySucceeds(m, c, pw)
           \/ EnvironmentStep
           \/ UNCHANGED vars
  BY <1>3 DEF CreateWithDirectKey, ChangeKeyRejected, ChangeKeySucceeds,
              EnvironmentStep, AttackerReplace, AttackerBackup, AttackerRestore,
              AttackerDelete, vars, IInv, BasedirBinding
<1>4. QED
  BY <1>1, <1>2, <1>3 DEF Next, EnvironmentStep

(* Anti-swap, basedir binding, for every number of machines, filesystem    *)
(* ids, keys and options: a machine that never consented to a replaced     *)
(* filesystem (allowReplacedFilesystem) mounts filesystems of one id only, *)
(* whatever the environment writes into the basedir in between.            *)
THEOREM OneFilesystemPerBasedir == Spec => []MountsOneFilesystem
<1>1. Init => IInv
  <2> SUFFICES ASSUME Init PROVE IInv
    OBVIOUS
  <2>1. TypeOK
    BY InitTypeOK
  <2>2. BasedirBinding
    BY DEF Init, BasedirBinding
  <2>3. QED
    BY <2>1, <2>2 DEF IInv
<1>2. IInv /\ [Next]_vars => IInv'
  <2> SUFFICES ASSUME IInv, [Next]_vars PROVE IInv'
    OBVIOUS
  <2>1. TypeOK'
    BY NextTypeOK DEF IInv
  <2>2. BasedirBinding'
    BY BindingInductive
  <2>3. QED
    BY <2>1, <2>2 DEF IInv
<1>3. IInv => MountsOneFilesystem
  BY DEF IInv, BasedirBinding, MountsOneFilesystem
<1>4. QED
  BY <1>1, <1>2, <1>3, PTL DEF Spec

=============================================================================
