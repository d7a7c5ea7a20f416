------------------------- MODULE ConfigReloadProofs -------------------------
(***************************************************************************)
(* Proof of ReloadSucceeds for every value of the constants: a successful  *)
(* Cli::initFilesystem leaves a basedir, a local state and a basedir      *)
(* binding that the same call, and a load with the password hash it       *)
(* returned, get through again.  The argument runs through GatesPass, the  *)
(* conjunction of every gate of _loadConfig and of _checkConfigIntegrity: *)
(* success implies it now, and it implies success after the step.  A       *)
(* create meets no stale record only because its id is fresh, so the      *)
(* proof rests on the invariant KInv of ConfigKeyProofs.                  *)
(***************************************************************************)
EXTENDS ConfigKeyProofs

(* Every gate a load of the present descriptor passes through.             *)
GatesPass(m, c, o) ==
    /\ Decrypts(c, file)
    /\ VersionError(FixedVersion(file.version), o.allowUpgrade) = None
    /\ ~CipherMismatch(o, file)
    /\ ~KeyReplaced(m, file, o.allowReplaced)
    /\ IntegrityError(o, file.excl, MyClientId(m, file.fsId)) = None
    /\ ~BasedirIdChanged(m, file.fsId, o.allowReplaced)

(* Cli::initFilesystem reports success only when every gate passed.        *)
LEMMA SuccessGates ==
    ASSUME ConstantsAssumption, NEW m, NEW c, NEW o, LoadResult(m, c, o) = "Success"
    PROVE  GatesPass(m, c, o)
<1>1. LocalStatePassed(m, c, o)
  BY SuccessPassedLocalState
<1>2. LoaderError(m, c, o) = None
  BY LoaderErrorRange DEF LoadResult, LoaderErrors
<1>3. IntegrityPassed(m, c, o)
  BY <1>1, <1>2 DEF LoaderError, IntegrityPassed
<1>4. ~BasedirIdChanged(m, file.fsId, o.allowReplaced)
  BY <1>2 DEF LoadResult
<1>5. QED
  BY <1>3, <1>4 DEF GatesPass, IntegrityPassed, LocalStatePassed, CipherPassed,
                    VersionPassed, Decrypted

(* After a step in which every gate passes, the load succeeds.             *)
LEMMA GatesSuccess ==
    ASSUME NEW m, NEW c, NEW o, GatesPass(m, c, o)'
    PROVE  LoadResult(m, c, o)' = "Success"
<1>1. LoaderError(m, c, o)' = None
  BY DEF LoaderError, GatesPass, Decrypted, VersionPassed, CipherPassed,
         LocalStatePassed, IntegrityPassed
<1>2. QED
  BY <1>1 DEF LoadResult, GatesPass

(* The hash a password-based provider hands back (the returnedHash sink)  *)
(* opens whatever the password opens: CryDirectKeyProvider returns it as  *)
(* the outer key, and only the decryption gate looks at the credential.   *)
LEMMA HashGates ==
    ASSUME NEW m, NEW c, NEW o, GatesPass(m, c, o)',
           NEW h \in ReturnedHash(c, file'.salt)
    PROVE  GatesPass(m, [kind |-> "hash", hash |-> h], o)'
BY DEF GatesPass, Decrypts, CredentialKey, ReturnedHash, OuterKey

(* The format version the refresh save and the creator write passes       *)
(* _checkVersion whatever the upgrade option.                              *)
LEMMA FormatVersionPasses ==
    ASSUME ConstantsAssumption, LegacyOrderAssumption, NEW a
    PROVE  VersionError(FixedVersion(FilesystemFormatVersion), a) = None
BY DEF FixedVersion, VersionError, Versions

(* Every gate passing after the step is what SucceedsAgain asks.          *)
LEMMA SucceedsAgainFromGates ==
    ASSUME NEW m, NEW c, NEW o, GatesPass(m, c, o)'
    PROVE  SucceedsAgain(m, c, o)'
<1>1. LoadResult(m, c, o)' = "Success"
  BY GatesSuccess
<1>2. ASSUME NEW h \in ReturnedHash(c, file'.salt)
      PROVE  LoadResult(m, [kind |-> "hash", hash |-> h], o)' = "Success"
  <2>1. GatesPass(m, [kind |-> "hash", hash |-> h], o)'
    BY <1>2, HashGates
  <2>2. QED
    BY <2>1, GatesSuccess
<1>3. QED
  BY <1>1, <1>2 DEF SucceedsAgain


(* A successful load (Cli::initFilesystem on an existing descriptor)       *)
(* leaves every gate passing: the refresh save keeps the envelope, the     *)
(* cipher and the integrity mode and writes a version _checkVersion        *)
(* accepts, loadOrGenerate has stored this key's fingerprint under the    *)
(* same client id, and _checkConfigIntegrity has bound the basedir.       *)
LEMMA LoadLeavesGates ==
    ASSUME TypeOK, ConstantsAssumption, LegacyOrderAssumption,
           NEW m \in Machines, NEW c \in CredentialsOn(m), NEW o \in Options,
           LoadResult(m, c, o) = "Success", LoadExisting(m, c, o)
    PROVE  GatesPass(m, c, o)'
<1>1. GatesPass(m, c, o)
  BY SuccessGates
<1>2. file \in Descriptor
  BY DEF LoadExisting, TypeOK
<1> PICK f \in FsIds : f = file.fsId
  BY <1>2 DEF Descriptor
<1>3. /\ file' = Refreshed(file)
      /\ localState' = LocalStateAfter(m, f, file.key)
      /\ CanAllocate(m, f)
      /\ basedirFs' = [basedirFs EXCEPT ![m] = f]
  BY <1>1 DEF LoadExisting, GatesPass, LocalStatePassed, CipherPassed, VersionPassed,
              Decrypted
<1>4. /\ file'.fsId = f /\ file'.key = file.key /\ file'.cipher = file.cipher
      /\ file'.excl = file.excl /\ file'.pw = file.pw /\ file'.salt = file.salt
      /\ file'.version = FilesystemFormatVersion
  BY <1>2, <1>3 DEF Refreshed, Descriptor
<1>5. /\ localState'[m][f] # None
      /\ localState'[m][f].fp = Fingerprint(file.key)
      /\ localState'[m][f].clientId = MyClientId(m, f)
  <2>1. file.key \in Keys
    BY <1>2 DEF Descriptor
  <2>2. QED
    BY <1>3, <2>1, LocalStateAfterFields DEF LocalStateAfter, TypeOK
<1>6. Decrypts(c, file)'
  BY <1>1, <1>4 DEF GatesPass, Decrypts, CredentialKey, OuterKey
<1>7. (VersionError(FixedVersion(file.version), o.allowUpgrade) = None)'
  BY <1>4, FormatVersionPasses
<1>8. (~CipherMismatch(o, file))'
  BY <1>1, <1>4 DEF GatesPass, CipherMismatch
<1>9. ~KeyReplaced(m, file, o.allowReplaced)'
  BY <1>4, <1>5 DEF KeyReplaced
<1>10. (IntegrityError(o, file.excl, MyClientId(m, file.fsId)) = None)'
  <2>1. MyClientId(m, f)' = MyClientId(m, f)
    BY <1>4, <1>5 DEF MyClientId
  <2>2. QED
    BY <1>1, <1>4, <2>1 DEF GatesPass, MyClientId
<1>11. (~BasedirIdChanged(m, file.fsId, o.allowReplaced))'
  BY <1>3, <1>4 DEF BasedirIdChanged, TypeOK
<1>12. QED
  BY <1>6, <1>7, <1>8, <1>9, <1>10, <1>11 DEF GatesPass

(* A create with a password (Cli::initFilesystem with no descriptor) that *)
(* changed what m has mounted succeeded, and leaves every gate passing   *)
(* for the same password: the new envelope is the password's, the cipher  *)
(* is the option's or the default, the creator's record holds the new     *)
(* key under the client id a single-client descriptor names, and the      *)
(* basedir is bound to the new id.  The record is new because the id was *)
(* never drawn (LocalGenerated).                                          *)
LEMMA CreateLeavesGates ==
    ASSUME KInv, ConstantsAssumption, LegacyOrderAssumption,
           NEW m \in Machines, NEW pw \in Passwords, NEW o \in Options,
           CreateWithPassword(m, pw, o), mounts'[m] # mounts[m]
    PROVE  GatesPass(m, [kind |-> "password", pw |-> pw], o)'
<1>1. PICK f \in FsIds \ generated, k \in Keys \ generated, s \in Salts \ generated :
        LET d == CreatedDescriptor(m, f, k, s, pw, o)
            success == ~BasedirIdChanged(m, f, o.allowReplaced)
        IN
        /\ file' = d
        /\ localState' = LocalStateAfter(m, f, k)
        /\ basedirFs' = IF success THEN [basedirFs EXCEPT ![m] = f] ELSE basedirFs
        /\ mounts' = Mounted(m, d, o, success)
  BY DEF CreateWithPassword
<1>2. PICK d \in Descriptor, sc \in BOOLEAN :
        /\ d = CreatedDescriptor(m, f, k, s, pw, o)
        /\ sc = ~BasedirIdChanged(m, f, o.allowReplaced)
  BY CreatedDescriptorType DEF CreateWithPassword, KInv
<1>3. /\ file' = d /\ localState' = LocalStateAfter(m, f, k)
      /\ basedirFs' = IF sc THEN [basedirFs EXCEPT ![m] = f] ELSE basedirFs
      /\ mounts' = Mounted(m, d, o, sc)
  BY <1>1, <1>2
<1>4. sc
  <2>1. SUFFICES ASSUME ~sc PROVE FALSE
    OBVIOUS
  <2>2. ~o.allowReplaced
    BY <1>2, <2>1 DEF BasedirIdChanged
  <2>3. mounts'[m] = mounts[m]
    BY <1>3, <2>1, <2>2 DEF Mounted, KInv, TypeOK
  <2>4. QED
    BY <2>3
<1>5. basedirFs'[m] = f
  BY <1>3, <1>4 DEF KInv, TypeOK
<1>6. /\ localState[m][f] = None
      /\ <<m, nextClientId[m]>> \in ClientIds
  <2>1. localState[m][f] = None
    BY DEF KInv, LocalGenerated
  <2>2. nextClientId[m] \in 1 .. MaxClientId
    BY DEF KInv, TypeOK, CreateWithPassword
  <2>3. QED
    BY <2>1, <2>2 DEF ClientIds
<1>7. /\ localState'[m][f] = [clientId |-> <<m, nextClientId[m]>>, fp |-> Fingerprint(k)]
      /\ localState'[m][f] # None
  <2>1. CanAllocate(m, f)
    BY DEF CreateWithPassword, CanAllocate
  <2>2. QED
    BY <1>3, <1>6, <2>1, LocalStateAfterFields DEF LocalStateAfter, MyClientId, KInv,
       TypeOK
<1>8. /\ d.fsId = f /\ d.key = k /\ d.pw = pw /\ d.salt = s
      /\ d.version = FilesystemFormatVersion
      /\ d.cipher = IF o.cipher = None THEN DefaultCipher ELSE o.cipher
      /\ d.excl = IF o.missingBlock = TRUE THEN <<m, nextClientId[m]>> ELSE None
  BY <1>2 DEF CreatedDescriptor
<1> DEFINE c == [kind |-> "password", pw |-> pw]
<1>9. Decrypts(c, file)'
  BY <1>3, <1>8 DEF Decrypts, CredentialKey, OuterKey
<1>10. (VersionError(FixedVersion(file.version), o.allowUpgrade) = None)'
  BY <1>3, <1>8, FormatVersionPasses
<1>11. (~CipherMismatch(o, file))'
  BY <1>3, <1>8 DEF CipherMismatch
<1>12. (~KeyReplaced(m, file, o.allowReplaced))'
  BY <1>3, <1>7, <1>8 DEF KeyReplaced
<1>13. (IntegrityError(o, file.excl, MyClientId(m, file.fsId)) = None)'
  <2>1. MyClientId(m, f)' = <<m, nextClientId[m]>>
    BY <1>7 DEF MyClientId
  <2>2. o.missingBlock \in {None, TRUE, FALSE} /\ <<m, nextClientId[m]>> # None
    BY <1>6, ConstantsAssumption DEF Options
  <2>3. QED
    BY <1>3, <1>8, <2>1, <2>2 DEF IntegrityError, MyClientId
<1>14. (~BasedirIdChanged(m, file.fsId, o.allowReplaced))'
  BY <1>3, <1>5, <1>8 DEF BasedirIdChanged
<1>15. QED
  BY <1>9, <1>10, <1>11, <1>12, <1>13, <1>14 DEF GatesPass

-----------------------------------------------------------------------------
(* The step formula of ReloadSucceeds.                                     *)
ReloadStep ==
    \/ EnvironmentStep
    \/ \A m \in Machines, o \in Options :
         /\ file # None /\ file' = Refreshed(file)
            /\ basedirFs'[m] = file.fsId
            => \A c \in CredentialsOn(m) :
                  LoadResult(m, c, o) = "Success" /\ LoadExisting(m, c, o)
                  => SucceedsAgain(m, c, o)'
         /\ file = None /\ mounts'[m] # mounts[m]
            => \A pw \in Passwords :
                  CreateWithPassword(m, pw, o)
                  => SucceedsAgain(m, [kind |-> "password", pw |-> pw], o)'

(* From a state of KInv, whatever step is taken, the program's part of    *)
(* ReloadSucceeds holds: the step itself is named in its antecedents.      *)
LEMMA ReloadStepHolds ==
    ASSUME KInv
    PROVE  ReloadStep
<1> USE ConstantsAssumption, LegacyOrderAssumption
<1>1. ASSUME NEW m \in Machines, NEW o \in Options, NEW c \in CredentialsOn(m),
             LoadResult(m, c, o) = "Success", LoadExisting(m, c, o)
      PROVE  SucceedsAgain(m, c, o)'
  BY <1>1, LoadLeavesGates, SucceedsAgainFromGates DEF KInv
<1>2. ASSUME NEW m \in Machines, NEW o \in Options, NEW pw \in Passwords,
             file = None, mounts'[m] # mounts[m], CreateWithPassword(m, pw, o)
      PROVE  SucceedsAgain(m, [kind |-> "password", pw |-> pw], o)'
  BY <1>2, CreateLeavesGates, SucceedsAgainFromGates
<1>3. QED
  BY <1>1, <1>2 DEF ReloadStep

(* Repeatability of Cli::initFilesystem, for every value of the constants: *)
(* a load that succeeded, or a create with a password that mounted, can be *)
(* repeated at once with the same credential and options, or with the     *)
(* password hash it handed back, and succeeds again.  Unlike the checks    *)
(* of the runs, this covers every number of machines and client ids.      *)
THEOREM ReloadAlwaysSucceeds == Spec => ReloadSucceeds
<1>1. KInv /\ [Next]_vars => [ReloadStep]_vars
  BY ReloadStepHolds
<1>2. QED
  BY <1>1, InitKInv, NextKInv, PTL DEF Spec, ReloadSucceeds, ReloadStep

=============================================================================
