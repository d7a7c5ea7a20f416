------------------------- MODULE ConfigActionProofs -------------------------
(***************************************************************************)
(* Proof of an action property of ConfigLoader for every value of the     *)
(* constants: no program step lowers the descriptor's format version.  It  *)
(* needs no invariant beyond the types: it follows from what one step of  *)
(* _loadConfig writes.                                                     *)
(***************************************************************************)
EXTENDS ConfigLoaderProofs

(* A descriptor the version gate let through has a format version no newer *)
(* than this program's: _checkVersion throws TooNewFilesystemFormat        *)
(* otherwise, and the legacy versions it normalises are older.             *)
LEMMA VersionPassedBound ==
    ASSUME NEW c, NEW o, file \in Descriptor, VersionPassed(c, o)
    PROVE  file.version <= FilesystemFormatVersion
<1> USE ConstantsAssumption, LegacyOrderAssumption
<1> DEFINE v == file.version
           w == FixedVersion(v)
<1>1. v \in Versions /\ w \in Versions
  BY DEF Descriptor, FixedVersion
<1>2. VersionError(w, o.allowUpgrade) = None
  BY DEF VersionPassed
<1>3. ~(FilesystemFormatVersion < w)
  BY <1>2 DEF VersionError, ErrorCodes
<1>4. CASE v \in LegacyVersions
  BY <1>4, <1>1 DEF v, Versions
<1>5. CASE v \notin LegacyVersions
  BY <1>1, <1>3, <1>5 DEF FixedVersion, Versions
<1>6. QED
  BY <1>4, <1>5

(* The refresh save writes this program's format version and keeps the     *)
(* envelope's password and kdf parameters.                                 *)
LEMMA RefreshedFields ==
    ASSUME NEW d \in Descriptor
    PROVE  /\ Refreshed(d).version = FilesystemFormatVersion
           /\ OuterKey(Refreshed(d)) = OuterKey(d)
BY DEF Refreshed, OuterKey, Descriptor

(* _loadConfig gets past the version gate whenever it gets past the        *)
(* integrity gate.                                                         *)
LEMMA IntegrityPassedVersion ==
    ASSUME NEW m, NEW c, NEW o, IntegrityPassed(m, c, o)
    PROVE  VersionPassed(c, o)
BY DEF IntegrityPassed, LocalStatePassed, CipherPassed

-----------------------------------------------------------------------------
(* The step formula of VersionNeverLowered.                                *)
VersionStep ==
    \/ file = None \/ file' = None
    \/ file.version <= file'.version
    \/ EnvironmentStep

(* Every step of a load, a create or a key change keeps or raises the      *)
(* format version.                                                         *)
LEMMA NextVersionStep ==
    ASSUME TypeOK, [Next]_vars
    PROVE  [VersionStep]_vars
<1> USE ConstantsAssumption
<1>1. CASE UNCHANGED vars
  BY <1>1 DEF vars
<1>2. ASSUME NEW m \in Machines, NEW c \in CredentialsOn(m), NEW o \in Options,
             LoadExisting(m, c, o)
      PROVE  VersionStep
  <2>1. file \in Descriptor
    BY <1>2 DEF LoadExisting, TypeOK
  <2>2. CASE VersionPassed(c, o)
    BY <1>2, <2>1, <2>2, VersionPassedBound, RefreshedFields DEF LoadExisting, VersionStep
  <2>3. CASE ~VersionPassed(c, o)
    BY <1>2, <2>1, <2>3 DEF LoadExisting, VersionStep, Descriptor, Versions
  <2>4. QED
    BY <2>2, <2>3
<1>3. ASSUME NEW m \in Machines, NEW c \in CredentialsOn(m), ChangeKeyRejected(m, c)
      PROVE  VersionStep
  <2>1. CASE file = None
    BY <2>1 DEF VersionStep
  <2>2. CASE file # None
    <3>1. file \in Descriptor
      BY <2>2 DEF TypeOK
    <3>2. CASE VersionPassed(c, ChangeKeyOptions)
      BY <1>3, <2>2, <3>1, <3>2, VersionPassedBound, RefreshedFields
         DEF ChangeKeyRejected, VersionStep
    <3>3. CASE ~VersionPassed(c, ChangeKeyOptions)
      BY <1>3, <2>2, <3>1, <3>3 DEF ChangeKeyRejected, VersionStep, Descriptor, Versions
    <3>4. QED
      BY <3>2, <3>3
  <2>3. QED
    BY <2>1, <2>2
<1>4. ASSUME NEW m \in Machines, NEW c \in CredentialsOn(m), NEW pw \in Passwords,
             ChangeKeySucceeds(m, c, pw)
      PROVE  VersionStep
  <2>1. file \in Descriptor /\ VersionPassed(c, ChangeKeyOptions)
    BY <1>4, IntegrityPassedVersion DEF ChangeKeySucceeds, TypeOK
  <2>2. file.version <= FilesystemFormatVersion
    BY <2>1, VersionPassedBound
  <2>3. PICK s \in Salts \ generated :
          file' = [Refreshed(file) EXCEPT !.pw = pw, !.salt = s]
    BY <1>4 DEF ChangeKeySucceeds
  <2>4. file'.version = FilesystemFormatVersion
    BY <2>1, <2>3 DEF Refreshed, Descriptor
  <2>5. QED
    BY <2>2, <2>4 DEF VersionStep
<1>5. CASE \/ \E m \in Machines : \E pw \in Passwords, o \in Options :
                 CreateWithPassword(m, pw, o)
           \/ \E m \in Machines : CreateWithDirectKey(m)
           \/ EnvironmentStep
  BY <1>5 DEF CreateWithPassword, CreateWithDirectKey, VersionStep, TypeOK,
              Descriptor, Versions
<1>6. QED
  BY <1>1, <1>2, <1>3, <1>4, <1>5 DEF Next, EnvironmentStep

(* Format-version monotonicity (CryConfigLoader::_loadConfig,              *)
(* _checkVersion), for every set of versions: no load, create or key       *)
(* change saves the descriptor with a lower format version than it had;   *)
(* only the environment can roll it back.                                  *)
THEOREM VersionMonotone == Spec => VersionNeverLowered
<1>1. TypeOK /\ [Next]_vars => [VersionStep]_vars
  BY NextVersionStep
<1>2. QED
  BY <1>1, TypeCorrect, PTL DEF Spec, VersionNeverLowered, VersionStep

=============================================================================
