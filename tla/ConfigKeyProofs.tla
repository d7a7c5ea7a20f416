--------------------------- MODULE ConfigKeyProofs ---------------------------
(***************************************************************************)
(* Proof of the key binding of ConfigLoader (MountsOneKey) for every value *)
(* of the constants.  MountsOneKey is not inductive: a load that finds a   *)
(* filesystem id with a new inner key is refused only because the local    *)
(* state of the machine still records the fingerprint of the key mounted   *)
(* before.  The strengthening says exactly that, and that every mounted    *)
(* or stored filesystem id was drawn already, so that a freshly created    *)
(* filesystem never meets an old record.                                   *)
(***************************************************************************)
EXTENDS ConfigLoaderProofs

(* The descriptor in the basedir and the copy the environment keeps carry  *)
(* filesystem ids that were drawn already.                                 *)
FilesGenerated ==
    /\ file # None => file.fsId \in generated
    /\ backup # None => backup.fsId \in generated

(* A machine has local-state records only for filesystem ids drawn.        *)
LocalGenerated ==
    \A m \in Machines : \A f \in FsIds : localState[m][f] # None => f \in generated

(* Every filesystem a machine mounted since its last consent to a          *)
(* replacement has a local-state record holding the fingerprint of the     *)
(* inner key it was mounted with.                                          *)
KeyBinding ==
    \A m \in Machines : \A x \in mounts[m] :
        /\ x.fsId \in generated
        /\ localState[m][x.fsId] # None
        /\ localState[m][x.fsId].fp = Fingerprint(x.key)

KInv == TypeOK /\ FilesGenerated /\ LocalGenerated /\ KeyBinding

-----------------------------------------------------------------------------
(* Cli::initFilesystem reports success only when loadOrGenerate accepted   *)
(* the key.                                                                *)
LEMMA SuccessPassedLocalState ==
    ASSUME ConstantsAssumption, NEW m, NEW c, NEW o, LoadResult(m, c, o) = "Success"
    PROVE  LocalStatePassed(m, c, o)
<1>1. LoaderError(m, c, o) = None
  <2>1. LoaderError(m, c, o) \in LoaderErrors \cup {None}
    BY LoaderErrorRange
  <2>2. "Success" \notin LoaderErrors
    BY DEF LoaderErrors
  <2>3. QED
    BY <2>1, <2>2 DEF LoadResult
<1>2. None \notin ErrorCodes
  BY ConstantsAssumption
<1>3. Decrypted(c)
  BY <1>1, <1>2 DEF LoaderError, ErrorCodes, VersionPassed, CipherPassed, LocalStatePassed,
                    IntegrityPassed
<1>4. VersionPassed(c, o)
  <2>1. \A v, a : VersionError(v, a) \in ErrorCodes \cup {None}
    BY DEF VersionError, ErrorCodes
  <2>2. QED
    BY <1>1, <1>3, <2>1 DEF LoaderError, VersionPassed, CipherPassed, LocalStatePassed,
                    IntegrityPassed
<1>5. CipherPassed(c, o)
  BY <1>1, <1>2, <1>3, <1>4 DEF LoaderError, ErrorCodes, VersionPassed, CipherPassed, LocalStatePassed,
                    IntegrityPassed
<1>6. QED
  BY <1>1, <1>2, <1>3, <1>4, <1>5 DEF LoaderError, ErrorCodes, VersionPassed, CipherPassed, LocalStatePassed,
                    IntegrityPassed

(* What a step may do to the local state and the ghost and keep the key    *)
(* binding: rewrite the record of m for d's id when loadOrGenerate accepts *)
(* d's key there (allowReplaced is the caller's consent), keep every other *)
(* record, draw no id back, and add to the ghost at most a mount of d.     *)
KeyStepHyp(m, d, allowReplaced, success) ==
    /\ d.fsId \in FsIds
    /\ generated \subseteq generated'
    /\ success => d.fsId \in generated'
    /\ \A n \in Machines :
          mounts'[n] \subseteq
              (IF n = m /\ allowReplaced THEN {} ELSE mounts[n])
              \cup (IF n = m /\ success THEN {[fsId |-> d.fsId, key |-> d.key]}
                    ELSE {})
    /\ \A n \in Machines, f \in FsIds :
          \/ localState'[n][f] = localState[n][f]
          \/ /\ n = m /\ f = d.fsId
             /\ localState'[m][f] # None
             /\ localState'[m][f].fp = Fingerprint(d.key)
             /\ ~KeyReplaced(m, d, allowReplaced)
    /\ success => /\ localState'[m][d.fsId] # None
                  /\ localState'[m][d.fsId].fp = Fingerprint(d.key)

(* Such a step keeps the key binding.                                      *)
LEMMA KeyBindingStep ==
    ASSUME TypeOK, KeyBinding,
           NEW m \in Machines, NEW d, NEW allowReplaced \in BOOLEAN,
           NEW success \in BOOLEAN, KeyStepHyp(m, d, allowReplaced, success)
    PROVE  KeyBinding'
<1> USE DEF KeyStepHyp
<1> SUFFICES ASSUME NEW n \in Machines, NEW x \in mounts'[n]
             PROVE  /\ x.fsId \in generated'
                    /\ localState'[n][x.fsId] # None
                    /\ localState'[n][x.fsId].fp = Fingerprint(x.key)
  BY DEF KeyBinding
<1>1. CASE n = m /\ success /\ x = [fsId |-> d.fsId, key |-> d.key]
  BY <1>1
<1>2. CASE ~(n = m /\ success /\ x = [fsId |-> d.fsId, key |-> d.key])
  <2>1. x \in mounts[n] /\ ~(n = m /\ allowReplaced)
    BY <1>2
  <2>2. /\ x.fsId \in generated /\ x.fsId \in FsIds
        /\ localState[n][x.fsId] # None
        /\ localState[n][x.fsId].fp = Fingerprint(x.key)
    BY <2>1 DEF KeyBinding, TypeOK
  <2>3. CASE localState'[n][x.fsId] = localState[n][x.fsId]
    BY <2>2, <2>3
  <2>4. CASE localState'[n][x.fsId] # localState[n][x.fsId]
    <3>1. /\ n = m /\ x.fsId = d.fsId
          /\ localState'[m][d.fsId] # None
          /\ localState'[m][d.fsId].fp = Fingerprint(d.key)
          /\ ~KeyReplaced(m, d, allowReplaced)
      BY <2>2, <2>4
    <3>2. localState[m][d.fsId].fp = Fingerprint(d.key)
      BY <2>1, <2>2, <3>1 DEF KeyReplaced
    <3>3. QED
      BY <2>2, <3>1, <3>2
  <2>5. QED
    BY <2>3, <2>4
<1>3. QED
  BY <1>1, <1>2

(* The record LocalStateMetadata::loadOrGenerate writes for (m, f) is the  *)
(* only one that changes, and holds the fingerprint of k.                  *)
LEMMA LocalStateAfterFields ==
    ASSUME TypeOK, NEW m \in Machines, NEW f \in FsIds, NEW k \in Keys,
           CanAllocate(m, f)
    PROVE  /\ \A n \in Machines, g \in FsIds :
                 ~(n = m /\ g = f) => LocalStateAfter(m, f, k)[n][g] = localState[n][g]
           /\ LocalStateAfter(m, f, k)[m][f] # None
           /\ LocalStateAfter(m, f, k)[m][f].fp = Fingerprint(k)
<1>1. MyClientId(m, f) \in ClientIds
  BY DEF TypeOK, CanAllocate, MyClientId, ClientIds, LocalRecord
<1>2. [clientId |-> MyClientId(m, f), fp |-> Fingerprint(k)] \in LocalRecord
  BY <1>1 DEF LocalRecord
<1>3. [clientId |-> MyClientId(m, f), fp |-> Fingerprint(k)] # None
  BY <1>2, NoneNotRecordAssumption
<1>4. QED
  BY <1>3 DEF LocalStateAfter, TypeOK

(* The ghost update of a load or create leaves at most d's mount added to  *)
(* what m had mounted, and nothing removed unless the caller consented.   *)
LEMMA MountedShape ==
    ASSUME TypeOK, NEW m \in Machines, NEW d, NEW o, NEW success \in BOOLEAN
    PROVE  \A n \in Machines :
              Mounted(m, d, o, success)[n] \subseteq
                  (IF n = m /\ o.allowReplaced THEN {} ELSE mounts[n])
                  \cup (IF n = m /\ success THEN {[fsId |-> d.fsId, key |-> d.key]}
                        ELSE {})
BY DEF Mounted, TypeOK

-----------------------------------------------------------------------------
(* One lemma per operation: each keeps the three facts KInv adds to the    *)
(* types.                                                                  *)

(* Cli::initFilesystem on an existing descriptor.                          *)
LEMMA LoadExistingKInv ==
    ASSUME KInv, ConstantsAssumption, NEW m \in Machines, NEW c \in CredentialsOn(m),
           NEW o \in Options, LoadExisting(m, c, o)
    PROVE  FilesGenerated' /\ LocalGenerated' /\ KeyBinding'
<1> DEFINE f == file.fsId
           success == LoadResult(m, c, o) = "Success"
<1>1. file \in Descriptor /\ f \in generated /\ f \in FsIds /\ file.key \in Keys
  BY DEF LoadExisting, KInv, TypeOK, FilesGenerated, Descriptor
<1>2. /\ generated' = generated /\ backup' = backup
      /\ file' \in {file, Refreshed(file)}
      /\ mounts' = Mounted(m, file, o, success)
      /\ localState' = IF LocalStatePassed(m, c, o)
                       THEN LocalStateAfter(m, f, file.key) ELSE localState
  BY DEF LoadExisting
<1>3. o.allowReplaced \in BOOLEAN
  BY ConstantsAssumption DEF Options
<1>4. success => LocalStatePassed(m, c, o)
  BY SuccessPassedLocalState
<1>5. LocalStatePassed(m, c, o) =>
        /\ CanAllocate(m, f)
        /\ ~KeyReplaced(m, file, o.allowReplaced)
  BY DEF LoadExisting, LocalStatePassed
<1>6. \A n \in Machines, g \in FsIds :
        \/ localState'[n][g] = localState[n][g]
        \/ /\ n = m /\ g = f
           /\ localState'[m][g] # None
           /\ localState'[m][g].fp = Fingerprint(file.key)
           /\ ~KeyReplaced(m, file, o.allowReplaced)
  BY <1>1, <1>2, <1>5, LocalStateAfterFields DEF KInv
<1>7. success => localState'[m][f] # None /\ localState'[m][f].fp = Fingerprint(file.key)
  BY <1>1, <1>2, <1>4, <1>5, LocalStateAfterFields DEF KInv
<1>8. KeyBinding'
  <2>1. \A n \in Machines :
          mounts'[n] \subseteq
              (IF n = m /\ o.allowReplaced THEN {} ELSE mounts[n])
              \cup (IF n = m /\ success THEN {[fsId |-> file.fsId, key |-> file.key]}
                    ELSE {})
    BY <1>2, MountedShape DEF KInv
  <2>2. PICK d \in Descriptor, sc \in BOOLEAN : d = file /\ sc = success
    BY <1>1
  <2>3. KeyStepHyp(m, d, o.allowReplaced, sc)
    BY <1>1, <1>2, <1>6, <1>7, <2>1, <2>2 DEF KeyStepHyp
  <2>4. QED
    BY <1>3, <2>3, KeyBindingStep DEF KInv
<1>9. FilesGenerated'
  <2>1. file' # None => file'.fsId = file.fsId
    BY <1>1, <1>2 DEF Refreshed, Descriptor
  <2>2. QED
    BY <1>1, <1>2, <2>1 DEF KInv, FilesGenerated
<1>10. LocalGenerated'
  BY <1>1, <1>2, <1>6 DEF KInv, LocalGenerated, TypeOK
<1>11. QED
  BY <1>8, <1>9, <1>10

(* A step that leaves the local state and the ghost alone and draws no id *)
(* back keeps the records and the mounts bound to drawn ids.               *)
LEMMA FrameKInv ==
    ASSUME KInv, UNCHANGED <<localState, mounts>>, generated \subseteq generated'
    PROVE  LocalGenerated' /\ KeyBinding'
BY DEF KInv, LocalGenerated, KeyBinding

(* Cli::initFilesystem creating a filesystem with a password: the new id   *)
(* was never drawn, so this machine has no record for it to contradict.    *)
LEMMA CreateWithPasswordKInv ==
    ASSUME KInv, ConstantsAssumption, NEW m \in Machines, NEW pw \in Passwords,
           NEW o \in Options, CreateWithPassword(m, pw, o)
    PROVE  FilesGenerated' /\ LocalGenerated' /\ KeyBinding'
<1>1. PICK f \in FsIds \ generated, k \in Keys \ generated, s \in Salts \ generated :
        LET d == CreatedDescriptor(m, f, k, s, pw, o)
            success == ~BasedirIdChanged(m, f, o.allowReplaced)
        IN
        /\ file' = d
        /\ localState' = LocalStateAfter(m, f, k)
        /\ generated' = generated \cup {f, k, s}
        /\ mounts' = Mounted(m, d, o, success)
  BY DEF CreateWithPassword
<1>2. PICK d \in Descriptor, sc \in BOOLEAN :
        /\ d = CreatedDescriptor(m, f, k, s, pw, o)
        /\ sc = ~BasedirIdChanged(m, f, o.allowReplaced)
  BY CreatedDescriptorType DEF CreateWithPassword, KInv
<1>3. d.fsId = f /\ d.key = k
  BY <1>2 DEF CreatedDescriptor
<1>4. localState[m][f] = None
  BY DEF KInv, LocalGenerated
<1>5. CanAllocate(m, f)
  BY DEF CreateWithPassword, CanAllocate
<1>6. o.allowReplaced \in BOOLEAN
  BY ConstantsAssumption DEF Options
<1>7. \A n \in Machines, g \in FsIds :
        \/ localState'[n][g] = localState[n][g]
        \/ /\ n = m /\ g = f
           /\ localState'[m][g] # None
           /\ localState'[m][g].fp = Fingerprint(k)
  BY <1>1, <1>5, LocalStateAfterFields DEF KInv
<1>8. KeyBinding'
  <2>1. ~KeyReplaced(m, d, o.allowReplaced)
    BY <1>3, <1>4 DEF KeyReplaced
  <2>2. \A n \in Machines :
          mounts'[n] \subseteq
              (IF n = m /\ o.allowReplaced THEN {} ELSE mounts[n])
              \cup (IF n = m /\ sc THEN {[fsId |-> d.fsId, key |-> d.key]} ELSE {})
    <3>1. mounts' = Mounted(m, d, o, sc)
      BY <1>1, <1>2
    <3>2. QED
      BY <3>1, MountedShape DEF KInv
  <2>3. KeyStepHyp(m, d, o.allowReplaced, sc)
    BY <1>1, <1>3, <1>5, <1>7, <2>1, <2>2, LocalStateAfterFields DEF KeyStepHyp, KInv
  <2>4. QED
    BY <1>6, <2>3, KeyBindingStep DEF KInv
<1>9. FilesGenerated'
  BY <1>1, <1>2, <1>3 DEF CreateWithPassword, KInv, FilesGenerated
<1>10. LocalGenerated'
  BY <1>1, <1>7 DEF KInv, LocalGenerated
<1>11. QED
  BY <1>8, <1>9, <1>10

(* A create with a password hash: the creator's record is made for a new  *)
(* id before CryDirectKeyProvider throws, and nothing is mounted.          *)
LEMMA CreateWithDirectKeyKInv ==
    ASSUME KInv, ConstantsAssumption, NEW m \in Machines, CreateWithDirectKey(m)
    PROVE  FilesGenerated' /\ LocalGenerated' /\ KeyBinding'
<1>1. PICK f \in FsIds \ generated, k \in Keys \ generated :
        /\ localState' = LocalStateAfter(m, f, k)
        /\ generated' = generated \cup {f, k}
  BY DEF CreateWithDirectKey
<1> DEFINE d == [fsId |-> f, key |-> k]
<1>2. CanAllocate(m, f)
  BY DEF CreateWithDirectKey, CanAllocate
<1>3. \A n \in Machines, g \in FsIds :
        \/ localState'[n][g] = localState[n][g]
        \/ /\ n = m /\ g = f
           /\ localState'[m][g] # None
           /\ localState'[m][g].fp = Fingerprint(k)
  BY <1>1, <1>2, LocalStateAfterFields DEF KInv
<1>4. ~KeyReplaced(m, d, FALSE)
  BY DEF KInv, LocalGenerated, KeyReplaced
<1>5. KeyStepHyp(m, d, FALSE, FALSE)
  BY <1>1, <1>3, <1>4 DEF CreateWithDirectKey, KeyStepHyp
<1>6. KeyBinding'
  BY <1>5, KeyBindingStep DEF KInv
<1>7. FilesGenerated'
  BY <1>1 DEF CreateWithDirectKey, KInv, FilesGenerated
<1>8. LocalGenerated'
  BY <1>1, <1>3 DEF KInv, LocalGenerated
<1>9. QED
  BY <1>6, <1>7, <1>8

(* cryfs_change_encryption_key: loadOrGenerate runs under                 *)
(* ChangeKeyOptions, which never allow a replaced filesystem, and nothing  *)
(* is mounted.                                                             *)
LEMMA ChangeKeyKInv ==
    ASSUME KInv, ConstantsAssumption, NEW m \in Machines, NEW c \in CredentialsOn(m),
           \/ ChangeKeyRejected(m, c)
           \/ \E pw \in Passwords : ChangeKeySucceeds(m, c, pw)
    PROVE  FilesGenerated' /\ LocalGenerated' /\ KeyBinding'
<1> DEFINE o == ChangeKeyOptions
<1>1. CASE file = None /\ ChangeKeyRejected(m, c)
  <2>1. UNCHANGED <<file, localState, mounts, generated, backup>>
    BY <1>1 DEF ChangeKeyRejected
  <2>2. QED
    BY <2>1, FrameKInv DEF KInv, FilesGenerated
<1>2. CASE file # None
  <2>1. file \in Descriptor /\ file.fsId \in generated /\ file.fsId \in FsIds
        /\ file.key \in Keys
    BY <1>2 DEF KInv, TypeOK, FilesGenerated, Descriptor
  <2>2. /\ generated \subseteq generated'
        /\ UNCHANGED <<mounts, backup>>
        /\ file' # None => file'.fsId = file.fsId
        /\ \/ localState' = localState
           \/ /\ localState' = LocalStateAfter(m, file.fsId, file.key)
              /\ CanAllocate(m, file.fsId)
              /\ ~KeyReplaced(m, file, FALSE)
    <3>1. CASE ChangeKeyRejected(m, c)
      BY <1>2, <2>1, <3>1 DEF ChangeKeyRejected, Refreshed, Descriptor,
                             LocalStatePassed, CipherPassed, ChangeKeyOptions
    <3>2. CASE \E pw \in Passwords : ChangeKeySucceeds(m, c, pw)
      <4>1. PICK pw \in Passwords : ChangeKeySucceeds(m, c, pw)
        BY <3>2
      <4>2. PICK s \in Salts \ generated :
              /\ file' = [Refreshed(file) EXCEPT !.pw = pw, !.salt = s]
              /\ generated' = generated \cup {s}
        BY <4>1 DEF ChangeKeySucceeds
      <4>3. QED
        BY <2>1, <4>1, <4>2 DEF ChangeKeySucceeds, Refreshed, Descriptor,
                               IntegrityPassed, LocalStatePassed, ChangeKeyOptions
    <3>3. QED
      BY <3>1, <3>2
  <2>3. PICK d \in Descriptor : d = file
    BY <2>1
  <2>4. \A n \in Machines, g \in FsIds :
          \/ localState'[n][g] = localState[n][g]
          \/ /\ n = m /\ g = d.fsId
             /\ localState'[m][g] # None
             /\ localState'[m][g].fp = Fingerprint(d.key)
             /\ ~KeyReplaced(m, d, FALSE)
    <3>1. CASE localState' = localState
      BY <3>1
    <3>2. CASE /\ localState' = LocalStateAfter(m, d.fsId, d.key)
               /\ CanAllocate(m, d.fsId)
               /\ ~KeyReplaced(m, d, FALSE)
      <4>1. d.fsId \in FsIds /\ d.key \in Keys /\ TypeOK
        BY <2>1, <2>3 DEF KInv
      <4>2. /\ \A n \in Machines, g \in FsIds :
                  ~(n = m /\ g = d.fsId) =>
                      LocalStateAfter(m, d.fsId, d.key)[n][g] = localState[n][g]
            /\ LocalStateAfter(m, d.fsId, d.key)[m][d.fsId] # None
            /\ LocalStateAfter(m, d.fsId, d.key)[m][d.fsId].fp = Fingerprint(d.key)
        BY <3>2, <4>1, LocalStateAfterFields
      <4>3. QED
        BY <3>2, <4>2
    <3>3. QED
      BY <2>2, <2>3, <3>1, <3>2
  <2>5. KeyBinding'
    <3>1. KeyStepHyp(m, d, FALSE, FALSE)
      BY <2>1, <2>2, <2>3, <2>4 DEF KeyStepHyp
    <3>2. QED
      BY <3>1, KeyBindingStep DEF KInv
  <2>6. FilesGenerated'
    BY <2>1, <2>2 DEF KInv, FilesGenerated
  <2>7. LocalGenerated'
    BY <2>1, <2>2, <2>3, <2>4 DEF KInv, LocalGenerated
  <2>8. QED
    BY <2>5, <2>6, <2>7
<1>3. QED
  BY <1>1, <1>2 DEF ChangeKeySucceeds

(* The environment writes the basedir only; a replacement draws its ids.   *)
LEMMA EnvironmentKInv ==
    ASSUME KInv, EnvironmentStep
    PROVE  FilesGenerated' /\ LocalGenerated' /\ KeyBinding'
<1>1. UNCHANGED <<localState, mounts>> /\ generated \subseteq generated'
  BY DEF EnvironmentStep, AttackerReplace, AttackerBackup, AttackerRestore,
         AttackerDelete
<1>2. FilesGenerated'
  BY DEF KInv, FilesGenerated, EnvironmentStep, AttackerReplace, AttackerBackup,
         AttackerRestore, AttackerDelete
<1>3. QED
  BY <1>1, <1>2, FrameKInv

(* Every step keeps KInv.                                                  *)
LEMMA NextKInv ==
    ASSUME KInv, [Next]_vars
    PROVE  KInv'
<1> USE ConstantsAssumption
<1>1. TypeOK'
  BY NextTypeOK DEF KInv
<1>2. CASE UNCHANGED vars
  <2>1. UNCHANGED <<file, backup, localState, mounts, generated>>
    BY <1>2 DEF vars
  <2>2. FilesGenerated' /\ LocalGenerated' /\ KeyBinding'
    BY <2>1, FrameKInv DEF KInv, FilesGenerated
  <2>3. QED
    BY <1>1, <2>2 DEF KInv
<1>3. CASE Next
  <2>1. FilesGenerated' /\ LocalGenerated' /\ KeyBinding'
    BY <1>3, LoadExistingKInv, CreateWithPasswordKInv, CreateWithDirectKeyKInv,
       ChangeKeyKInv, EnvironmentKInv DEF Next, EnvironmentStep
  <2>2. QED
    BY <1>1, <2>1 DEF KInv
<1>4. QED
  BY <1>2, <1>3

(* The initial state satisfies KInv: nothing is mounted or recorded, and   *)
(* the initial descriptor's id counts as drawn.                            *)
LEMMA InitKInv == Init => KInv
<1> SUFFICES ASSUME Init PROVE KInv
  OBVIOUS
<1>1. TypeOK
  BY InitTypeOK
<1>2. FilesGenerated /\ LocalGenerated /\ KeyBinding
  BY DEF Init, FilesGenerated, LocalGenerated, KeyBinding
<1>3. QED
  BY <1>1, <1>2 DEF KInv

(* Anti-swap, key binding (LocalStateMetadata::loadOrGenerate), for every  *)
(* number of machines, filesystem ids and keys: a machine that never       *)
(* consented to a replaced filesystem never mounts one filesystem id under *)
(* two different inner keys, whatever the environment writes into the      *)
(* basedir and whichever key changes happen in between.                    *)
THEOREM OneKeyPerFilesystem == Spec => []MountsOneKey
<1>1. Init => KInv
  BY InitKInv
<1>2. KInv /\ [Next]_vars => KInv'
  BY NextKInv
<1>3. KInv => MountsOneKey
  <2> SUFFICES ASSUME KInv, NEW m \in Machines, NEW x \in mounts[m], NEW y \in mounts[m],
                      x.fsId = y.fsId
               PROVE  x.key = y.key
    BY DEF MountsOneKey
  <2>1. Fingerprint(x.key) = Fingerprint(y.key)
    BY DEF KInv, KeyBinding
  <2>2. QED
    BY <2>1 DEF Fingerprint
<1>4. QED
  BY <1>1, <1>2, <1>3, PTL DEF Spec

=============================================================================
