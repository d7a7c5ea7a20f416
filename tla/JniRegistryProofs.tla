------------------------- MODULE JniRegistryProofs -------------------------
(***************************************************************************)
(* Proof that JniHandles implements the registry of JniRegistry when the   *)
(* app serialises cryfs_init and cryfs_destroy, for every number of        *)
(* threads, addresses and mounts.                                          *)
(*                                                                         *)
(* The steps that change validFusePtrs or the held pointers are the insert *)
(* of cryfs_init (Mount), the call of cryfs_destroy (GiveUp) and its erase *)
(* (Close); every other step leaves both alone.  Mount needs the inserted  *)
(* pointer to be new to validFusePtrs: Cli::initFilesystem got it from a   *)
(* free address, and no address in validFusePtrs is free except the one a *)
(* cryfs_destroy is about to erase, which serialisation keeps apart.       *)
(***************************************************************************)
EXTENDS JniHandlesProofs

(* The pointer of a cryfs_init between Cli::initFilesystem and the insert  *)
(* is a live object that validFusePtrs does not hold yet.                  *)
PendingFresh ==
    \A u \in Threads :
        pc[u] \in {"hash", "insert"} /\ ptr[u] # Null =>
            ptr[u] \notin valid /\ heap[ptr[u]] # Free

(* Every address in validFusePtrs holds a live Fuse, unless its            *)
(* cryfs_destroy has deleted it and is about to erase it.                  *)
ValidLive ==
    \A b \in valid :
        \/ heap[b] # Free
        \/ \E u \in Threads : pc[u] = "destroying" /\ ptr[u] = b /\ stage[u] = 3

(* The invariant the refinement rests on.                                  *)
RInv == IInv /\ PendingFresh /\ ValidLive

(* The initial state satisfies RInv.                                       *)
LEMMA RInvInit == Init => RInv
<1> SUFFICES ASSUME Init PROVE RInv
  OBVIOUS
<1>1. IInv
  BY IInvInit
<1>2. PendingFresh /\ ValidLive
  BY DEF Init, PendingFresh, ValidLive
<1>3. QED
  BY <1>1, <1>2 DEF RInv

(* Cli::initFilesystem takes a free address, which validFusePtrs cannot    *)
(* hold: no cryfs_destroy runs beside it.                                  *)
LEMMA InitCliFresh ==
    ASSUME RInv, NEW t \in Threads, InitCli(t)
    PROVE  PendingFresh' /\ ValidLive'
<1>1. \A u \in Threads \ {t} : ~InLifecycle(u)
  BY DEF InitCli, RInv, IInv, LifecycleExclusive, InLifecycle
<1>2. \A u \in Threads : pc[u] # "destroying"
  BY <1>1 DEF InitCli, InLifecycle
<1>3. \A u \in Threads \ {t} : pc[u] \notin {"hash", "insert"}
  BY <1>1 DEF InLifecycle
<1>4. \A a \in valid : heap[a] # Free
  BY <1>2 DEF RInv, ValidLive
<1>5. /\ pc'[t] = "hash"
      /\ \A u \in Threads \ {t} : pc'[u] = pc[u] /\ ptr'[u] = ptr[u]
      /\ UNCHANGED <<valid, stage>>
  BY DEF InitCli, NewFuse, RInv, IInv, TypeOK
<1>6. PICK out \in CliOutcomes :
        IF out = "mounted"
        THEN /\ created < MaxMounts
             /\ \E a \in Addrs : heap[a] = Free /\ NewFuse(t, a)
        ELSE /\ ptr' = [ptr EXCEPT ![t] = Null]
             /\ UNCHANGED <<heap, running, created>>
  BY DEF InitCli
<1>7. CASE out = "mounted"
  <2>1. PICK a \in Addrs : heap[a] = Free /\ NewFuse(t, a)
    BY <1>6, <1>7
  <2>2. a \notin valid
    BY <1>4, <2>1
  <2>3. created + 1 # Free /\ ptr'[t] = a
    BY <2>1 DEF NewFuse, RInv, IInv, TypeOK, Free
  <2>4. heap' = [heap EXCEPT ![a] = created + 1]
    BY <2>1 DEF NewFuse
  <2>5. \A b \in Addrs : heap[b] # Free => heap'[b] # Free
    BY <2>3, <2>4 DEF RInv, IInv, TypeOK
  <2>6. heap'[a] # Free
    BY <2>3, <2>4 DEF RInv, IInv, TypeOK
  <2>7. PendingFresh'
    BY <1>3, <1>5, <2>2, <2>3, <2>6 DEF PendingFresh
  <2>8. ValidLive'
    BY <1>4, <1>5, <2>5 DEF ValidLive, RInv, IInv, TypeOK
  <2>9. QED
    BY <2>7, <2>8
<1>8. CASE out # "mounted"
  <2>1. ptr'[t] = Null /\ UNCHANGED heap
    BY <1>6, <1>8 DEF RInv, IInv, TypeOK
  <2>2. QED
    BY <1>3, <1>4, <1>5, <2>1 DEF PendingFresh, ValidLive
<1>9. QED
  BY <1>7, <1>8

(* The insert of cryfs_init adds a live object to validFusePtrs.           *)
LEMMA InitInsertFresh ==
    ASSUME RInv, NEW t \in Threads, InitInsert(t)
    PROVE  PendingFresh' /\ ValidLive'
<1>1. \A u \in Threads \ {t} : pc[u] \notin {"hash", "insert"}
  BY DEF InitInsert, RInv, IInv, LifecycleExclusive, InLifecycle
<1>2. ptr[t] # Null => heap[ptr[t]] # Free
  BY DEF InitInsert, RInv, PendingFresh
<1>3. /\ pc'[t] = "idle"
      /\ \A u \in Threads \ {t} : pc'[u] = pc[u]
      /\ UNCHANGED <<heap, ptr, stage>>
  BY DEF InitInsert, RInv, IInv, TypeOK
<1>4. PendingFresh'
  BY <1>1, <1>3 DEF PendingFresh
<1>5. ValidLive'
  <2>1. valid' \subseteq valid \cup {ptr[t]} /\ (ptr[t] \in valid' \ valid => ptr[t] # Null)
    BY DEF InitInsert
  <2>2. \A u \in Threads : pc[u] = "destroying" => pc'[u] = "destroying"
    BY <1>3 DEF InitInsert
  <2>3. QED
    BY <1>2, <1>3, <2>1, <2>2 DEF ValidLive, RInv
<1>6. QED
  BY <1>4, <1>5

(* A statement of cryfs_destroy: the delete frees the address only at the  *)
(* stage whose next statement erases it, and no cryfs_init runs beside it. *)
LEMMA DestroyStepFresh ==
    ASSUME RInv, NEW t \in Threads, DestroyStep(t)
    PROVE  PendingFresh' /\ ValidLive'
<1> DEFINE a == ptr[t]
<1>1. \A u \in Threads \ {t} : ~InLifecycle(u)
  BY DEF DestroyStep, RInv, IInv, LifecycleExclusive, InLifecycle
<1>2. /\ \A u \in Threads \ {t} : pc'[u] = pc[u] /\ ptr'[u] = ptr[u] /\ stage'[u] = stage[u]
      /\ pc'[t] \in {"idle", "destroying"}
      /\ UNCHANGED ptr
  BY DEF DestroyStep, RInv, IInv, TypeOK
<1>3. \A u \in Threads : pc'[u] \notin {"hash", "insert"}
  BY <1>1, <1>2 DEF InLifecycle
<1>4. PendingFresh'
  BY <1>3 DEF PendingFresh
<1>5. stage[t] \in 1 .. 3 /\ pc[t] = "destroying"
  BY DestroyOrderFacts DEF DestroyStep, RInv, IInv, TypeOK
<1>6. \A u \in Threads \ {t} :
        /\ pc'[u] = pc[u] /\ ptr'[u] = ptr[u] /\ stage'[u] = stage[u]
  BY <1>2
<1>7. CASE stage[t] = 1
  <2>1. DestroyOrder[stage[t]] = "destroy" /\ stage[t] # Len(DestroyOrder)
    BY <1>7, DestroyOrderFacts
  <2>2. UNCHANGED <<heap, valid>>
    BY <2>1 DEF DestroyStep
  <2>3. SUFFICES ASSUME NEW b \in valid', heap'[b] = Free
                 PROVE  \E u \in Threads : pc'[u] = "destroying" /\ ptr'[u] = b
                                         /\ stage'[u] = 3
    BY <1>4 DEF ValidLive
  <2>4. PICK u \in Threads : pc[u] = "destroying" /\ ptr[u] = b /\ stage[u] = 3
    BY <2>2, <2>3 DEF RInv, ValidLive
  <2>5. u # t
    BY <1>7, <2>4
  <2>6. QED
    BY <1>6, <2>4, <2>5
<1>8. CASE stage[t] = 2
  <2>1. DestroyOrder[stage[t]] = "delete" /\ stage[t] # Len(DestroyOrder)
    BY <1>8, DestroyOrderFacts
  <2>2. /\ heap' = [heap EXCEPT ![a] = Free]
        /\ UNCHANGED valid
        /\ pc'[t] = "destroying" /\ stage'[t] = 3
    BY <1>5, <1>8, <2>1 DEF DestroyStep, RInv, IInv, TypeOK
  <2>3. SUFFICES ASSUME NEW b \in valid', heap'[b] = Free
                 PROVE  \E u \in Threads : pc'[u] = "destroying" /\ ptr'[u] = b
                                         /\ stage'[u] = 3
    BY <1>4 DEF ValidLive
  <2>4. CASE b = a
    BY <1>2, <2>2, <2>4
  <2>5. CASE b # a
    <3>1. heap'[b] = heap[b]
      BY <2>2, <2>5
    <3>2. PICK u \in Threads : pc[u] = "destroying" /\ ptr[u] = b /\ stage[u] = 3
      BY <2>2, <2>3, <3>1 DEF RInv, ValidLive
    <3>3. u # t
      BY <1>8, <3>2
    <3>4. QED
      BY <1>6, <3>2, <3>3
  <2>6. QED
    BY <2>4, <2>5
<1>9. CASE stage[t] = 3
  <2>1. UNCHANGED heap /\ valid' = valid \ {a}
    <3>1. DestroyOrder[stage[t]] = "erase"
      BY <1>9, DestroyOrderFacts
    <3>2. QED
      BY <3>1 DEF DestroyStep
  <2>2. SUFFICES ASSUME NEW b \in valid', heap'[b] = Free
                 PROVE  \E u \in Threads : pc'[u] = "destroying" /\ ptr'[u] = b
                                         /\ stage'[u] = 3
    BY <1>4 DEF ValidLive
  <2>3. b \in valid /\ b # a
    BY <2>1
  <2>4. PICK u \in Threads : pc[u] = "destroying" /\ ptr[u] = b /\ stage[u] = 3
    BY <2>1, <2>2, <2>3 DEF RInv, ValidLive
  <2>5. u # t
    BY <2>3, <2>4
  <2>6. QED
    BY <1>6, <2>4, <2>5
<1>10. QED
  BY <1>4, <1>5, <1>7, <1>8, <1>9

(* The other steps leave heap and validFusePtrs alone; the only one that  *)
(* moves a thread to "insert" keeps its pointer, and a thread entering     *)
(* cryfs_destroy starts at its first statement.                            *)
LEMMA OtherFresh ==
    ASSUME RInv, NEW t \in Threads,
           \/ InitCall(t) \/ InitHash(t) \/ OpRun(t)
           \/ \E a \in Addrs : OpCall(t, a) \/ DestroyCall(t, a)
    PROVE  PendingFresh' /\ ValidLive'
<1>1. CASE InitCall(t)
  BY <1>1 DEF InitCall, PendingFresh, ValidLive, RInv, IInv, TypeOK
<1>2. CASE InitHash(t)
  BY <1>2 DEF InitHash, PendingFresh, ValidLive, RInv, IInv, TypeOK
<1>3. CASE OpRun(t)
  BY <1>3 DEF OpRun, PendingFresh, ValidLive, RInv, IInv, TypeOK
<1>4. ASSUME NEW a \in Addrs, OpCall(t, a)
      PROVE  PendingFresh' /\ ValidLive'
  BY <1>4 DEF OpCall, PendingFresh, ValidLive, RInv, IInv, TypeOK
<1>5. ASSUME NEW a \in Addrs, DestroyCall(t, a)
      PROVE  PendingFresh' /\ ValidLive'
  BY <1>5 DEF DestroyCall, PendingFresh, ValidLive, RInv, IInv, TypeOK
<1>6. QED
  BY <1>1, <1>2, <1>3, <1>4, <1>5

(* Every step keeps RInv when the life cycle is serialised.                *)
LEMMA NextRInv ==
    ASSUME LifecycleSerialised, RInv, [Next]_vars
    PROVE  RInv'
<1>1. IInv'
  BY NextIInv DEF RInv
<1>2. CASE UNCHANGED vars
  BY <1>1, <1>2 DEF vars, RInv, PendingFresh, ValidLive
<1>3. CASE Next
  <2>1. PICK t \in Threads :
          \/ InitCall(t) \/ InitCli(t) \/ InitHash(t) \/ InitInsert(t)
          \/ \E a \in Addrs : OpCall(t, a) \/ DestroyCall(t, a)
          \/ OpRun(t)
          \/ DestroyStep(t)
    BY <1>3 DEF Next
  <2>2. PendingFresh' /\ ValidLive'
    BY <2>1, InitCliFresh, InitInsertFresh, DestroyStepFresh, OtherFresh
  <2>3. QED
    BY <1>1, <2>2 DEF RInv
<1>4. QED
  BY <1>1, <1>2, <1>3 DEF RInv

-----------------------------------------------------------------------------
(* The refinement mapping: the initial state is the registry's.            *)
LEMMA InitRefines == Init => Registry!Init
BY DEF Init, Registry!Init

(* Every step is a registry step or leaves validFusePtrs and the held      *)
(* pointers alone.                                                         *)
LEMMA StepRefines ==
    ASSUME RInv, [Next]_vars
    PROVE  [Registry!Next]_<<valid, handles>>
<1>1. CASE UNCHANGED vars
  BY <1>1 DEF vars
<1>2. CASE Next
  <2>1. PICK t \in Threads :
          \/ InitCall(t) \/ InitCli(t) \/ InitHash(t) \/ InitInsert(t)
          \/ \E a \in Addrs : OpCall(t, a) \/ DestroyCall(t, a)
          \/ OpRun(t)
          \/ DestroyStep(t)
    BY <1>2 DEF Next
  <2>2. CASE InitInsert(t)
    <3>1. CASE ptr[t] = Null
      BY <2>2, <3>1 DEF InitInsert
    <3>2. CASE ptr[t] # Null
      <4>1. ptr[t] \in Addrs /\ ptr[t] \notin valid
        BY <2>2, <3>2 DEF InitInsert, RInv, IInv, TypeOK, PendingFresh
      <4>2. Registry!Mount(ptr[t])
        BY <2>2, <3>2, <4>1 DEF InitInsert, Registry!Mount
      <4>3. QED
        BY <4>1, <4>2 DEF Registry!Next
    <3>3. QED
      BY <3>1, <3>2
  <2>3. ASSUME NEW a \in Addrs, DestroyCall(t, a)
        PROVE  [Registry!Next]_<<valid, handles>>
    <3>1. Registry!GiveUp(a)
      BY <2>3 DEF DestroyCall, Registry!GiveUp
    <3>2. QED
      BY <3>1 DEF Registry!Next
  <2>4. CASE DestroyStep(t)
    <3> DEFINE a == ptr[t]
    <3>1. /\ a \notin handles
          /\ UNCHANGED handles
          /\ valid' \in {valid, valid \ {a}}
          /\ valid \subseteq Addrs
      <4>1. a \notin handles /\ valid \subseteq Addrs
        BY <2>4 DEF DestroyStep, RInv, IInv, TypeOK, DestroyingNotHeld
      <4>2. UNCHANGED handles /\ valid' \in {valid, valid \ {a}}
        BY <2>4 DEF DestroyStep
      <4>3. QED
        BY <4>1, <4>2
    <3>2. CASE a \in valid /\ valid' = valid \ {a}
      <4>1. Registry!Close(a) /\ a \in Addrs
        BY <3>1, <3>2 DEF Registry!Close
      <4>2. QED
        BY <3>1, <4>1 DEF Registry!Next
    <3>3. CASE ~(a \in valid /\ valid' = valid \ {a})
      BY <3>1, <3>3
    <3>4. QED
      BY <3>2, <3>3
  <2>5. CASE \/ InitCall(t) \/ InitCli(t) \/ InitHash(t) \/ OpRun(t)
             \/ \E a \in Addrs : OpCall(t, a)
    BY <2>5 DEF InitCall, InitCli, InitHash, OpRun, OpCall
  <2>6. QED
    BY <2>1, <2>2, <2>3, <2>4, <2>5
<1>3. QED
  BY <1>1, <1>2

(* When the app never runs two cryfs_init/cryfs_destroy calls at once,     *)
(* libcryfs-jni implements the registry: cryfs_init only ever registers a  *)
(* pointer that is not registered, and cryfs_destroy only unregisters a    *)
(* pointer the app has given up, whatever the file operations do.          *)
THEOREM RegistryRefinement ==
    ASSUME LifecycleSerialised
    PROVE  Spec => RegistrySpec
<1>1. Init => RInv
  BY RInvInit
<1>2. RInv /\ [Next]_vars => RInv'
  BY NextRInv
<1>3. Init => Registry!Init
  BY InitRefines
<1>4. RInv /\ [Next]_vars => [Registry!Next]_<<valid, handles>>
  BY StepRefines
<1>5. QED
  BY <1>1, <1>2, <1>3, <1>4, PTL DEF Spec, RegistrySpec, Registry!Spec

=============================================================================
