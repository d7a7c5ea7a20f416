-------------------------- MODULE JniHandlesProofs --------------------------
(***************************************************************************)
(* Proofs about JniHandles for every number of threads, addresses and      *)
(* mounts: the type invariant, and that cryfs_is_closed is accurate when   *)
(* the app serialises cryfs_init and cryfs_destroy.                        *)
(***************************************************************************)
EXTENDS JniHandles, TLAPS

(* The stages of cryfs_destroy, spelled out.                               *)
LEMMA DestroyOrderFacts ==
    /\ Len(DestroyOrder) = 3
    /\ DestroyOrder[1] = "destroy"
    /\ DestroyOrder[2] = "delete"
    /\ DestroyOrder[3] = "erase"
BY DEF DestroyOrder

-----------------------------------------------------------------------------
(* Type correctness, one lemma per step of a thread.                       *)

(* The start of cryfs_init keeps the types.                                *)
LEMMA InitCallType ==
    ASSUME TypeOK, NEW t \in Threads, InitCall(t)
    PROVE  TypeOK'
BY DEF InitCall, TypeOK

(* Cli::initFilesystem keeps the types: a new Fuse object gets the next    *)
(* number, below the bound.                                                *)
LEMMA InitCliType ==
    ASSUME TypeOK, NEW t \in Threads, InitCli(t)
    PROVE  TypeOK'
<1>1. PICK out \in CliOutcomes :
        /\ hash' = IF out # "sanityFailed" /\ withPw[t]
                   THEN [hash EXCEPT ![t] = "keybuf"] ELSE hash
        /\ IF out = "mounted"
           THEN /\ created < MaxMounts
                /\ \E a \in Addrs : heap[a] = Free /\ NewFuse(t, a)
           ELSE /\ ptr' = [ptr EXCEPT ![t] = Null]
                /\ UNCHANGED <<heap, running, created>>
  BY DEF InitCli
<1>2. hash' \in [Threads -> {"uninit", "keybuf"}]
  BY <1>1 DEF TypeOK
<1>3. CASE out = "mounted"
  <2>1. PICK a \in Addrs : heap[a] = Free /\ NewFuse(t, a)
    BY <1>1, <1>3
  <2>2. created < MaxMounts /\ created \in Nat
    BY <1>1, <1>3 DEF TypeOK
  <2>3. created + 1 \in Objects
    BY <2>2, JniConstantsAssumption DEF Objects
  <2>4. heap' \in [Addrs -> {Free} \cup Objects]
    BY <2>1, <2>3 DEF NewFuse, TypeOK
  <2>5. ptr' \in [Threads -> Addrs \cup {Null}]
    BY <2>1 DEF NewFuse, TypeOK
  <2>6. running' \subseteq Objects /\ created' \in 0 .. MaxMounts
    BY <2>1, <2>2, <2>3, JniConstantsAssumption DEF NewFuse, TypeOK, Objects
  <2>7. /\ pc' \in [Threads -> {"idle", "cli", "hash", "insert", "op", "destroying"}]
        /\ UNCHANGED <<valid, handles, obj, gotFs, stage, withPw, report>>
    BY DEF InitCli, TypeOK
  <2>8. QED
    BY <1>2, <2>4, <2>5, <2>6, <2>7 DEF TypeOK
<1>4. CASE out # "mounted"
  BY <1>1, <1>2, <1>4 DEF InitCli, TypeOK
<1>5. QED
  BY <1>3, <1>4

(* The hash copy of cryfs_init keeps the types.                          *)
LEMMA InitHashType ==
    ASSUME TypeOK, NEW t \in Threads, InitHash(t)
    PROVE  TypeOK'
BY DEF InitHash, TypeOK

(* The insert of cryfs_init keeps the types: what it reports to Java is a  *)
(* pointer and an error flag.                                              *)
LEMMA InitInsertType ==
    ASSUME TypeOK, NEW t \in Threads, InitInsert(t)
    PROVE  TypeOK'
<1>1. [ptr |-> ptr[t], errorSet |-> FALSE] \in [ptr: Addrs \cup {Null}, errorSet: BOOLEAN]
  BY DEF TypeOK
<1>2. report' \in [Threads -> {Null} \cup [ptr: Addrs \cup {Null}, errorSet: BOOLEAN]]
  BY <1>1 DEF InitInsert, TypeOK
<1>3. valid' \subseteq Addrs /\ handles' \subseteq Addrs
  BY DEF InitInsert, TypeOK
<1>4. QED
  BY <1>2, <1>3 DEF InitInsert, TypeOK

(* A file operation keeps the types.                                       *)
LEMMA OpCallType ==
    ASSUME TypeOK, NEW t \in Threads, NEW a \in Addrs, OpCall(t, a)
    PROVE  TypeOK'
<1>1. heap[a] \in {Free} \cup Objects
  BY DEF TypeOK
<1>2. QED
  BY <1>1 DEF OpCall, TypeOK

LEMMA OpRunType ==
    ASSUME TypeOK, NEW t \in Threads, OpRun(t)
    PROVE  TypeOK'
<1>1. running' \subseteq Objects
  <2>1. CASE UNCHANGED running
    BY <2>1 DEF TypeOK
  <2>2. CASE OnIntegrityViolation(t)
    BY <2>2 DEF OnIntegrityViolation, TypeOK
  <2>3. QED
    BY <2>1, <2>2 DEF OpRun
<1>2. pc' \in [Threads -> {"idle", "cli", "hash", "insert", "op", "destroying"}]
  BY DEF OpRun, TypeOK
<1>3. QED
  BY <1>1, <1>2 DEF OpRun, TypeOK

(* The call of cryfs_destroy keeps the types.                              *)
LEMMA DestroyCallType ==
    ASSUME TypeOK, NEW t \in Threads, NEW a \in Addrs, DestroyCall(t, a)
    PROVE  TypeOK'
<1>1. stage' \in [Threads -> 1 .. Len(DestroyOrder)]
  BY DestroyOrderFacts DEF DestroyCall, TypeOK
<1>2. QED
  BY <1>1 DEF DestroyCall, TypeOK

(* Each statement of cryfs_destroy keeps the types.                        *)
LEMMA DestroyStepType ==
    ASSUME TypeOK, NEW t \in Threads, DestroyStep(t)
    PROVE  TypeOK'
<1>1. stage' \in [Threads -> 1 .. Len(DestroyOrder)]
  BY DestroyOrderFacts DEF DestroyStep, TypeOK
<1>2. /\ running' \subseteq Objects
      /\ heap' \in [Addrs -> {Free} \cup Objects]
      /\ valid' \subseteq Addrs
  BY DEF DestroyStep, TypeOK
<1>3. QED
  BY <1>1, <1>2 DEF DestroyStep, TypeOK

(* The initial state is well typed.                                        *)
LEMMA InitTypeOK == Init => TypeOK
<1> SUFFICES ASSUME Init PROVE TypeOK
  OBVIOUS
<1>1. 1 \in 1 .. Len(DestroyOrder)
  BY DestroyOrderFacts
<1>2. 0 \in 0 .. MaxMounts
  BY JniConstantsAssumption
<1>3. QED
  BY <1>1, <1>2 DEF Init, TypeOK

(* Every step keeps the types.                                             *)
LEMMA NextTypeOK == TypeOK /\ [Next]_vars => TypeOK'
<1> SUFFICES ASSUME TypeOK, [Next]_vars PROVE TypeOK'
  OBVIOUS
<1>1. CASE UNCHANGED vars
  BY <1>1 DEF vars, TypeOK
<1>2. CASE Next
  <2>1. PICK t \in Threads :
          \/ InitCall(t) \/ InitCli(t) \/ InitHash(t) \/ InitInsert(t)
          \/ \E a \in Addrs : OpCall(t, a) \/ DestroyCall(t, a)
          \/ OpRun(t)
          \/ DestroyStep(t)
    BY <1>2 DEF Next
  <2>2. QED
    BY <2>1, InitCallType, InitCliType, InitHashType, InitInsertType,
       OpCallType, OpRunType, DestroyCallType, DestroyStepType
<1>3. QED
  BY <1>1, <1>2

(* Every reachable state is well typed.                                    *)
THEOREM TypeCorrect == Spec => []TypeOK
BY InitTypeOK, NextTypeOK, PTL DEF Spec

-----------------------------------------------------------------------------
(* cryfs_is_closed is accurate when the app serialises the life cycle.     *)

(* At most one thread is inside cryfs_init or cryfs_destroy.               *)
LifecycleExclusive ==
    \A t, u \in Threads : t # u => ~(InLifecycle(t) /\ InLifecycle(u))

(* A pointer being destroyed is no longer held by Java.                    *)
DestroyingNotHeld ==
    \A t \in Threads : pc[t] = "destroying" => ptr[t] \notin handles

(* The inductive invariant: without the two facts above, an insert of a    *)
(* reused address or an erase of a held one would break IsClosedAccurate.  *)
IInv == TypeOK /\ LifecycleExclusive /\ DestroyingNotHeld /\ IsClosedAccurate

(* The initial state satisfies the inductive invariant.                    *)
LEMMA IInvInit == Init => IInv
<1> SUFFICES ASSUME Init PROVE IInv
  OBVIOUS
<1>1. TypeOK
  BY InitTypeOK
<1>2. LifecycleExclusive /\ DestroyingNotHeld
  BY DEF Init, LifecycleExclusive, DestroyingNotHeld, InLifecycle
<1>3. IsClosedAccurate
  BY DEF Init, IsClosedAccurate, IsClosed
<1>4. QED
  BY <1>1, <1>2, <1>3 DEF IInv

(* The start of cryfs_init: the thread enters the life cycle alone.        *)
LEMMA InitCallIInv ==
    ASSUME LifecycleSerialised, IInv, NEW t \in Threads, InitCall(t)
    PROVE  IInv'
<1>1. TypeOK'
  BY InitCallType DEF IInv
<1>2. \A u \in Threads \ {t} : ~InLifecycle(u)
  BY DEF InitCall, LifecycleFree
<1>3. LifecycleExclusive'
  BY <1>2 DEF InitCall, LifecycleExclusive, InLifecycle, IInv, TypeOK
<1>4. DestroyingNotHeld' /\ IsClosedAccurate'
  BY DEF InitCall, IInv, TypeOK, DestroyingNotHeld, IsClosedAccurate, IsClosed
<1>5. QED
  BY <1>1, <1>3, <1>4 DEF IInv

(* Cli::initFilesystem and the hash copy stay inside the life cycle and    *)
(* touch neither validFusePtrs nor the handles.                            *)
LEMMA InitCliHashIInv ==
    ASSUME IInv, NEW t \in Threads, InitCli(t) \/ InitHash(t)
    PROVE  IInv'
<1>1. TypeOK'
  BY InitCliType, InitHashType DEF IInv
<1>2. /\ pc[t] \in {"cli", "hash"}
      /\ pc'[t] \in {"hash", "insert"}
      /\ \A u \in Threads \ {t} : pc'[u] = pc[u] /\ ptr'[u] = ptr[u]
      /\ UNCHANGED <<valid, handles>>
  BY DEF InitCli, InitHash, NewFuse, IInv, TypeOK
<1>3. LifecycleExclusive'
  BY <1>2 DEF LifecycleExclusive, InLifecycle, IInv
<1>4. DestroyingNotHeld' /\ IsClosedAccurate'
  BY <1>2 DEF IInv, DestroyingNotHeld, IsClosedAccurate, IsClosed
<1>5. QED
  BY <1>1, <1>3, <1>4 DEF IInv

(* The insert of cryfs_init: no destroy runs meanwhile, so the pointer     *)
(* enters validFusePtrs and the handles together.                          *)
LEMMA InitInsertIInv ==
    ASSUME IInv, NEW t \in Threads, InitInsert(t)
    PROVE  IInv'
<1>1. TypeOK'
  BY InitInsertType DEF IInv
<1>2. \A u \in Threads \ {t} : ~InLifecycle(u)
  BY DEF InitInsert, IInv, LifecycleExclusive, InLifecycle
<1>3. LifecycleExclusive'
  BY <1>2 DEF InitInsert, LifecycleExclusive, InLifecycle, IInv, TypeOK
<1>4. DestroyingNotHeld'
  BY <1>2 DEF InitInsert, DestroyingNotHeld, InLifecycle, IInv, TypeOK
<1>5. IsClosedAccurate'
  BY DEF InitInsert, IInv, TypeOK, IsClosedAccurate, IsClosed
<1>6. QED
  BY <1>1, <1>3, <1>4, <1>5 DEF IInv

(* A file operation changes only its own thread, outside the life cycle.   *)
LEMMA OpIInv ==
    ASSUME IInv, NEW t \in Threads,
           (\E a \in Addrs : OpCall(t, a)) \/ OpRun(t)
    PROVE  IInv'
<1>1. TypeOK'
  BY OpCallType, OpRunType DEF IInv
<1>2. /\ pc[t] \in {"idle", "op"} /\ pc'[t] \in {"idle", "op"}
      /\ \A u \in Threads \ {t} : pc'[u] = pc[u] /\ ptr'[u] = ptr[u]
      /\ UNCHANGED <<valid, handles>>
  BY DEF OpCall, OpRun, IInv, TypeOK
<1>3. QED
  BY <1>1, <1>2 DEF IInv, LifecycleExclusive, InLifecycle, DestroyingNotHeld,
                    IsClosedAccurate, IsClosed

(* The call of cryfs_destroy: Java gives up the pointer, which stays in    *)
(* validFusePtrs only as the pointer this thread is destroying.            *)
LEMMA DestroyCallIInv ==
    ASSUME LifecycleSerialised, IInv, NEW t \in Threads, NEW a \in Addrs,
           DestroyCall(t, a)
    PROVE  IInv'
<1>1. TypeOK'
  BY DestroyCallType DEF IInv
<1>2. \A u \in Threads \ {t} : ~InLifecycle(u)
  BY DEF DestroyCall, LifecycleFree
<1>3. LifecycleExclusive'
  BY <1>2 DEF DestroyCall, LifecycleExclusive, InLifecycle, IInv, TypeOK
<1>4. DestroyingNotHeld'
  BY <1>2 DEF DestroyCall, DestroyingNotHeld, InLifecycle, IInv, TypeOK
<1>5. IsClosedAccurate'
  <2> SUFFICES ASSUME NEW b \in Addrs
               PROVE  /\ b \in handles' => ~IsClosed(b)'
                      /\ ~IsClosed(b)' =>
                            \/ b \in handles'
                            \/ \E u \in Threads : pc'[u] = "destroying" /\ ptr'[u] = b
    BY DEF IsClosedAccurate
  <2>1. b \in handles' => ~IsClosed(b)'
    BY DEF DestroyCall, IInv, IsClosedAccurate, IsClosed
  <2>2. CASE b = a
    BY <2>2 DEF DestroyCall, IInv, TypeOK
  <2>3. CASE b # a
    <3>1. \A u \in Threads : pc[u] = "destroying" => u = t
      BY <1>2 DEF InLifecycle
    <3>2. pc[t] # "destroying"
      BY DEF DestroyCall
    <3>3. QED
      BY <2>3, <3>1, <3>2 DEF DestroyCall, IInv, IsClosedAccurate, IsClosed
  <2>4. QED
    BY <2>1, <2>2, <2>3
<1>6. QED
  BY <1>1, <1>3, <1>4, <1>5 DEF IInv

(* A statement of cryfs_destroy: only the erase, the last one, changes     *)
(* validFusePtrs, and it removes the pointer Java no longer holds.         *)
LEMMA DestroyStepIInv ==
    ASSUME IInv, NEW t \in Threads, DestroyStep(t)
    PROVE  IInv'
<1> DEFINE a == ptr[t]
<1>1. TypeOK'
  BY DestroyStepType DEF IInv
<1>2. /\ pc[t] = "destroying"
      /\ stage[t] \in 1 .. 3
      /\ a \notin handles
  BY DestroyOrderFacts DEF DestroyStep, IInv, TypeOK, DestroyingNotHeld
<1>3. /\ \A u \in Threads \ {t} : pc'[u] = pc[u] /\ ptr'[u] = ptr[u]
      /\ ptr'[t] = a
      /\ pc'[t] \in {"idle", "destroying"}
      /\ UNCHANGED handles
  BY DEF DestroyStep, IInv, TypeOK
<1>4. LifecycleExclusive' /\ DestroyingNotHeld'
  BY <1>2, <1>3 DEF LifecycleExclusive, DestroyingNotHeld, InLifecycle, IInv
<1>5. CASE stage[t] \in 1 .. 2
  <2>1. valid' = valid /\ pc'[t] = "destroying"
    BY <1>2, <1>5, DestroyOrderFacts DEF DestroyStep
  <2>2. QED
    BY <1>1, <1>3, <1>4, <2>1 DEF IInv, IsClosedAccurate, IsClosed
<1>6. CASE stage[t] = 3
  <2>1. valid' = valid \ {a} /\ pc'[t] = "idle"
    <3>1. DestroyOrder[stage[t]] = "erase" /\ stage[t] = Len(DestroyOrder)
      BY <1>6, DestroyOrderFacts
    <3>2. QED
      BY <3>1 DEF DestroyStep, IInv, TypeOK
  <2>2. IsClosedAccurate'
    BY <1>2, <1>3, <2>1 DEF IInv, IsClosedAccurate, IsClosed
  <2>3. QED
    BY <1>1, <1>4, <2>2 DEF IInv
<1>7. QED
  BY <1>2, <1>5, <1>6

(* Every step keeps the inductive invariant when the life cycle is         *)
(* serialised.                                                             *)
LEMMA NextIInv ==
    ASSUME LifecycleSerialised, IInv, [Next]_vars
    PROVE  IInv'
<1>1. CASE UNCHANGED vars
  BY <1>1 DEF vars, IInv, TypeOK, LifecycleExclusive, InLifecycle,
              DestroyingNotHeld, IsClosedAccurate, IsClosed
<1>2. CASE Next
  <2>1. PICK t \in Threads :
          \/ InitCall(t) \/ InitCli(t) \/ InitHash(t) \/ InitInsert(t)
          \/ \E a \in Addrs : OpCall(t, a) \/ DestroyCall(t, a)
          \/ OpRun(t)
          \/ DestroyStep(t)
    BY <1>2 DEF Next
  <2>2. QED
    BY <2>1, InitCallIInv, InitCliHashIInv, InitInsertIInv, OpIInv,
       DestroyCallIInv, DestroyStepIInv
<1>3. QED
  BY <1>1, <1>2

(* When the app never runs two cryfs_init/cryfs_destroy calls at once,     *)
(* cryfs_is_closed reports every pointer Java holds as open and reports a  *)
(* pointer as open only while it is held or its cryfs_destroy is running,  *)
(* whatever the file operations on other threads do.                       *)
THEOREM ClosedAccurateWhenSerialised ==
    ASSUME LifecycleSerialised
    PROVE  Spec => []IsClosedAccurate
<1>1. Init => IInv
  BY IInvInit
<1>2. IInv /\ [Next]_vars => IInv'
  BY NextIInv
<1>3. IInv => IsClosedAccurate
  BY DEF IInv
<1>4. QED
  BY <1>1, <1>2, <1>3, PTL DEF Spec

=============================================================================
