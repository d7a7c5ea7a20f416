-------------------------- MODULE JniMemoryProofs --------------------------
(***************************************************************************)
(* Proof that cryfs_destroy always stops and deletes the Fuse it was       *)
(* given, for every number of threads, addresses and mounts, and whatever  *)
(* the app does: cryfs_init and cryfs_destroy may run concurrently, file   *)
(* operations may still run on the handle, and the basedir may be          *)
(* tampered with so that the integrity callback stops arbitrary objects.   *)
(*                                                                         *)
(* The argument: between `new Fuse` and the insert, and between the call   *)
(* of cryfs_destroy and its delete, a thread owns its address.  An owned   *)
(* address is allocated, Java does not hold it, and no two threads own     *)
(* the same one.  A `new Fuse` takes a free address, so it never lands on  *)
(* an owned one, and a delete frees only the deleting thread's own         *)
(* address.  File operations and the integrity callback change `running`,  *)
(* never the heap.                                                         *)
(***************************************************************************)
EXTENDS JniHandlesProofs

(* Between Cli::initFilesystem's `new Fuse` and the insert of cryfs_init.  *)
Pending(t) == pc[t] \in {"hash", "insert"} /\ ptr[t] # Null

(* Between the call of cryfs_destroy and its `delete fuse`.                *)
Destroying(t) == pc[t] = "destroying" /\ stage[t] \in {1, 2}

(* Thread t owns the address ptr[t].                                       *)
Owns(t) == Pending(t) \/ Destroying(t)

(* Every pointer Java holds is allocated.                                  *)
HeldAllocated == \A a \in handles : heap[a] # Free

(* An owned address is allocated and not held by Java.                     *)
OwnedAllocated ==
    \A t \in Threads :
        Owns(t) => ptr[t] \in Addrs /\ heap[ptr[t]] # Free /\ ptr[t] \notin handles

(* No two threads own the same address.                                    *)
OwnedDistinct ==
    \A t, u \in Threads : t # u /\ Owns(t) /\ Owns(u) => ptr[t] # ptr[u]

(* Until its delete, a cryfs_destroy finds its object at its address.      *)
DestroyingObj ==
    \A t \in Threads : Destroying(t) => heap[ptr[t]] = obj[t] /\ obj[t] # Free

(* The inductive invariant behind DestroyHitsOwnObject.                    *)
DInv == TypeOK /\ HeldAllocated /\ OwnedAllocated /\ OwnedDistinct /\ DestroyingObj

(* The initial state satisfies DInv: no thread owns an address.            *)
LEMMA DInvInit == Init => DInv
<1> SUFFICES ASSUME Init PROVE DInv
  OBVIOUS
<1>1. TypeOK
  BY InitTypeOK
<1>2. \A t \in Threads : ~Owns(t)
  BY DEF Init, Owns, Pending, Destroying
<1>3. QED
  BY <1>1, <1>2 DEF Init, DInv, HeldAllocated, OwnedAllocated, OwnedDistinct,
                    DestroyingObj, Owns

-----------------------------------------------------------------------------
(* A step that leaves the heap and the handles alone and changes no        *)
(* thread's ownership, nor the pointer and object of an owner, keeps DInv. *)
LEMMA QuietDInv ==
    ASSUME DInv, TypeOK', UNCHANGED <<heap, handles>>,
           \A u \in Threads :
              /\ Pending(u)' = Pending(u)
              /\ Destroying(u)' = Destroying(u)
              /\ Owns(u) => ptr'[u] = ptr[u] /\ obj'[u] = obj[u]
    PROVE  DInv'
<1>1. \A u \in Threads : Owns(u)' = Owns(u)
  BY DEF Owns
<1>2. HeldAllocated'
  BY DEF DInv, HeldAllocated
<1>3. OwnedAllocated'
  BY <1>1 DEF DInv, OwnedAllocated
<1>4. OwnedDistinct'
  BY <1>1 DEF DInv, OwnedDistinct
<1>5. DestroyingObj'
  BY DEF DInv, DestroyingObj, Owns
<1>6. QED
  BY <1>2, <1>3, <1>4, <1>5 DEF DInv

(* The start of cryfs_init and the hash copy: no heap change, and the      *)
(* pointer of a pending thread stays.                                      *)
LEMMA InitCallHashDInv ==
    ASSUME DInv, NEW t \in Threads, InitCall(t) \/ InitHash(t)
    PROVE  DInv'
<1>1. TypeOK'
  BY InitCallType, InitHashType DEF DInv
<1>2. \A u \in Threads :
        /\ Pending(u)' = Pending(u)
        /\ Destroying(u)' = Destroying(u)
        /\ Owns(u) => ptr'[u] = ptr[u] /\ obj'[u] = obj[u]
  BY DEF InitCall, InitHash, DInv, TypeOK, Pending, Destroying
<1>3. UNCHANGED <<heap, handles>>
  BY DEF InitCall, InitHash
<1>4. QED
  BY <1>1, <1>2, <1>3, QuietDInv

(* A file operation, and the integrity callback it may run, change only    *)
(* `running` and the calling thread, which owns no address.                *)
LEMMA OpDInv ==
    ASSUME DInv, NEW t \in Threads,
           (\E a \in Addrs : OpCall(t, a)) \/ OpRun(t)
    PROVE  DInv'
<1>1. TypeOK'
  <2>1. CASE \E a \in Addrs : OpCall(t, a)
    BY <2>1, OpCallType DEF DInv
  <2>2. CASE OpRun(t)
    BY <2>2, OpRunType DEF DInv
  <2>3. QED
    BY <2>1, <2>2
<1>2. /\ pc[t] \in {"idle", "op"} /\ pc'[t] \in {"idle", "op"}
      /\ \A u \in Threads \ {t} :
            pc'[u] = pc[u] /\ ptr'[u] = ptr[u] /\ obj'[u] = obj[u]
      /\ UNCHANGED <<heap, handles, stage>>
  BY DEF OpCall, OpRun, DInv, TypeOK
<1>3. \A u \in Threads :
        /\ Pending(u)' = Pending(u)
        /\ Destroying(u)' = Destroying(u)
        /\ Owns(u) => ptr'[u] = ptr[u] /\ obj'[u] = obj[u]
  BY <1>2 DEF Pending, Destroying, Owns
<1>4. QED
  BY <1>1, <1>2, <1>3, QuietDInv

(* Cli::initFilesystem: a new Fuse takes a free address, which no pointer  *)
(* Java holds and no other thread owns; a failed one leaves ptr null.      *)
LEMMA InitCliDInv ==
    ASSUME DInv, NEW t \in Threads, InitCli(t)
    PROVE  DInv'
<1>1. TypeOK'
  BY InitCliType DEF DInv
<1>2. /\ pc[t] = "cli" /\ pc'[t] = "hash"
      /\ \A u \in Threads \ {t} : pc'[u] = pc[u] /\ ptr'[u] = ptr[u]
      /\ UNCHANGED <<handles, obj, stage>>
  BY DEF InitCli, NewFuse, DInv, TypeOK
<1>3. PICK out \in CliOutcomes :
        IF out = "mounted"
        THEN /\ created < MaxMounts
             /\ \E a \in Addrs : heap[a] = Free /\ NewFuse(t, a)
        ELSE /\ ptr' = [ptr EXCEPT ![t] = Null]
             /\ UNCHANGED <<heap, running, created>>
  BY DEF InitCli
<1>4. CASE out = "mounted"
  <2>1. PICK a \in Addrs : heap[a] = Free /\ NewFuse(t, a)
    BY <1>3, <1>4
  <2>2. /\ heap' = [heap EXCEPT ![a] = created + 1]
        /\ ptr'[t] = a
    BY <2>1 DEF NewFuse, DInv, TypeOK
  <2>3. /\ a \notin handles
        /\ \A u \in Threads : Owns(u) => ptr[u] # a
    BY <2>1 DEF DInv, HeldAllocated, OwnedAllocated
  <2>4. /\ \A b \in Addrs \ {a} : heap'[b] = heap[b]
        /\ heap'[a] # Free
    BY <2>2 DEF DInv, TypeOK, Free
  <2>5. \A u \in Threads \ {t} : Owns(u)' = Owns(u) /\ Destroying(u)' = Destroying(u)
    BY <1>2 DEF Owns, Pending, Destroying
  <2>6. ~Owns(t) /\ Owns(t)' /\ ~Destroying(t)'
    BY <1>2, <2>2, JniConstantsAssumption DEF Owns, Pending, Destroying
  <2>7. HeldAllocated'
    BY <1>2, <2>3, <2>4 DEF DInv, HeldAllocated, TypeOK
  <2>8. OwnedAllocated'
    BY <1>2, <2>2, <2>3, <2>4, <2>5, <2>6 DEF DInv, OwnedAllocated
  <2>9. OwnedDistinct'
    BY <1>2, <2>2, <2>3, <2>5, <2>6 DEF DInv, OwnedDistinct
  <2>10. DestroyingObj'
    <3> SUFFICES ASSUME NEW u \in Threads, Destroying(u)'
                 PROVE  heap'[ptr'[u]] = obj'[u] /\ obj'[u] # Free
      BY DEF DestroyingObj
    <3>1. u # t /\ Destroying(u) /\ ptr'[u] = ptr[u] /\ obj'[u] = obj[u]
      BY <1>2, <2>5, <2>6
    <3>2. ptr[u] \in Addrs \ {a}
      BY <2>3, <3>1 DEF DInv, OwnedAllocated, Owns
    <3>3. QED
      BY <2>4, <3>1, <3>2 DEF DInv, DestroyingObj
  <2>11. QED
    BY <1>1, <2>7, <2>8, <2>9, <2>10 DEF DInv
<1>5. CASE out # "mounted"
  <2>1. ptr'[t] = Null /\ UNCHANGED heap
    BY <1>3, <1>5 DEF DInv, TypeOK
  <2>2. \A u \in Threads :
          /\ Pending(u)' = Pending(u)
          /\ Destroying(u)' = Destroying(u)
          /\ Owns(u) => ptr'[u] = ptr[u] /\ obj'[u] = obj[u]
    BY <1>2, <2>1 DEF Pending, Destroying, Owns
  <2>3. QED
    BY <1>1, <1>2, <2>1, <2>2, QuietDInv
<1>6. QED
  BY <1>4, <1>5

(* The insert of cryfs_init hands Java the address the thread owned.       *)
LEMMA InitInsertDInv ==
    ASSUME DInv, NEW t \in Threads, InitInsert(t)
    PROVE  DInv'
<1>1. TypeOK'
  BY InitInsertType DEF DInv
<1>2. /\ pc[t] = "insert" /\ pc'[t] = "idle"
      /\ \A u \in Threads \ {t} : pc'[u] = pc[u]
      /\ UNCHANGED <<heap, ptr, obj, stage>>
      /\ handles' = IF ptr[t] # Null THEN handles \cup {ptr[t]} ELSE handles
  BY DEF InitInsert, DInv, TypeOK
<1>3. \A u \in Threads \ {t} : Owns(u)' = Owns(u)
  BY <1>2 DEF Owns, Pending, Destroying
<1>4. ~Owns(t)'
  BY <1>2 DEF Owns, Pending, Destroying
<1>5. ptr[t] # Null => /\ heap[ptr[t]] # Free
                       /\ \A u \in Threads \ {t} : Owns(u) => ptr[u] # ptr[t]
  BY <1>2 DEF DInv, OwnedAllocated, OwnedDistinct, Owns, Pending
<1>6. HeldAllocated'
  BY <1>2, <1>5 DEF DInv, HeldAllocated
<1>7. OwnedAllocated'
  BY <1>2, <1>3, <1>4, <1>5 DEF DInv, OwnedAllocated
<1>8. OwnedDistinct'
  BY <1>2, <1>3, <1>4 DEF DInv, OwnedDistinct
<1>9. DestroyingObj'
  BY <1>2, <1>4 DEF DInv, DestroyingObj, Owns, Destroying
<1>10. QED
  BY <1>1, <1>6, <1>7, <1>8, <1>9 DEF DInv

(* The call of cryfs_destroy takes from Java a held, hence allocated and   *)
(* unowned, address, and remembers the object living there.                *)
LEMMA DestroyCallDInv ==
    ASSUME DInv, NEW t \in Threads, NEW a \in Addrs, DestroyCall(t, a)
    PROVE  DInv'
<1>1. TypeOK'
  BY DestroyCallType DEF DInv
<1>2. /\ pc[t] = "idle" /\ pc'[t] = "destroying" /\ stage'[t] = 1
      /\ ptr'[t] = a /\ obj'[t] = heap[a] /\ a \in handles
      /\ handles' = handles \ {a}
      /\ \A u \in Threads \ {t} :
            pc'[u] = pc[u] /\ ptr'[u] = ptr[u] /\ obj'[u] = obj[u]
            /\ stage'[u] = stage[u]
      /\ UNCHANGED heap
  BY DEF DestroyCall, DInv, TypeOK
<1>3. \A u \in Threads \ {t} : Owns(u)' = Owns(u) /\ Destroying(u)' = Destroying(u)
  BY <1>2 DEF Owns, Pending, Destroying
<1>4. ~Owns(t) /\ Destroying(t)' /\ Owns(t)'
  BY <1>2 DEF Owns, Pending, Destroying
<1>5. /\ heap[a] # Free
      /\ \A u \in Threads : Owns(u) => ptr[u] # a
  BY <1>2 DEF DInv, HeldAllocated, OwnedAllocated
<1>6. HeldAllocated'
  BY <1>2 DEF DInv, HeldAllocated
<1>7. OwnedAllocated'
  BY <1>2, <1>3, <1>4, <1>5 DEF DInv, OwnedAllocated
<1>8. OwnedDistinct'
  BY <1>2, <1>3, <1>4, <1>5 DEF DInv, OwnedDistinct
<1>9. DestroyingObj'
  <2> SUFFICES ASSUME NEW u \in Threads, Destroying(u)'
               PROVE  heap'[ptr'[u]] = obj'[u] /\ obj'[u] # Free
    BY DEF DestroyingObj
  <2>1. CASE u = t
    BY <1>2, <1>5, <2>1
  <2>2. CASE u # t
    BY <1>2, <1>3, <2>2 DEF DInv, DestroyingObj
  <2>3. QED
    BY <2>1, <2>2
<1>10. QED
  BY <1>1, <1>6, <1>7, <1>8, <1>9 DEF DInv

(* A statement of cryfs_destroy: Fuse::destroy and the erase leave the     *)
(* heap alone; delete frees the thread's own address, which nobody else    *)
(* owns and Java does not hold.                                            *)
LEMMA DestroyStepDInv ==
    ASSUME DInv, NEW t \in Threads, DestroyStep(t)
    PROVE  DInv'
<1> DEFINE a == ptr[t]
<1>1. TypeOK'
  BY DestroyStepType DEF DInv
<1>2. /\ pc[t] = "destroying" /\ stage[t] \in 1 .. 3
      /\ pc'[t] \in {"idle", "destroying"}
      /\ \A u \in Threads \ {t} : pc'[u] = pc[u] /\ stage'[u] = stage[u]
      /\ UNCHANGED <<handles, ptr, obj>>
  BY DestroyOrderFacts DEF DestroyStep, DInv, TypeOK
<1>3. \A u \in Threads \ {t} :
        /\ Owns(u)' = Owns(u)
        /\ Pending(u)' = Pending(u)
        /\ Destroying(u)' = Destroying(u)
  BY <1>2 DEF Owns, Pending, Destroying
<1>4. ~Pending(t) /\ ~Pending(t)'
  BY <1>2 DEF Pending
<1>5. CASE stage[t] \in {1, 3}
  <2>1. DestroyOrder[stage[t]] \in {"destroy", "erase"}
    BY <1>5, DestroyOrderFacts
  <2>2. UNCHANGED heap
    BY <2>1 DEF DestroyStep
  <2>3. Destroying(t)' = Destroying(t)
    <3>1. CASE stage[t] = 1
      <4>1. stage[t] # Len(DestroyOrder)
        BY <3>1, DestroyOrderFacts
      <4>2. pc'[t] = "destroying" /\ stage'[t] = 2
        BY <1>2, <3>1, <4>1 DEF DestroyStep, DInv, TypeOK
      <4>3. QED
        BY <1>2, <3>1, <4>2 DEF Destroying
    <3>2. CASE stage[t] = 3
      <4>1. stage[t] = Len(DestroyOrder)
        BY <3>2, DestroyOrderFacts
      <4>2. pc'[t] = "idle"
        BY <1>2, <4>1 DEF DestroyStep, DInv, TypeOK
      <4>3. QED
        BY <3>2, <4>2 DEF Destroying
    <3>3. QED
      BY <1>5, <3>1, <3>2
  <2>4. \A u \in Threads :
          /\ Pending(u)' = Pending(u)
          /\ Destroying(u)' = Destroying(u)
          /\ Owns(u) => ptr'[u] = ptr[u] /\ obj'[u] = obj[u]
    <3> SUFFICES ASSUME NEW u \in Threads
                 PROVE  /\ Pending(u)' = Pending(u)
                        /\ Destroying(u)' = Destroying(u)
                        /\ Owns(u) => ptr'[u] = ptr[u] /\ obj'[u] = obj[u]
      OBVIOUS
    <3>1. ptr'[u] = ptr[u] /\ obj'[u] = obj[u]
      BY <1>2
    <3>2. CASE u = t
      BY <1>2, <1>4, <2>3, <3>1, <3>2 DEF Pending, Destroying, Owns
    <3>3. CASE u # t
      BY <1>3, <3>1, <3>3
    <3>4. QED
      BY <3>2, <3>3
  <2>5. QED
    BY <1>1, <1>2, <2>2, <2>4, QuietDInv
<1>6. CASE stage[t] = 2
  <2>1. DestroyOrder[stage[t]] = "delete" /\ stage[t] # Len(DestroyOrder)
    BY <1>6, DestroyOrderFacts
  <2>2. /\ heap' = [heap EXCEPT ![a] = Free]
        /\ pc'[t] = "destroying" /\ stage'[t] = 3
    BY <1>2, <1>6, <2>1 DEF DestroyStep, DInv, TypeOK
  <2>3. Owns(t) /\ ~Owns(t)'
    BY <1>2, <1>4, <1>6, <2>2 DEF Owns, Destroying
  <2>4. /\ a \in Addrs /\ a \notin handles
        /\ \A u \in Threads \ {t} : Owns(u) => ptr[u] # a
    BY <2>3 DEF DInv, OwnedAllocated, OwnedDistinct
  <2>5. \A b \in Addrs \ {a} : heap'[b] = heap[b]
    BY <2>2
  <2>6. HeldAllocated'
    BY <1>2, <2>4, <2>5 DEF DInv, HeldAllocated, TypeOK
  <2>7. OwnedAllocated'
    BY <1>2, <1>3, <2>3, <2>4, <2>5 DEF DInv, OwnedAllocated
  <2>8. OwnedDistinct'
    BY <1>2, <1>3, <2>3 DEF DInv, OwnedDistinct
  <2>9. DestroyingObj'
    <3> SUFFICES ASSUME NEW u \in Threads, Destroying(u)'
                 PROVE  heap'[ptr'[u]] = obj'[u] /\ obj'[u] # Free
      BY DEF DestroyingObj
    <3>1. u # t /\ Destroying(u) /\ ptr'[u] = ptr[u] /\ obj'[u] = obj[u]
      BY <1>2, <1>3, <2>3 DEF Owns
    <3>2. ptr[u] \in Addrs \ {a}
      BY <2>4, <3>1 DEF DInv, OwnedAllocated, Owns
    <3>3. QED
      BY <2>5, <3>1, <3>2 DEF DInv, DestroyingObj
  <2>10. QED
    BY <1>1, <2>6, <2>7, <2>8, <2>9 DEF DInv
<1>7. QED
  BY <1>2, <1>5, <1>6

(* Every step keeps DInv, whatever the app's discipline.                   *)
LEMMA NextDInv ==
    ASSUME DInv, [Next]_vars
    PROVE  DInv'
<1>1. CASE UNCHANGED vars
  BY <1>1 DEF vars, DInv, TypeOK, HeldAllocated, OwnedAllocated, OwnedDistinct,
              DestroyingObj, Owns, Pending, Destroying
<1>2. CASE Next
  <2>1. PICK t \in Threads :
          \/ InitCall(t) \/ InitCli(t) \/ InitHash(t) \/ InitInsert(t)
          \/ \E a \in Addrs : OpCall(t, a) \/ DestroyCall(t, a)
          \/ OpRun(t)
          \/ DestroyStep(t)
    BY <1>2 DEF Next
  <2>2. QED
    BY <2>1, InitCallHashDInv, InitCliDInv, InitInsertDInv, OpDInv,
       DestroyCallDInv, DestroyStepDInv
<1>3. QED
  BY <1>1, <1>2

(* DInv gives DestroyHitsOwnObject: the destroy and delete statements are  *)
(* the first two stages, where the thread owns its address.                *)
LEMMA DInvSafe ==
    ASSUME DInv
    PROVE  DestroyHitsOwnObject
<1>1. \A t \in Threads :
        DestroyOrder[stage[t]] \in {"destroy", "delete"} => stage[t] \in {1, 2}
  BY DestroyOrderFacts DEF DInv, TypeOK
<1>2. QED
  BY <1>1 DEF DInv, DestroyingObj, Destroying, DestroyHitsOwnObject

(* cryfs_destroy runs Fuse::destroy and delete on the Fuse it was given,   *)
(* never on a freed address or on a newer Fuse that a concurrent           *)
(* cryfs_init put at the same address, for every number of threads,        *)
(* addresses and mounts, even when the app runs cryfs_init and             *)
(* cryfs_destroy concurrently, destroys a handle other calls still use,    *)
(* and the basedir is tampered with.                                       *)
THEOREM DestroyHitsOwnObjectAlways == Spec => []DestroyHitsOwnObject
<1>1. Init => DInv
  BY DInvInit
<1>2. DInv /\ [Next]_vars => DInv'
  BY NextDInv
<1>3. DInv => DestroyHitsOwnObject
  BY DInvSafe
<1>4. QED
  BY <1>1, <1>2, <1>3, PTL DEF Spec

=============================================================================
