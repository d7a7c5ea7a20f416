----------------------------- MODULE JniHandles -----------------------------
(***************************************************************************)
(* The life of a Fuse object handed to Java by libcryfs-jni: cryfs_init    *)
(* builds it through Cli::initFilesystem and records the pointer in the    *)
(* global set validFusePtrs; the file operations call into it; and         *)
(* cryfs_destroy runs Fuse::destroy, deletes it and erases the pointer;    *)
(* cryfs_is_closed asks the set.                                           *)
(*                                                                         *)
(* Java threads call these functions concurrently.  Each statement that    *)
(* touches shared state is a step of its own; one JNI call is a sequence   *)
(* of steps of one thread, tracked by pc.  The heap is a map from          *)
(* addresses to the Fuse object living there: a freed address can be       *)
(* handed out again by the next `new Fuse`.                                *)
(***************************************************************************)
EXTENDS Naturals, Sequences

CONSTANTS
    Threads,                 \* Java threads calling into the library
    Addrs,                   \* heap addresses a Fuse object can get
    Null,                    \* the null pointer, jlong 0
    MaxMounts,               \* bound on Fuse objects ever created
    LifecycleSerialised,     \* the app never runs two init/destroy calls at once
    OpsDrainedBeforeDestroy, \* the app destroys a handle only when no call on it runs
    BasedirTampered          \* blocks of a mounted basedir are removed or rolled back

ASSUME JniConstantsAssumption ==
    /\ Null \notin Addrs
    /\ MaxMounts \in Nat
    /\ LifecycleSerialised \in BOOLEAN
    /\ OpsDrainedBeforeDestroy \in BOOLEAN
    /\ BasedirTampered \in BOOLEAN

(* Fuse objects are numbered in creation order; 0 marks a free address.   *)
Objects == 1 .. MaxMounts
Free == 0

VARIABLES
    heap,        \* heap[a]: the Fuse object at address a, or Free
    running,     \* objects whose _fs is their FilesystemImpl (Fuse::init ran,
                 \* Fuse::destroy not yet); the FilesystemImpl lives exactly then
    valid,       \* validFusePtrs
    handles,     \* pointers Java holds as open: returned by cryfs_init and
                 \* not yet passed to cryfs_destroy
    created,     \* number of Fuse objects created so far
    pc,          \* pc[t]: where thread t is
    ptr,         \* ptr[t]: the Fuse* of t's current call, or Null
    obj,         \* obj[t]: the object t's call means (the one at ptr[t] when it began)
    gotFs,       \* gotFs[t]: the operation of t dereferenced a live FilesystemImpl
    stage,       \* stage[t]: index into DestroyOrder of t's cryfs_destroy
    withPw,      \* withPw[t]: t's cryfs_init got a password (returnedHash is wired)
    hash,        \* hash[t]: the SizedData returnedHash of t's cryfs_init
    report       \* report[t]: what t's last cryfs_init told Java, or Null

vars == <<heap, running, valid, handles, created, pc, ptr, obj, gotFs, stage,
          withPw, hash, report>>

-----------------------------------------------------------------------------
(* Cli::initFilesystem, as seen from the JNI layer: it fails before any    *)
(* key is derived (_sanityChecks), fails after the key provider wrote the  *)
(* returned hash (_loadOrCreateConfig, CryDevice, _sanityCheckFilesystem), *)
(* or mounts.  Every exception is caught inside and becomes nullptr.       *)
CliOutcomes == {"sanityFailed", "loadFailed", "mounted"}

(* Mutant: cryfs_destroy without the erase from validFusePtrs.           *)
DestroyOrderNoErase == <<"destroy", "delete">>

(* Mutant: cryfs_destroy deletes the Fuse before calling destroy on it.    *)
DestroyOrderDeleteFirst == <<"delete", "destroy", "erase">>

(* What cryfs_destroy does, in order: Fuse::destroy, delete, erase.        *)
DestroyOrder == <<"destroy", "delete", "erase">>

(* A JNI call that starts or ends a filesystem is in progress on thread u. *)
InLifecycle(u) == pc[u] \in {"cli", "hash", "insert", "destroying"}

(* Guard of the app: another lifecycle call waits for the running one.     *)
LifecycleFree(t) ==
    LifecycleSerialised => \A u \in Threads \ {t} : ~InLifecycle(u)

Init ==
    /\ heap = [a \in Addrs |-> Free]
    /\ running = {}
    /\ valid = {}
    /\ handles = {}
    /\ created = 0
    /\ pc = [t \in Threads |-> "idle"]
    /\ ptr = [t \in Threads |-> Null]
    /\ obj = [t \in Threads |-> Free]
    /\ gotFs = [t \in Threads |-> FALSE]
    /\ stage = [t \in Threads |-> 1]
    /\ withPw = [t \in Threads |-> FALSE]
    /\ hash = [t \in Threads |-> "uninit"]
    /\ report = [t \in Threads |-> Null]

-----------------------------------------------------------------------------
(* cryfs_init, lines up to the Cli call: the credentials are set up; with  *)
(* a password, credentials.returnedHash points at the uninitialised local  *)
(* struct returnedHash.                                                    *)
InitCall(t) ==
    /\ pc[t] = "idle"
    /\ LifecycleFree(t)
    /\ \E pw \in BOOLEAN :
        /\ withPw' = [withPw EXCEPT ![t] = pw]
        /\ hash' = [hash EXCEPT ![t] = "uninit"]
    /\ pc' = [pc EXCEPT ![t] = "cli"]
    /\ UNCHANGED <<heap, running, valid, handles, created, ptr, obj, gotFs,
                   stage, report>>

(* `new Fuse(initFilesystem)` at the free address a, then Fuse::init: _fs, *)
(* an InvalidFilesystem at construction, becomes the new FilesystemImpl.   *)
NewFuse(t, a) ==
    /\ heap' = [heap EXCEPT ![a] = created + 1]
    /\ ptr' = [ptr EXCEPT ![t] = a]
    /\ running' = running \cup {created + 1}
    /\ created' = created + 1

(* Cli::initFilesystem returns: on success `new Fuse` takes a free address *)
(* and Fuse::init points _fs at the new FilesystemImpl; the password-based *)
(* key provider has written returnedHash once a key was derived.           *)
InitCli(t) ==
    /\ pc[t] = "cli"
    /\ \E out \in CliOutcomes :
        /\ hash' = IF out # "sanityFailed" /\ withPw[t]
                   THEN [hash EXCEPT ![t] = "keybuf"] ELSE hash
        /\ IF out = "mounted"
           THEN /\ created < MaxMounts
                /\ \E a \in Addrs : heap[a] = Free /\ NewFuse(t, a)
           ELSE /\ ptr' = [ptr EXCEPT ![t] = Null]
                /\ UNCHANGED <<heap, running, created>>
    /\ pc' = [pc EXCEPT ![t] = "hash"]
    /\ UNCHANGED <<valid, handles, obj, gotFs, stage, withPw, report>>

(* cryfs_init: the CryfsException handler that would set jerrorCode is    *)
(* never reached; the password hash is copied to Java and delete[]d       *)
(* whenever credentials.returnedHash is set.                               *)
InitHash(t) ==
    /\ pc[t] = "hash"
    /\ pc' = [pc EXCEPT ![t] = "insert"]
    /\ UNCHANGED <<heap, running, valid, handles, created, ptr, obj, gotFs,
                   stage, withPw, hash, report>>

(* Mutant: the null check before the insert dropped.                      *)
InitInsertNoNullCheck(t) ==
    /\ pc[t] = "insert"
    /\ valid' = valid \cup {ptr[t]}
    /\ handles' = IF ptr[t] # Null THEN handles \cup {ptr[t]} ELSE handles
    /\ report' = [report EXCEPT ![t] = [ptr |-> ptr[t], errorSet |-> FALSE]]
    /\ pc' = [pc EXCEPT ![t] = "idle"]
    /\ UNCHANGED <<heap, running, created, ptr, obj, gotFs, stage, withPw, hash>>

(* cryfs_init: a non-null pointer is inserted into validFusePtrs and       *)
(* returned; the error code object is left as it was.                      *)
InitInsert(t) ==
    /\ pc[t] = "insert"
    /\ valid' = IF ptr[t] # Null THEN valid \cup {ptr[t]} ELSE valid
    /\ handles' = IF ptr[t] # Null THEN handles \cup {ptr[t]} ELSE handles
    /\ report' = [report EXCEPT ![t] = [ptr |-> ptr[t], errorSet |-> FALSE]]
    /\ pc' = [pc EXCEPT ![t] = "idle"]
    /\ UNCHANGED <<heap, running, created, ptr, obj, gotFs, stage, withPw, hash>>

-----------------------------------------------------------------------------
(* A file operation (cryfs_create, cryfs_read, ..., cryfs_rename) on a     *)
(* handle Java holds: the wrapper casts the jlong back to Fuse* and the    *)
(* Fuse handler evaluates _fs->op(...), dereferencing whatever _fs points  *)
(* to at that moment.                                                      *)
OpCall(t, a) ==
    /\ pc[t] = "idle"
    /\ a \in handles
    /\ pc' = [pc EXCEPT ![t] = "op"]
    /\ ptr' = [ptr EXCEPT ![t] = a]
    /\ obj' = [obj EXCEPT ![t] = heap[a]]
    /\ gotFs' = [gotFs EXCEPT ![t] = heap[a] \in running]
    /\ UNCHANGED <<heap, running, valid, handles, created, stage, withPw,
                   hash, report>>

(* The onIntegrityViolation lambda of Cli::initFilesystem, called by the   *)
(* CryDevice of a mount that finds a block missing or rolled back (the JNI *)
(* path passes allowIntegrityViolations = false).  It reads `fuse` through *)
(* a reference to a local of initFilesystem, whose frame is gone once      *)
(* cryfs_init returned: the slot holds whatever was written there last,    *)
(* null (the lambda throws CryfsException, which the handler turns into    *)
(* -EIO) or some address, on which it calls Fuse::destroy.                 *)
OnIntegrityViolation(t) ==
    \E slot \in Addrs \cup {Null} :
        running' = IF slot = Null THEN running ELSE running \ {heap[slot]}

(* One step of a file-operation handler: it returns 0, -errno or -EIO      *)
(* (InvalidFilesystem throws on every call) without changing shared state, *)
(* or, on a live filesystem over a tampered basedir, CryDevice runs the    *)
(* integrity callback and the handler goes on inside the FilesystemImpl.   *)
OpRun(t) ==
    /\ pc[t] = "op"
    /\ \/ /\ pc' = [pc EXCEPT ![t] = "idle"]
          /\ UNCHANGED running
       \/ /\ BasedirTampered /\ gotFs[t]
          /\ OnIntegrityViolation(t)
          /\ UNCHANGED pc
    /\ UNCHANGED <<heap, valid, handles, created, ptr, obj, gotFs,
                   stage, withPw, hash, report>>

-----------------------------------------------------------------------------
(* cryfs_is_closed: the pointer is not in validFusePtrs.                  *)
IsClosed(a) == a \notin valid

(* Guard of the app: no call of another thread is running on handle a.     *)
Drained(t, a) ==
    OpsDrainedBeforeDestroy => \A u \in Threads \ {t} : ~(pc[u] = "op" /\ ptr[u] = a)

(* cryfs_destroy(fusePtr) on a handle Java holds and gives up.             *)
DestroyCall(t, a) ==
    /\ pc[t] = "idle"
    /\ a \in handles
    /\ LifecycleFree(t)
    /\ Drained(t, a)
    /\ handles' = handles \ {a}
    /\ pc' = [pc EXCEPT ![t] = "destroying"]
    /\ ptr' = [ptr EXCEPT ![t] = a]
    /\ obj' = [obj EXCEPT ![t] = heap[a]]
    /\ stage' = [stage EXCEPT ![t] = 1]
    /\ UNCHANGED <<heap, running, valid, created, gotFs, withPw, hash, report>>

(* One statement of cryfs_destroy, on whatever object lives at the address *)
(* now: Fuse::destroy swaps _fs for an InvalidFilesystem, which frees the  *)
(* FilesystemImpl; `delete fuse` frees the address; erase drops it from    *)
(* validFusePtrs.                                                          *)
DestroyStep(t) ==
    LET a == ptr[t]
        s == DestroyOrder[stage[t]]
    IN
    /\ pc[t] = "destroying"
    /\ running' = IF s = "destroy" THEN running \ {heap[a]} ELSE running
    /\ heap' = IF s = "delete" THEN [heap EXCEPT ![a] = Free] ELSE heap
    /\ valid' = IF s = "erase" THEN valid \ {a} ELSE valid
    /\ IF stage[t] = Len(DestroyOrder)
       THEN /\ pc' = [pc EXCEPT ![t] = "idle"]
            /\ stage' = [stage EXCEPT ![t] = 1]
       ELSE /\ stage' = [stage EXCEPT ![t] = @ + 1]
            /\ UNCHANGED pc
    /\ UNCHANGED <<handles, created, ptr, obj, gotFs, withPw, hash, report>>

-----------------------------------------------------------------------------
Next ==
    \E t \in Threads :
        \/ InitCall(t) \/ InitCli(t) \/ InitHash(t) \/ InitInsert(t)
        \/ \E a \in Addrs : OpCall(t, a) \/ DestroyCall(t, a)
        \/ OpRun(t)
        \/ DestroyStep(t)

Spec == Init /\ [][Next]_vars

-----------------------------------------------------------------------------
(* Properties                                                              *)

(* Every variable holds a value of its type.                               *)
TypeOK ==
    /\ heap \in [Addrs -> {Free} \cup Objects]
    /\ running \subseteq Objects
    /\ valid \subseteq Addrs
    /\ handles \subseteq Addrs
    /\ created \in 0 .. MaxMounts
    /\ pc \in [Threads -> {"idle", "cli", "hash", "insert", "op", "destroying"}]
    /\ ptr \in [Threads -> Addrs \cup {Null}]
    /\ obj \in [Threads -> {Free} \cup Objects]
    /\ gotFs \in [Threads -> BOOLEAN]
    /\ stage \in [Threads -> 1 .. Len(DestroyOrder)]
    /\ withPw \in [Threads -> BOOLEAN]
    /\ hash \in [Threads -> {"uninit", "keybuf"}]
    /\ report \in [Threads -> {Null} \cup [ptr: Addrs \cup {Null}, errorSet: BOOLEAN]]

(* cryfs_is_closed tells the truth: a pointer Java holds and has not       *)
(* passed to cryfs_destroy reads as open, and a pointer reads as open only *)
(* while Java holds it or a cryfs_destroy of it has not yet returned.      *)
IsClosedAccurate ==
    \A a \in Addrs :
        /\ a \in handles => ~IsClosed(a)
        /\ ~IsClosed(a) =>
              a \in handles \/ \E t \in Threads : pc[t] = "destroying" /\ ptr[t] = a

(* No JNI call touches a freed object: a file operation that dereferenced  *)
(* the FilesystemImpl of a Fuse finds it still alive, and cryfs_destroy    *)
(* runs Fuse::destroy and delete on the object it was given, not on a      *)
(* freed address or on a newer Fuse that reuses it.                        *)
NoUseAfterFree ==
    /\ \A t \in Threads : pc[t] = "op" /\ gotFs[t] => obj[t] \in running
    /\ \A t \in Threads :
          pc[t] = "destroying" /\ DestroyOrder[stage[t]] \in {"destroy", "delete"}
          => heap[ptr[t]] = obj[t]

(* cryfs_destroy stops and deletes the Fuse it was given (libcryfs-jni.cpp *)
(* destroy, then delete): until its delete the address still holds that   *)
(* live object, not a freed slot or a newer Fuse a concurrent cryfs_init  *)
(* put there, whatever file operations or integrity callbacks run.        *)
DestroyHitsOwnObject ==
    \A t \in Threads :
        pc[t] = "destroying" /\ DestroyOrder[stage[t]] \in {"destroy", "delete"}
        => heap[ptr[t]] = obj[t] /\ obj[t] # Free

(* Spec section 7: the caller sees exactly one error per failed load; a    *)
(* cryfs_init that returns the null pointer has set the error code.        *)
InitFailureReported ==
    \A t \in Threads : report[t] # Null /\ report[t].ptr = Null => report[t].errorSet

(* setReturnedPasswordHash reads the returnedHash struct only after the    *)
(* key provider has written it.                                            *)
ReturnedHashInitialised ==
    \A t \in Threads : pc[t] = "hash" /\ withPw[t] => hash[t] # "uninit"

-----------------------------------------------------------------------------
(* The registry the app sees: validFusePtrs is the set of open handles and *)
(* the pointers Java holds are the held ones.                              *)
Registry == INSTANCE JniRegistry WITH open <- valid, held <- handles

(* cryfs_init, cryfs_destroy and cryfs_is_closed implement the registry:   *)
(* every insert into validFusePtrs adds a pointer that is not in it yet    *)
(* (std::set::insert is never a no-op), and every erase removes a pointer  *)
(* that is in it and that Java has given up.                               *)
RegistrySpec == Registry!Spec

=============================================================================
