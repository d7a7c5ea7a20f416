----------------------------- MODULE JniRegistry -----------------------------
(***************************************************************************)
(* What the handle API of libcryfs-jni promises the app, with no threads,  *)
(* heap or Fuse objects: a handle is opened by cryfs_init, given up by     *)
(* cryfs_destroy, and then closed; cryfs_is_closed(h) is h \notin open.    *)
(*                                                                         *)
(*   open  -- the handles cryfs_is_closed reports as open                  *)
(*   held  -- the handles the app holds and may pass to file operations    *)
(*                                                                         *)
(* A handle is opened only when it is not open already, so the app never  *)
(* gets a handle still registered for an earlier mount; it is closed only  *)
(* after the app gave it up, so a handle in use never reads as closed.     *)
(***************************************************************************)
CONSTANTS Addrs

VARIABLES open, held

Init ==
    /\ open = {}
    /\ held = {}

(* cryfs_init returns a new handle, and it reads as open.                  *)
Mount(h) ==
    /\ h \notin open
    /\ open' = open \cup {h}
    /\ held' = held \cup {h}

(* cryfs_destroy is called: the app no longer holds the handle.           *)
GiveUp(h) ==
    /\ h \in held
    /\ held' = held \ {h}
    /\ UNCHANGED open

(* cryfs_destroy has taken effect: the handle reads as closed.             *)
Close(h) ==
    /\ h \in open \ held
    /\ open' = open \ {h}
    /\ UNCHANGED held

Next == \E h \in Addrs : Mount(h) \/ GiveUp(h) \/ Close(h)

Spec == Init /\ [][Next]_<<open, held>>

=============================================================================
