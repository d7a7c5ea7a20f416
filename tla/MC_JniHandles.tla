--------------------------- MODULE MC_JniHandles ---------------------------
(***************************************************************************)
(* Small instance of JniHandles for TLC: two Java threads and two heap     *)
(* addresses, so that a freed address is handed out again.                 *)
(***************************************************************************)
EXTENDS JniHandles

CONSTANTS t1, t2, a1, a2

=============================================================================
