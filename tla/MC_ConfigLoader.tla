-------------------------- MODULE MC_ConfigLoader --------------------------
(***************************************************************************)
(* Small instance of ConfigLoader for TLC.  Format versions are numbered   *)
(* in order: 1 = 0.9.3, 2 = 0.9.4 (oldest supported), 3 = 0.9.6, 4 = 0.9.7 *)
(* (a release version written as format), 5 = the current format,         *)
(* 6 = a newer format.                                                     *)
(***************************************************************************)
EXTENDS ConfigLoader

CONSTANTS m1, f1, k1, s1, p1, c1, c2

InitDescriptor(c, v, e) ==
    [fsId |-> f1, key |-> k1, cipher |-> c, version |-> v,
     lastOpened |-> OtherBuild, excl |-> e, pw |-> p1, salt |-> s1]

(* The basedir is empty, or holds a descriptor another program version     *)
(* created: the current format with either cipher, in single-client mode  *)
(* pinned to the first client id of m1,                                    *)
(* and one format version for each branch of _checkVersion.                *)
MCInitFiles ==
    {None} \cup
    {InitDescriptor(c1, v, None) : v \in {1, 2, 4, 5, 6}} \cup
    {InitDescriptor(c2, 5, None), InitDescriptor(c1, 5, <<m1, 1>>)}

(* Two machines and one filesystem in single-client mode: the basedir is  *)
(* empty, or holds the descriptor pinned to m1's first client id.          *)
MCInitFilesSingle == {None, InitDescriptor(c1, 5, <<m1, 1>>)}

(* What cryfs_init passes in ProgramOptions: an optional cipher, no        *)
(* integrity option, no upgrade, no replaced filesystem.                   *)
CipherAny == {None, c1, c2}
MissingBlockUnset == {None}
FlagOff == {FALSE}

(* What Cli::initFilesystem accepts from the other ProgramOptions.         *)
CipherUnset == {None}
MissingBlockAny == {None, TRUE, FALSE}
FlagAny == {FALSE, TRUE}

=============================================================================
