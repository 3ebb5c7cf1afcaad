---------------------------- MODULE MCInstallLock ----------------------------
(***************************************************************************)
(* Small instances of InstallLock.  Runs and inodes are interchangeable.   *)
(***************************************************************************)
EXTENDS InstallLock, TLC

Symmetry == Permutations(Run) \union Permutations(Inode)

===============================================================================
