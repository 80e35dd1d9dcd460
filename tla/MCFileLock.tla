----------------------------- MODULE MCFileLock -----------------------------
(***************************************************************************)
(* FileLock on small instances.  Processes and inode numbers are only      *)
(* compared, so the safety runs use symmetry; the liveness run does not.   *)
(***************************************************************************)
EXTENDS FileLock, TLC

Symmetry == Permutations(Procs) \cup Permutations(Inos)
=============================================================================
