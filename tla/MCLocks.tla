------------------------------- MODULE MCLocks -------------------------------
(***************************************************************************)
(* Locks for TLC.  Three threads compete, so that a release lets one of    *)
(* two blocked threads in; three Lock objects let one thread nest two and  *)
(* mix them with direct requests.  Threads and objects are                 *)
(* interchangeable.                                                        *)
(***************************************************************************)
EXTENDS Locks, TLC

Symmetry == Permutations(Threads) \cup Permutations(LockObjects)
=============================================================================
