--------------------------- MODULE MCSmartPointers ---------------------------
(***************************************************************************)
(* SmartPointers for TLC.  Two objects let a pointer replace one by the    *)
(* other; two own_ptrs, two ref_ptrs and a sgl_own_ptr let an object go    *)
(* from each class to each other that accepts it, and be shared.           *)
(***************************************************************************)
EXTENDS SmartPointers, TLC

Symmetry == Permutations(Objects) \cup Permutations(OwnPtrs) \cup Permutations(RefPtrs)
=============================================================================
