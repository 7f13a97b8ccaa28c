-------------------------- MODULE MCSimpleTransfer --------------------------
(***************************************************************************)
(* SimpleTransfer for TLC.  Blocks are longer than the ring, so that one   *)
(* call takes several turns of its loop and sleeps between them; the water *)
(* marks are at the ends of the ring, where every wake-up is a close call. *)
(***************************************************************************)
EXTENDS SimpleTransfer
=============================================================================
