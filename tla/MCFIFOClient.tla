---------------------------- MODULE MCFIFOClient ----------------------------
(***************************************************************************)
(* FIFOClient for TLC.  A ring of four bytes holds every relation of the   *)
(* two positions: equal and empty, equal and full, the free part wrapped   *)
(* and the filled part wrapped, with room for a request shorter than       *)
(* either.  The stream is longer than the ring, so that slots are reused.  *)
(***************************************************************************)
EXTENDS FIFOClient
=============================================================================
