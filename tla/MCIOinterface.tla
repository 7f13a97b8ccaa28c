--------------------------- MODULE MCIOinterface ---------------------------
(***************************************************************************)
(* IOinterface for TLC.  Every pair of objects is an initial state.  Two   *)
(* servers that have both accepted hold four descriptors at once; with     *)
(* three besides the standard ones the table can also be full.             *)
(***************************************************************************)
EXTENDS IOinterface
=============================================================================
