----------------------------- MODULE MCBuffer2 -----------------------------
(***************************************************************************)
(* Buffer2 for TLC.  Requests are a quarter of the ring, as main chooses   *)
(* them for a small one, so that each thread makes several per lap and     *)
(* passes its mark in the middle of one; the input is one and a half laps. *)
(***************************************************************************)
EXTENDS Buffer2

\* The initial value of RequestSize, which -r replaces.
NotGiven == -1
=============================================================================
