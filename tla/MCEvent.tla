------------------------------- MODULE MCEvent -------------------------------
(***************************************************************************)
(* Event for TLC.  With three threads two can sleep while the third sets,  *)
(* or one sets and another resets while the third wakes up.  No counter    *)
(* has to be bounded: the calls go on forever.                             *)
(***************************************************************************)
EXTENDS Event
=============================================================================
