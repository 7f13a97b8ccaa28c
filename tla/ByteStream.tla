----------------------------- MODULE ByteStream -----------------------------
(***************************************************************************)
(* What the interfaces Drain and Source of src/fifo.h promise to the two   *)
(* threads that use them: a bounded stream of bytes that arrive complete   *)
(* and in order, and an end that is reported once nothing is left and is   *)
(* final.  The bytes are numbered 1, 2, ... in the order of their          *)
(* commitment, and a number stands for its byte.                           *)
(***************************************************************************)
EXTENDS Integers, Sequences

CONSTANT Capacity   \* how many committed bytes may wait for the reader

VARIABLES
  in,        \* how many bytes have been committed
  out,       \* the bytes handed to the reader
  reserved,  \* the writer holds a buffer it may still commit
  closed,    \* one side has ended the stream
  ended      \* the reader has been told that the stream is at its end

vars == <<in, out, reserved, closed, ended>>

Init ==
  /\ in = 0
  /\ out = <<>>
  /\ reserved = FALSE
  /\ closed = FALSE
  /\ ended = FALSE

\* RequestWrite grants a buffer: there is room, and nobody ended the stream.
Reserve ==
  /\ ~closed
  /\ ~reserved
  /\ in - Len(out) < Capacity
  /\ reserved' = TRUE
  /\ UNCHANGED <<in, out, closed, ended>>

\* CommitWrite: n more bytes of the stream.
Write(n) ==
  /\ reserved
  /\ in + n - Len(out) <= Capacity
  /\ in' = in + n
  /\ reserved' = FALSE
  /\ UNCHANGED <<out, closed, ended>>

\* The reader takes the next n bytes out of its buffer.
Read(n) ==
  /\ Len(out) + n <= in
  /\ out' = out \o [i \in 1..n |-> Len(out) + i]
  /\ UNCHANGED <<in, reserved, closed, ended>>

\* RequestRead returns a length of zero.
End ==
  /\ closed
  /\ ~reserved
  /\ Len(out) = in
  /\ ended' = TRUE
  /\ UNCHANGED <<in, out, reserved, closed>>

\* EndWrite cancels the outstanding request, EndRead leaves it alone.
CloseWriter == closed' = TRUE /\ reserved' = FALSE /\ UNCHANGED <<in, out, ended>>
CloseReader == closed' = TRUE /\ UNCHANGED <<in, out, reserved, ended>>

Next ==
  \/ Reserve
  \/ \E n \in 0..Capacity : Write(n)
  \/ \E n \in 0..Capacity : Read(n)
  \/ End
  \/ CloseWriter
  \/ CloseReader

Spec == Init /\ [][Next]_vars
=============================================================================
