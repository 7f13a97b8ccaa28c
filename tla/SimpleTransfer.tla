--------------------------- MODULE SimpleTransfer ---------------------------
(***************************************************************************)
(* SimpleDrain::write and SimpleSource::read of src/fifo.cpp: two threads  *)
(* that copy blocks of their own into and out of a StaticFIFO instead of   *)
(* working in its buffer.  Each action is a step of FIFOClient, taken on   *)
(* the terms of the two loops, conjoined with the loops' variables and     *)
(* with what their callers learn from the results.                         *)
(***************************************************************************)
EXTENDS FIFOClient

VARIABLES
  wleft, rleft,    \* len of the write and of the read in progress, 0 if none
  olen,            \* the len that read was called with
  wtotal, rtotal   \* bytes written and read as their callers count them

writeCall  == <<wleft, wtotal>>
readCall   == <<rleft, olen, rtotal>>
simpleVars == <<vars, writeCall, readCall>>

SimpleInit ==
  /\ Init
  /\ wleft = 0 /\ rleft = 0 /\ olen = 0 /\ wtotal = 0 /\ rtotal = 0
-----------------------------------------------------------------------------
(* SimpleDrain *)

\* The user offers n bytes.  A length of zero returns at once.
WriteCall(n) ==
  /\ wleft = 0
  /\ accepted + n <= StreamLength
  /\ wleft' = n
  /\ wtotal' = wtotal + n
  /\ UNCHANGED <<vars, readCall>>

\* The request has returned, or fallen asleep; without a buffer write returns
\* the number of bytes not written.
DrainTurn ==
  /\ IF NotifyDrain' = Running /\ wlen' = 0
     THEN wleft' = 0 /\ wtotal' = wtotal - wleft
     ELSE UNCHANGED writeCall
  /\ UNCHANGED readCall

DrainRequests == wleft > 0 /\ WriterRequests(wleft) /\ DrainTurn
DrainResumes  == WriterResumes /\ DrainTurn

\* memcpy(dst, src, blen)
DrainCopies == Store(wlen) /\ UNCHANGED <<writeCall, readCall>>

DrainCommits ==
  /\ WriterCommits
  /\ wleft' = wleft - wlen
  /\ UNCHANGED <<wtotal, readCall>>

DrainEnds == wleft = 0 /\ WriterEnds /\ UNCHANGED <<writeCall, readCall>>

Drains == DrainRequests \/ DrainResumes \/ DrainCopies \/ DrainCommits
-----------------------------------------------------------------------------
(* SimpleSource *)

ReadCall(n) ==
  /\ rleft = 0
  /\ rphase = "idle"
  /\ rleft' = n
  /\ olen' = n
  /\ UNCHANGED <<vars, writeCall, rtotal>>

\* MUTANT of ReadResult: the number of bytes missing is returned.
BytesMissing(len) == len

\* What read returns when len bytes are still to be read.
ReadResult(len) == olen - len

ReadReturns(len) == rleft' = 0 /\ rtotal' = rtotal + ReadResult(len)

SourceTurn ==
  /\ IF NotifySource' = Running /\ rlen' = 0
     THEN ReadReturns(rleft) ELSE UNCHANGED <<rleft, rtotal>>
  /\ UNCHANGED <<olen, writeCall>>

\* MUTANT of SourceAsks: every turn of the loop asks for the whole length.
SourceAsksAgain == olen
SourceAsks == rleft

SourceRequests == rleft > 0 /\ ReaderRequests(SourceAsks) /\ SourceTurn
SourceResumes  == ReaderResumes /\ SourceTurn

SourceCopies == Fetch(rlen) /\ UNCHANGED <<writeCall, readCall>>

SourceCommits ==
  /\ ReaderCommits
  /\ IF rleft = rlen THEN ReadReturns(0) ELSE rleft' = rleft - rlen /\ rtotal' = rtotal
  /\ UNCHANGED <<olen, writeCall>>

\* SimpleSource has no EndRead: the user calls the one of its Source.
SourceEnds == rleft = 0 /\ ReaderEnds /\ UNCHANGED <<writeCall, readCall>>

Sources == SourceRequests \/ SourceResumes \/ SourceCopies \/ SourceCommits
-----------------------------------------------------------------------------
SimpleNext ==
  \/ \E n \in 1..MaxRequest : WriteCall(n)
  \/ Drains
  \/ DrainEnds
  \/ \E n \in 1..MaxRequest : ReadCall(n)
  \/ Sources
  \/ SourceEnds
  \/ SpuriousWake /\ UNCHANGED <<writeCall, readCall>>

SimpleSpec == SimpleInit /\ [][SimpleNext]_simpleVars

\* Threads are scheduled, and both users go on calling until they end.
Fairness ==
  /\ WF_simpleVars(Drains) /\ WF_simpleVars(Sources)
  /\ WF_simpleVars(DrainEnds \/ \E n \in 1..MaxRequest : WriteCall(n))
  /\ WF_simpleVars(SourceEnds \/ \E n \in 1..MaxRequest : ReadCall(n))
FairSpec == SimpleSpec /\ Fairness
-----------------------------------------------------------------------------
(* Properties *)

\* The rest of a transfer never passes below zero or above what the call was
\* given, and the buffer lent to it is never longer than that rest.
SimpleTypeOK ==
  /\ wleft \in 0..MaxRequest /\ rleft \in 0..olen /\ olen \in 0..MaxRequest
  /\ wtotal \in Nat /\ rtotal \in Nat
  /\ wphase # "idle" => wlen <= wleft
  /\ rphase \in {"requesting", "granted", "moved"} => rlen <= rleft

\* Between two calls the callers have counted exactly the bytes that went
\* through the FIFO, also after calls that were cut short: the results of
\* write and of read in src/fifo.cpp add up.
ResultsAddUp ==
  /\ wleft = 0 => wtotal = accepted
  /\ rleft = 0 /\ rphase # "closed" => rtotal = Len(sink)

\* "This will never be less than len until the end of the input stream is
\* reached ... and the fifo is empty": a read cut short has everything that was
\* written before the end, a write cut short has met the end.
CutShortStep ==
  /\ wtotal' < wtotal => EOS
  /\ rleft > 0 /\ rleft' = 0 /\ rphase # "moved" => EOS /\ Len(sink) = accepted
CutShortOnlyAtEnd == [][CutShortStep]_simpleVars

\* However small the ring is against the blocks, and with the water marks at
\* its ends: every write and every read returns.
CallsReturn == (wleft > 0 ~> wleft = 0) /\ (rleft > 0 ~> rleft = 0)

\* What relates the loops' variables to FIFOClient's state: the length a thread
\* has asked for, and where the bytes of the transfer in progress are counted.
SimpleInv ==
  /\ wleft \in 0..MaxRequest /\ rleft \in 0..olen /\ olen \in 0..MaxRequest
  /\ wtotal \in Nat /\ rtotal \in Nat
  /\ wphase = "requesting" => wlen = wleft
  /\ wphase \in {"granted", "moved"} => WrReq <= wleft
  /\ rphase = "requesting" => rlen = rleft
  /\ rphase \in {"granted", "moved"} => rleft > 0 /\ rlen = RdReq /\ RdReq <= rleft
  /\ rphase = "closed" => rleft = 0
  /\ wtotal = accepted + wleft
  /\ rphase # "closed" =>
       Len(sink) = rtotal + Taken + (IF rleft = 0 THEN 0 ELSE olen - rleft)
=============================================================================
