----------------------------- MODULE FIFOClient -----------------------------
(***************************************************************************)
(* A StaticFIFO between the most general pair of threads that keep to the  *)
(* contract of src/fifo.h: requests of any length, commits of any part of  *)
(* the granted buffer, nothing at all included, and an end at any moment   *)
(* at which the thread is not blocked.  Between a request and its commit   *)
(* the threads access the buffer without the lock.                         *)
(*                                                                         *)
(* The n-th byte of the stream is the number n, so that a byte lost,       *)
(* duplicated, reordered or overwritten shows in what the reader gets.     *)
(***************************************************************************)
EXTENDS StaticFIFO, Sequences

CONSTANTS
  StreamLength,    \* bound: bytes the writer has to offer
  MaxRequest       \* bound: longest request of either thread

ASSUME ClientAssumption == StreamLength \in Nat /\ MaxRequest \in Nat \ {0}

VARIABLES
  Buffer,          \* the bytes in the ring
  accepted,        \* how many bytes were committed so far
  sink,            \* the bytes the reader took
  sawEnd,          \* RequestRead has returned a length of zero
  wphase, rphase   \* what each thread is about to do

vars == <<fifoVars, Buffer, accepted, sink, sawEnd, wphase, rphase>>
streamVars == <<Buffer, accepted, sink, sawEnd>>

\* Not in a request; blocked in one; holding a buffer; done with its bytes;
\* and for the reader, after EndRead.
Phases == {"idle", "requesting", "granted", "moved", "closed"}

\* The phase of a thread whose request has returned, or fallen asleep.
PhaseAfter(wait, len) ==
  IF wait # Running THEN "requesting" ELSE IF len = 0 THEN "idle" ELSE "granted"

Init ==
  /\ FIFOInit
  /\ Buffer = [s \in Slots |-> 0]
  /\ accepted = 0
  /\ sink = <<>>
  /\ sawEnd = FALSE
  /\ wphase = "idle"
  /\ rphase = "idle"
-----------------------------------------------------------------------------
WriterRequests(len) ==
  /\ wphase = "idle"
  /\ RequestWrite(len)
  /\ wphase' = PhaseAfter(NotifyDrain', wlen')
  /\ UNCHANGED <<streamVars, rphase>>

WriterResumes ==
  /\ wphase = "requesting"
  /\ ResumeWrite
  /\ wphase' = PhaseAfter(NotifyDrain', wlen')
  /\ UNCHANGED <<streamVars, rphase>>

\* The writer puts the next k bytes of its stream into the granted buffer.
Store(k) ==
  /\ wphase = "granted"
  /\ k <= wlen
  /\ accepted + k <= StreamLength
  /\ Buffer' = [s \in Slots |-> IF s \in wdata..(wdata + k - 1)
                                THEN accepted + 1 + s - wdata ELSE Buffer[s]]
  /\ wlen' = k
  /\ wphase' = "moved"
  /\ UNCHANGED <<readVars, WrPos, WrReq, FullCount, wdata, Level, EOS,
                 NotifySource, NotifyDrain, accepted, sink, sawEnd, rphase>>

WriterCommits ==
  /\ wphase = "moved"
  /\ CommitWrite(wdata, wlen)
  /\ accepted' = accepted + wlen
  /\ wphase' = "idle"
  /\ UNCHANGED <<Buffer, sink, sawEnd, rphase>>

WriterEnds ==
  /\ wphase # "requesting"
  /\ EndWrite
  /\ wphase' = "idle"
  /\ UNCHANGED <<streamVars, rphase>>
-----------------------------------------------------------------------------
ReaderRequests(len) ==
  /\ rphase = "idle"
  /\ RequestRead(len)
  /\ rphase' = PhaseAfter(NotifySource', rlen')
  /\ sawEnd' = (sawEnd \/ rlen' = 0)
  /\ UNCHANGED <<Buffer, accepted, sink, wphase>>

ReaderResumes ==
  /\ rphase = "requesting"
  /\ ResumeRead
  /\ rphase' = PhaseAfter(NotifySource', rlen')
  /\ sawEnd' = (sawEnd \/ rlen' = 0)
  /\ UNCHANGED <<Buffer, accepted, sink, wphase>>

\* The reader takes the first k bytes of the granted buffer.
Fetch(k) ==
  /\ rphase = "granted"
  /\ k <= rlen
  /\ sink' = sink \o [i \in 1..k |-> Buffer[rdata + i - 1]]
  /\ rlen' = k
  /\ rphase' = "moved"
  /\ UNCHANGED <<writeVars, RdPos, RdReq, EmptyCount, rdata, Level, EOS,
                 NotifySource, NotifyDrain, Buffer, accepted, sawEnd, wphase>>

ReaderCommits ==
  /\ rphase = "moved"
  /\ CommitRead(rdata, rlen)
  /\ rphase' = "idle"
  /\ UNCHANGED <<streamVars, wphase>>

\* "Once you called" EndRead the reader makes no further call.
ReaderEnds ==
  /\ rphase \notin {"requesting", "closed"}
  /\ EndRead
  /\ rphase' = "closed"
  /\ UNCHANGED <<streamVars, wphase>>
-----------------------------------------------------------------------------
SpuriousWake ==
  /\ SpuriousWakeSource \/ SpuriousWakeDrain
  /\ UNCHANGED <<streamVars, wphase, rphase>>

Next ==
  \/ \E len \in 1..MaxRequest : WriterRequests(len)
  \/ WriterResumes
  \/ \E k \in 0..BufferSize : Store(k)
  \/ WriterCommits
  \/ WriterEnds
  \/ \E len \in 1..MaxRequest : ReaderRequests(len)
  \/ ReaderResumes
  \/ \E k \in 0..BufferSize : Fetch(k)
  \/ ReaderCommits
  \/ ReaderEnds
  \/ SpuriousWake

Spec == Init /\ [][Next]_vars
-----------------------------------------------------------------------------
(* Properties *)

\* Every variable stays in its domain: Level never passes below zero or
\* above BufferSize, the positions never leave the ring.
TypeOK ==
  /\ FIFOTypeOK
  /\ Buffer \in [Slots -> Nat]
  /\ accepted \in Nat
  /\ sink \in Seq(Nat)
  /\ sawEnd \in BOOLEAN
  /\ wphase \in Phases \ {"closed"} /\ rphase \in Phases

\* The buffer lent to the writer never shares a slot with committed bytes the
\* reader has not released, and what is lent to the reader is committed:
\* the unlocked accesses of the two threads do not race (CommitWrite,
\* CommitRead and the two requests of src/fifo.cpp).
NoOverlap ==
  /\ WriteRegion \cap UnreadSlots = {}
  /\ ReadRegion \subseteq UnreadSlots

\* The reader gets the bytes in the order of their commitment, none lost,
\* doubled or overwritten while it holds the buffer.
InOrder ==
  /\ Len(sink) <= accepted
  /\ \A i \in 1..Len(sink) : sink[i] = i

\* Whatever the other thread did since the request, the pointer and length
\* a thread got are still good for its commit, and no new request throws:
\* a client that keeps to the contract never sees a logic_error.
LegalCallsSucceed ==
  /\ wphase = "idle" => ~RequestWriteThrows
  /\ wphase = "moved" => ~CommitWriteThrows(wdata, wlen)
  /\ rphase = "idle" => ~RequestReadThrows
  /\ rphase = "moved" => ~CommitReadThrows(rdata, rlen)

\* No wake-up is lost: while a thread sleeps, the event it sleeps for has
\* not happened, and the two threads never sleep at the same time, whatever
\* the water marks are.
NoLostWakeup == SleepersWait /\ NotBothAsleep

\* A reader stopped by an empty buffer goes on at the high water mark or at
\* the end of the stream, a writer stopped by a full buffer at the low water
\* mark or at the end (the options -h and -l of src/buffer2.cpp), unless Wait
\* has returned without a notification.
ResumeStep ==
  /\ NotifySource = Woken /\ NotifySource' = Running => EOS \/ Level >= HighWaterMark
  /\ NotifyDrain = Woken /\ NotifyDrain' = Running => EOS \/ Level <= LowWaterMark
ResumeAtMark == [][ResumeStep]_vars

\* What each phase says of the thread's variables and of its request.
PhaseInv ==
  /\ wphase = "requesting" <=> NotifyDrain # Running
  /\ rphase = "requesting" <=> NotifySource # Running
  /\ wphase \in {"granted", "moved"} => wdata = WrPos /\ wlen <= WrReq
  /\ rphase \in {"granted", "moved"} => rdata = RdPos /\ rlen <= RdReq
  /\ wphase \notin {"granted", "moved"} => WrReq = 0
  /\ rphase \notin {"granted", "moved"} => RdReq = 0
  /\ wphase = "requesting" => wlen > 0
  /\ rphase = "requesting" => rlen > 0
  /\ EOS /\ rphase # "closed" => wphase = "idle"

\* Where the bytes are: taken, in the unread slots, or stored but uncommitted.
Taken == IF rphase = "moved" THEN rlen ELSE 0

ContentInv ==
  /\ Level <= accepted
  /\ \A i \in 0..(Level - 1) : Buffer[Slot(i)] = accepted - Level + 1 + i
  /\ wphase = "moved" =>
       \A i \in 0..(wlen - 1) : Buffer[WrPos + i] = accepted + 1 + i
  /\ accepted - Level <= Len(sink)
  /\ rphase # "closed" => Len(sink) = accepted - Level + Taken

\* The inductive invariant behind the properties above.
ClientInv == TypeOK /\ FIFOInv /\ PhaseInv /\ ContentInv /\ InOrder

\* A thread is notified at its mark or at the end and finds the level still
\* there: only the thread itself could move it back.
WokenAtMark ==
  /\ NotifySource = Woken => EOS \/ Level >= HighWaterMark
  /\ NotifyDrain = Woken => EOS \/ Level <= LowWaterMark

\* The FIFO keeps the promises of its interfaces.
Stream == INSTANCE ByteStream WITH
  Capacity <- BufferSize,
  in       <- accepted,
  out      <- sink,
  reserved <- wphase \in {"granted", "moved"},
  closed   <- EOS,
  ended    <- sawEnd
StreamSpec == Stream!Spec
=============================================================================
