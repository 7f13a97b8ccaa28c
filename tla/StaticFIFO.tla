----------------------------- MODULE StaticFIFO -----------------------------
(***************************************************************************)
(* The class StaticFIFO of src/fifo.h and src/fifo.cpp: a ring buffer      *)
(* between one writing thread (interface Drain) and one reading thread     *)
(* (interface Source).  The module holds the state of one instance and one *)
(* operator per member function; modules that use a FIFO conjoin these     *)
(* operators with the steps of their threads.                              *)
(*                                                                         *)
(* Every member function runs under StateLock from its first access of the *)
(* state to its return, except that Notification::Wait gives the lock up   *)
(* while the thread sleeps.  One operator is therefore one critical        *)
(* section: a whole call, or a call up to the moment its thread falls      *)
(* asleep, or the rest of such a call from the wake-up on.                 *)
(*                                                                         *)
(* A pointer into the buffer is its distance from BufferBegin.             *)
(*                                                                         *)
(* Definitions marked MUTANT are plausible mistakes in the definition that *)
(* follows them.  Nothing refers to them: they serve to show that each     *)
(* checked property would notice.                                          *)
(***************************************************************************)
EXTENDS Integers

CONSTANTS
  BufferSize,      \* bytes in the ring
  LowWaterMark,    \* level at which a sleeping writer is notified
  HighWaterMark,   \* level at which a sleeping reader is notified
  UnsignedSize,    \* number of values of an unsigned (the statistics wrap)
  SpuriousWakeups  \* may Notification::Wait return without a notification?

ASSUME FIFOAssumption ==
  /\ BufferSize \in Nat \ {0}
  /\ LowWaterMark \in 0..BufferSize
  /\ HighWaterMark \in 0..BufferSize
  /\ UnsignedSize \in Nat \ {0}
  /\ SpuriousWakeups \in BOOLEAN

VARIABLES
  RdPos, WrPos,    \* committed read and write positions
  Level,           \* committed fill level
  RdReq, WrReq,    \* sizes of the outstanding requests, 0 if there is none
  EOS,             \* end of stream
  EmptyCount,      \* Stat: how often a reader found the buffer empty
  FullCount,       \* Stat: how often a writer found the buffer full
  NotifySource,    \* state of the reading thread with respect to Wait
  NotifyDrain,     \* state of the writing thread with respect to Wait
  rdata, rlen,     \* reader's variables, passed to RequestRead by reference
  wdata, wlen      \* writer's variables, passed to RequestWrite by reference

readVars  == <<RdPos, RdReq, EmptyCount, rdata, rlen>>
writeVars == <<WrPos, WrReq, FullCount, wdata, wlen>>
fifoVars  == <<readVars, writeVars, Level, EOS, NotifySource, NotifyDrain>>

Slots == 0..(BufferSize - 1)

\* A thread is not in Wait; sleeps in Wait; was notified and needs the lock; or
\* needs it because Wait returns without a notification.
Running == "running"
Asleep  == "asleep"
Woken   == "woken"
Stray   == "stray"

WaitStates == {Running, Asleep, Woken, Stray}

Least(a, b) == IF a <= b THEN a ELSE b

\* ++ on an unsigned, and a position moved past len bytes of the ring.
Increment(n)    == IF n + 1 = UnsignedSize THEN 0 ELSE n + 1
\* MUTANT of Advance: no return to BufferBegin.
AdvancePastEnd(p, len) == p + len
Advance(p, len) == IF p + len = BufferSize THEN 0 ELSE p + len

\* Notification::NotifyAll wakes whoever sleeps and is lost on the others.
NotifyAll(n) == IF n = Asleep THEN Woken ELSE n
-----------------------------------------------------------------------------
\* The constructor; the two argument pairs are not yet initialized.
FIFOInit ==
  /\ RdPos = 0 /\ WrPos = 0 /\ Level = 0
  /\ RdReq = 0 /\ WrReq = 0
  /\ EOS = FALSE
  /\ EmptyCount = 0 /\ FullCount = 0
  /\ NotifySource = Running /\ NotifyDrain = Running
  /\ rdata = 0 /\ rlen = 0 /\ wdata = 0 /\ wlen = 0
-----------------------------------------------------------------------------
(* Drain *)

\* RequestWrite refuses a second request before it takes the lock.
RequestWriteThrows == WrReq # 0

\* MUTANT of WriteRefused: a full buffer is reported as the end.
WriteRefusedWhenFull ==
  /\ EOS \/ Level = BufferSize
  /\ wlen' = 0
  /\ NotifyDrain' = Running
  /\ UNCHANGED <<readVars, WrPos, WrReq, FullCount, wdata, Level, EOS, NotifySource>>

WriteRefused ==
  /\ EOS
  /\ wlen' = 0
  /\ NotifyDrain' = Running
  /\ UNCHANGED <<readVars, WrPos, WrReq, FullCount, wdata, Level, EOS, NotifySource>>

\* MUTANTS of WriteGranted: the fill level or the end of stream is ignored.
WriteGrantedPastReader(len) ==
  /\ ~EOS
  /\ Level < BufferSize
  /\ wlen' = Least(len, BufferSize - WrPos)
  /\ WrReq' = wlen'
  /\ wdata' = WrPos
  /\ NotifyDrain' = Running
  /\ UNCHANGED <<readVars, WrPos, FullCount, Level, EOS, NotifySource>>
WriteGrantedAfterEnd(len) ==
  /\ Level < BufferSize
  /\ wlen' = Least(len, Least(BufferSize - Level, BufferSize - WrPos))
  /\ WrReq' = wlen'
  /\ wdata' = WrPos
  /\ NotifyDrain' = Running
  /\ UNCHANGED <<readVars, WrPos, FullCount, Level, EOS, NotifySource>>

WriteGranted(len) ==
  /\ ~EOS
  /\ Level < BufferSize
  /\ wlen' = Least(len, Least(BufferSize - Level, BufferSize - WrPos))
  /\ WrReq' = wlen'
  /\ wdata' = WrPos
  /\ NotifyDrain' = Running
  /\ UNCHANGED <<readVars, WrPos, FullCount, Level, EOS, NotifySource>>

WriteBlocks(len) ==
  /\ ~EOS
  /\ Level = BufferSize
  /\ FullCount' = Increment(FullCount)
  /\ wlen' = len
  /\ NotifyDrain' = Asleep
  /\ UNCHANGED <<readVars, WrPos, WrReq, wdata, Level, EOS, NotifySource>>

\* One turn of the do loop.
WriteTurn(len) == WriteRefused \/ WriteGranted(len) \/ WriteBlocks(len)

RequestWrite(len) == NotifyDrain = Running /\ ~RequestWriteThrows /\ WriteTurn(len)

\* Wait has returned to the loop with the lock held again.
ResumeWrite == NotifyDrain \in {Woken, Stray} /\ WriteTurn(wlen)

CommitWriteThrows(data, len) == data # WrPos \/ len > WrReq

\* MUTANTS of CommitWrite: the requested length counts instead of the committed
\* one; the reader is notified above the mark only, always, or never.
CommitWriteRequested(data, len) ==
  /\ ~CommitWriteThrows(data, len)
  /\ WrReq' = 0
  /\ WrPos' = Advance(WrPos, WrReq)
  /\ Level' = Level + WrReq
  /\ NotifySource' = IF Level' >= HighWaterMark THEN NotifyAll(NotifySource)
                                                ELSE NotifySource
  /\ UNCHANGED <<readVars, FullCount, wdata, wlen, EOS, NotifyDrain>>
CommitWriteNotifying(data, len, condition) ==
  /\ ~CommitWriteThrows(data, len)
  /\ WrReq' = 0
  /\ WrPos' = Advance(WrPos, len)
  /\ Level' = Level + len
  /\ NotifySource' = IF condition THEN NotifyAll(NotifySource) ELSE NotifySource
  /\ UNCHANGED <<readVars, FullCount, wdata, wlen, EOS, NotifyDrain>>
CommitWriteAboveMark(data, len) ==
  CommitWriteNotifying(data, len, Level + len > HighWaterMark)
CommitWriteAnyLevel(data, len) == CommitWriteNotifying(data, len, TRUE)
CommitWriteSilent(data, len) == CommitWriteNotifying(data, len, FALSE)

CommitWrite(data, len) ==
  /\ ~CommitWriteThrows(data, len)
  /\ WrReq' = 0
  /\ WrPos' = Advance(WrPos, len)
  /\ Level' = Level + len
  /\ NotifySource' = IF Level' >= HighWaterMark THEN NotifyAll(NotifySource)
                                                ELSE NotifySource
  /\ UNCHANGED <<readVars, FullCount, wdata, wlen, EOS, NotifyDrain>>

\* MUTANT of EndWrite: the end marker is not set.
EndWriteUnmarked ==
  /\ WrReq' = 0
  /\ NotifySource' = NotifyAll(NotifySource)
  /\ UNCHANGED <<readVars, WrPos, FullCount, wdata, wlen, Level, EOS, NotifyDrain>>

EndWrite ==
  /\ EOS' = TRUE
  /\ WrReq' = 0
  /\ NotifySource' = NotifyAll(NotifySource)
  /\ UNCHANGED <<readVars, WrPos, FullCount, wdata, wlen, Level, NotifyDrain>>
-----------------------------------------------------------------------------
(* Source *)

RequestReadThrows == RdReq # 0

ReadGranted(len) ==
  /\ Level > 0
  /\ rlen' = Least(len, Least(Level, BufferSize - RdPos))
  /\ RdReq' = rlen'
  /\ rdata' = RdPos
  /\ NotifySource' = Running
  /\ UNCHANGED <<writeVars, RdPos, EmptyCount, Level, EOS, NotifyDrain>>

\* MUTANT of ReadAtEnd: the end of stream is tested before the level.
ReadAtEndEarly ==
  /\ EOS
  /\ rlen' = 0
  /\ NotifySource' = Running
  /\ UNCHANGED <<writeVars, RdPos, RdReq, EmptyCount, rdata, Level, EOS, NotifyDrain>>

ReadAtEnd ==
  /\ Level = 0
  /\ EOS
  /\ rlen' = 0
  /\ NotifySource' = Running
  /\ UNCHANGED <<writeVars, RdPos, RdReq, EmptyCount, rdata, Level, EOS, NotifyDrain>>

ReadBlocks(len) ==
  /\ Level = 0
  /\ ~EOS
  /\ EmptyCount' = Increment(EmptyCount)
  /\ rlen' = len
  /\ NotifySource' = Asleep
  /\ UNCHANGED <<writeVars, RdPos, RdReq, rdata, Level, EOS, NotifyDrain>>

ReadTurn(len) == ReadGranted(len) \/ ReadAtEnd \/ ReadBlocks(len)

RequestRead(len) == NotifySource = Running /\ ~RequestReadThrows /\ ReadTurn(len)

ResumeRead == NotifySource \in {Woken, Stray} /\ ReadTurn(rlen)

CommitReadThrows(data, len) == data # RdPos \/ len > RdReq

\* MUTANTS of CommitRead: the request stays outstanding; the writer is notified
\* below the mark only, or never.
CommitReadUnreleased(data, len) ==
  /\ ~CommitReadThrows(data, len)
  /\ RdPos' = Advance(RdPos, len)
  /\ Level' = Level - len
  /\ NotifyDrain' = IF Level' <= LowWaterMark THEN NotifyAll(NotifyDrain)
                                              ELSE NotifyDrain
  /\ UNCHANGED <<writeVars, RdReq, EmptyCount, rdata, rlen, EOS, NotifySource>>
CommitReadNotifying(data, len, condition) ==
  /\ ~CommitReadThrows(data, len)
  /\ RdReq' = 0
  /\ RdPos' = Advance(RdPos, len)
  /\ Level' = Level - len
  /\ NotifyDrain' = IF condition THEN NotifyAll(NotifyDrain) ELSE NotifyDrain
  /\ UNCHANGED <<writeVars, EmptyCount, rdata, rlen, EOS, NotifySource>>
CommitReadBelowMark(data, len) ==
  CommitReadNotifying(data, len, Level - len < LowWaterMark)
CommitReadSilent(data, len) == CommitReadNotifying(data, len, FALSE)

CommitRead(data, len) ==
  /\ ~CommitReadThrows(data, len)
  /\ RdReq' = 0
  /\ RdPos' = Advance(RdPos, len)
  /\ Level' = Level - len
  /\ NotifyDrain' = IF Level' <= LowWaterMark THEN NotifyAll(NotifyDrain)
                                              ELSE NotifyDrain
  /\ UNCHANGED <<writeVars, EmptyCount, rdata, rlen, EOS, NotifySource>>

\* MUTANT of EndRead: a writer asleep on a full buffer is not notified.
EndReadSilent ==
  /\ EOS' = TRUE
  /\ RdReq' = 0
  /\ UNCHANGED <<writeVars, RdPos, EmptyCount, rdata, rlen, Level, NotifySource,
                 NotifyDrain>>

EndRead ==
  /\ EOS' = TRUE
  /\ RdReq' = 0
  /\ NotifyDrain' = NotifyAll(NotifyDrain)
  /\ UNCHANGED <<writeVars, RdPos, EmptyCount, rdata, rlen, Level, NotifySource>>
-----------------------------------------------------------------------------
\* pthread_cond_wait may return although nobody notified the condition.
SpuriousWakeSource ==
  /\ SpuriousWakeups
  /\ NotifySource = Asleep
  /\ NotifySource' = Stray
  /\ UNCHANGED <<readVars, writeVars, Level, EOS, NotifyDrain>>

SpuriousWakeDrain ==
  /\ SpuriousWakeups
  /\ NotifyDrain = Asleep
  /\ NotifyDrain' = Stray
  /\ UNCHANGED <<readVars, writeVars, Level, EOS, NotifySource>>
-----------------------------------------------------------------------------
(* Parts of the ring, and the invariant that ties the state together. *)

\* The i-th slot behind the read position.
Slot(i) == IF RdPos + i < BufferSize THEN RdPos + i ELSE RdPos + i - BufferSize

UnreadSlots == {Slot(i) : i \in 0..(Level - 1)}
ReadRegion  == RdPos..(RdPos + RdReq - 1)
WriteRegion == WrPos..(WrPos + WrReq - 1)

FIFOTypeOK ==
  /\ RdPos \in Slots /\ WrPos \in Slots /\ rdata \in Slots /\ wdata \in Slots
  /\ Level \in 0..BufferSize /\ RdReq \in 0..BufferSize /\ WrReq \in 0..BufferSize
  /\ EOS \in BOOLEAN
  /\ EmptyCount \in 0..(UnsignedSize - 1) /\ FullCount \in 0..(UnsignedSize - 1)
  /\ NotifySource \in WaitStates /\ NotifyDrain \in WaitStates
  /\ rlen \in Nat /\ wlen \in Nat

\* The write position is where the committed bytes end.
PositionsAgree == WrPos = Slot(Level)

\* Outstanding requests fit: the writer's in the free part, the reader's in
\* the filled part, both without wrapping around.
RequestsFit ==
  /\ WrReq <= BufferSize - Level /\ WrReq <= BufferSize - WrPos
  /\ RdReq <= Level /\ RdReq <= BufferSize - RdPos

\* A thread that sleeps waits for something that has not happened yet.
SleepersWait ==
  /\ NotifySource = Asleep => ~EOS /\ (Level = 0 \/ Level < HighWaterMark)
  /\ NotifyDrain = Asleep => ~EOS /\ (Level = BufferSize \/ Level > LowWaterMark)
  /\ NotifySource # Running => RdReq = 0
  /\ NotifyDrain # Running => WrReq = 0

\* Reader and writer never sleep at the same time.
NotBothAsleep == ~(NotifySource = Asleep /\ NotifyDrain = Asleep)

FIFOInv ==
  FIFOTypeOK /\ PositionsAgree /\ RequestsFit /\ SleepersWait /\ NotBothAsleep
=============================================================================
