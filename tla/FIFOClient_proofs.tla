-------------------------- MODULE FIFOClient_proofs --------------------------
(***************************************************************************)
(* The properties of FIFOClient for every buffer size, every pair of water *)
(* marks and every bound.  ClientInv is inductive: one lemma per action,   *)
(* in each of them one step per part of the invariant.                     *)
(***************************************************************************)
EXTENDS FIFOClient, SequenceTheorems, TLAPS
-----------------------------------------------------------------------------
(* Each member function of StaticFIFO preserves FIFOInv, for every buffer size *)
(* and every pair of water marks.  These lemmas are about its operators alone. *)

\* The constructor establishes the invariant.
LEMMA FIFOInitInv == FIFOInit => FIFOInv
<1> SUFFICES ASSUME FIFOInit PROVE FIFOInv
  OBVIOUS
<1>1. EOS \in BOOLEAN
  BY Zenon DEF FIFOInit
<1>2. FIFOTypeOK
  BY <1>1, FIFOAssumption DEF FIFOInit, FIFOTypeOK, Slots, WaitStates
<1>3. PositionsAgree /\ RequestsFit /\ SleepersWait /\ NotBothAsleep
  BY FIFOAssumption
  DEF FIFOInit, PositionsAgree, RequestsFit, SleepersWait, NotBothAsleep, Slot,
      Running, Asleep
<1> QED BY <1>2, <1>3 DEF FIFOInv

\* The invariant does not depend on anything but the FIFO's variables.
LEMMA FIFOStutter == FIFOInv /\ UNCHANGED fifoVars => FIFOInv'
  BY DEF FIFOInv, FIFOTypeOK, PositionsAgree, RequestsFit, SleepersWait,
         NotBothAsleep, Slot, Slots, fifoVars, readVars, writeVars

\* One turn of the loop in RequestWrite, by a thread that is not asleep.
LEMMA WriteTurnInv ==
  ASSUME FIFOInv, NEW len \in Nat, WriteTurn(len), NotifyDrain # Asleep, WrReq = 0
  PROVE  FIFOInv'
<1> USE FIFOAssumption
    DEF FIFOInv, FIFOTypeOK, PositionsAgree, RequestsFit, SleepersWait,
        NotBothAsleep, Slot, Slots, WaitStates, Running, Asleep, Woken, Stray,
        readVars, writeVars
<1>1. CASE WriteRefused
  BY <1>1 DEF WriteRefused
<1>2. CASE WriteGranted(len)
  BY <1>2 DEF WriteGranted, Least
<1>3. CASE WriteBlocks(len)
  BY <1>3 DEF WriteBlocks, Increment
<1> QED BY <1>1, <1>2, <1>3 DEF WriteTurn

LEMMA RequestWriteInv ==
  ASSUME FIFOInv, NEW len \in Nat, RequestWrite(len)
  PROVE  FIFOInv'
  BY WriteTurnInv DEF RequestWrite, RequestWriteThrows, Running, Asleep

LEMMA ResumeWriteInv ==
  ASSUME FIFOInv, ResumeWrite
  PROVE  FIFOInv'
<1>1. wlen \in Nat /\ WrReq = 0
  BY DEF FIFOInv, FIFOTypeOK, SleepersWait, ResumeWrite, Woken, Stray, Running
<1> QED BY <1>1, WriteTurnInv DEF ResumeWrite, Woken, Stray, Asleep

LEMMA CommitWriteInv ==
  ASSUME FIFOInv, NEW data, NEW len \in Nat, CommitWrite(data, len)
  PROVE  FIFOInv'
  BY FIFOAssumption
  DEF CommitWrite, CommitWriteThrows, Advance, NotifyAll, FIFOInv, FIFOTypeOK,
      PositionsAgree, RequestsFit, SleepersWait, NotBothAsleep, Slot, Slots,
      WaitStates, Running, Asleep, Woken, Stray, readVars

LEMMA EndWriteInv ==
  ASSUME FIFOInv, EndWrite, NotifyDrain = Running
  PROVE  FIFOInv'
  BY FIFOAssumption
  DEF EndWrite, NotifyAll, FIFOInv, FIFOTypeOK, PositionsAgree, RequestsFit,
      SleepersWait, NotBothAsleep, Slot, Slots, WaitStates, Running, Asleep,
      Woken, Stray, readVars

\* The same for the reading side.
LEMMA ReadTurnInv ==
  ASSUME FIFOInv, NEW len \in Nat, ReadTurn(len), NotifySource # Asleep, RdReq = 0
  PROVE  FIFOInv'
<1> USE FIFOAssumption
    DEF FIFOInv, FIFOTypeOK, PositionsAgree, RequestsFit, SleepersWait,
        NotBothAsleep, Slot, Slots, WaitStates, Running, Asleep, Woken, Stray,
        readVars, writeVars
<1>1. CASE ReadGranted(len)
  BY <1>1 DEF ReadGranted, Least
<1>2. CASE ReadAtEnd
  BY <1>2 DEF ReadAtEnd
<1>3. CASE ReadBlocks(len)
  BY <1>3 DEF ReadBlocks, Increment
<1> QED BY <1>1, <1>2, <1>3 DEF ReadTurn

LEMMA RequestReadInv ==
  ASSUME FIFOInv, NEW len \in Nat, RequestRead(len)
  PROVE  FIFOInv'
  BY ReadTurnInv DEF RequestRead, RequestReadThrows, Running, Asleep

LEMMA ResumeReadInv ==
  ASSUME FIFOInv, ResumeRead
  PROVE  FIFOInv'
<1>1. rlen \in Nat /\ RdReq = 0
  BY DEF FIFOInv, FIFOTypeOK, SleepersWait, ResumeRead, Woken, Stray, Running
<1> QED BY <1>1, ReadTurnInv DEF ResumeRead, Woken, Stray, Asleep

LEMMA CommitReadInv ==
  ASSUME FIFOInv, NEW data, NEW len \in Nat, CommitRead(data, len)
  PROVE  FIFOInv'
  BY FIFOAssumption
  DEF CommitRead, CommitReadThrows, Advance, NotifyAll, FIFOInv, FIFOTypeOK,
      PositionsAgree, RequestsFit, SleepersWait, NotBothAsleep, Slot, Slots,
      WaitStates, Running, Asleep, Woken, Stray, writeVars

LEMMA EndReadInv ==
  ASSUME FIFOInv, EndRead, NotifySource = Running
  PROVE  FIFOInv'
  BY FIFOAssumption
  DEF EndRead, NotifyAll, FIFOInv, FIFOTypeOK, PositionsAgree, RequestsFit,
      SleepersWait, NotBothAsleep, Slot, Slots, WaitStates, Running, Asleep,
      Woken, Stray, writeVars

LEMMA SpuriousWakeInv ==
  ASSUME FIFOInv, SpuriousWakeSource \/ SpuriousWakeDrain
  PROVE  FIFOInv'
  BY FIFOAssumption
  DEF SpuriousWakeSource, SpuriousWakeDrain, FIFOInv, FIFOTypeOK, PositionsAgree,
      RequestsFit, SleepersWait, NotBothAsleep, Slot, Slots, WaitStates,
      Running, Asleep, Woken, Stray, readVars, writeVars

\* The buffers lent to the two threads do not overlap: what is committed ends
\* where the writer's buffer begins, and the rest of the ring is behind it.
LEMMA RegionsDisjoint ==
  ASSUME FIFOInv
  PROVE  /\ WriteRegion \cap UnreadSlots = {}
         /\ ReadRegion \subseteq UnreadSlots
<1> USE FIFOAssumption
    DEF FIFOInv, FIFOTypeOK, PositionsAgree, RequestsFit, Slot, Slots
<1>1. ASSUME NEW i \in 0..(Level - 1), Slot(i) \in WriteRegion
      PROVE  FALSE
  BY <1>1 DEF WriteRegion
<1>2. ASSUME NEW s \in ReadRegion
      PROVE  s \in UnreadSlots
  <2>1. s - RdPos \in 0..(Level - 1)
    BY <1>2 DEF ReadRegion
  <2>2. s = Slot(s - RdPos)
    BY <1>2 DEF ReadRegion
  <2> QED BY <2>1, <2>2 DEF UnreadSlots
<1> QED BY <1>1, <1>2 DEF UnreadSlots
-----------------------------------------------------------------------------
(* The writer and the reader *)

\* The constructor and the two threads before their first call.
LEMMA ClientInit == Init => ClientInv
<1> SUFFICES ASSUME Init PROVE ClientInv
  OBVIOUS
<1>1. FIFOInv
  BY FIFOInitInv DEF Init
<1>2. sawEnd \in BOOLEAN
  BY Zenon DEF Init
<1>3. sink = <<>> /\ Len(sink) = 0 /\ sink \in Seq(Nat)
  BY EmptySeq DEF Init
<1>4. TypeOK
  BY <1>1, <1>2, <1>3 DEF Init, TypeOK, FIFOInv, Phases
<1>5. PhaseInv
  <2>1. EOS = FALSE
    BY DEF Init, FIFOInit
  <2> QED BY <2>1 DEF Init, FIFOInit, PhaseInv, Running
<1>6. ContentInv /\ InOrder
  BY <1>3 DEF Init, FIFOInit, ContentInv, InOrder, Taken
<1> QED BY <1>1, <1>4, <1>5, <1>6 DEF ClientInv

\* The invariant depends on nothing but the variables.
LEMMA ClientStutter == ClientInv /\ UNCHANGED vars => ClientInv'
<1> SUFFICES ASSUME ClientInv, UNCHANGED vars PROVE ClientInv'
  OBVIOUS
<1> USE DEF vars, ClientInv
<1>1. FIFOInv'
  BY FIFOStutter
<1>2. TypeOK'
  BY <1>1 DEF TypeOK, FIFOInv
<1>3. PhaseInv'
  BY DEF PhaseInv, fifoVars, readVars, writeVars
<1>4. ContentInv' /\ InOrder'
  BY DEF ContentInv, InOrder, Taken, Slot, fifoVars, readVars, writeVars
<1> QED BY <1>1, <1>2, <1>3, <1>4
-----------------------------------------------------------------------------
(* The writing thread *)

\* A turn of RequestWrite's loop, entered by a request or by a wake-up.
LEMMA WriterTurnInv ==
  ASSUME ClientInv, FIFOInv', NEW len \in Nat \ {0}, WriteTurn(len),
         wphase \in {"idle", "requesting"},
         wphase' = PhaseAfter(NotifyDrain', wlen'),
         UNCHANGED <<streamVars, rphase>>
  PROVE  ClientInv'
<1> USE DEF ClientInv, streamVars
<1>0. FIFOTypeOK /\ FIFOTypeOK'
  BY DEF FIFOInv
<1>1. TypeOK'
  BY <1>0 DEF TypeOK, PhaseAfter, Phases
<1>2. UNCHANGED <<readVars, WrPos, Level, EOS, NotifySource>>
  BY DEF WriteTurn, WriteRefused, WriteGranted, WriteBlocks
<1>3. PhaseInv'
  <2> USE FIFOAssumption, <1>0
      DEF FIFOTypeOK, PhaseInv, PhaseAfter, Slots, Running, Asleep, readVars
  <2>1. CASE WriteRefused
    BY <2>1 DEF WriteRefused
  <2>2. CASE WriteGranted(len)
    <3>1. wlen' \in Nat \ {0} /\ WrReq' = wlen'
      BY <2>2 DEF WriteGranted, Least
    <3> QED BY <2>2, <3>1 DEF WriteGranted
  <2>3. CASE WriteBlocks(len)
    BY <2>3 DEF WriteBlocks
  <2> QED BY <2>1, <2>2, <2>3 DEF WriteTurn
<1>4. ContentInv' /\ InOrder'
  BY <1>2 DEF ContentInv, InOrder, Taken, Slot, PhaseAfter, readVars
     , WriteTurn, WriteRefused, WriteGranted, WriteBlocks
<1> QED BY <1>1, <1>3, <1>4

LEMMA WriterRequestsInv ==
  ASSUME ClientInv, NEW len \in 1..MaxRequest, WriterRequests(len)
  PROVE  ClientInv'
<1>1. len \in Nat \ {0}
  BY ClientAssumption
<1>2. FIFOInv'
  BY <1>1, RequestWriteInv DEF ClientInv, WriterRequests
<1> QED BY <1>1, <1>2, WriterTurnInv DEF WriterRequests, RequestWrite

LEMMA WriterResumesInv ==
  ASSUME ClientInv, WriterResumes
  PROVE  ClientInv'
<1>1. wlen \in Nat \ {0}
  BY DEF ClientInv, FIFOInv, FIFOTypeOK, PhaseInv, WriterResumes
<1>2. FIFOInv'
  BY ResumeWriteInv DEF ClientInv, WriterResumes
<1> QED BY <1>1, <1>2, WriterTurnInv DEF WriterResumes, ResumeWrite

\* The writer fills its buffer: the slots are free, so nothing committed is
\* overwritten.
LEMMA StoreInv ==
  ASSUME ClientInv, NEW k \in 0..BufferSize, Store(k)
  PROVE  ClientInv'
<1> USE FIFOAssumption DEF ClientInv, Store
<1>0. FIFOTypeOK
  BY DEF FIFOInv
<1>1. FIFOInv'
  BY DEF FIFOInv, FIFOTypeOK, PositionsAgree, RequestsFit, SleepersWait,
         NotBothAsleep, Slot, Slots, readVars
<1>2. TypeOK'
  BY <1>0, <1>1 DEF TypeOK, FIFOInv, FIFOTypeOK, Slots, Phases
<1>3. PhaseInv'
  BY <1>0 DEF PhaseInv, FIFOTypeOK, readVars
<1>4. ContentInv'
  <2>1. wdata = WrPos /\ k <= WrReq
    BY <1>0 DEF PhaseInv, FIFOTypeOK
  <2>2. WriteRegion \cap UnreadSlots = {}
    BY RegionsDisjoint
  <2>3. ASSUME NEW i \in 0..(Level - 1)
        PROVE  Buffer'[Slot(i)] = Buffer[Slot(i)]
    <3>1. Slot(i) \in Slots
      BY <1>0 DEF FIFOTypeOK, Slot, Slots
    <3>2. Slot(i) \in UnreadSlots
      BY DEF UnreadSlots
    <3>3. Slot(i) \notin wdata..(wdata + k - 1)
      BY <2>1, <2>2, <3>1, <3>2, <1>0 DEF WriteRegion, FIFOTypeOK, Slots
    <3> QED BY <3>1, <3>3
  <2>4. ASSUME NEW i \in 0..(k - 1)
        PROVE  Buffer'[WrPos + i] = accepted + 1 + i
    BY <1>0, <2>1 DEF FIFOTypeOK, TypeOK, FIFOInv, RequestsFit, Slots
  <2> QED BY <2>3, <2>4 DEF ContentInv, Taken, Slot, readVars
<1>5. InOrder'
  BY DEF InOrder
<1> QED BY <1>1, <1>2, <1>3, <1>4, <1>5

LEMMA WriterCommitsInv ==
  ASSUME ClientInv, WriterCommits
  PROVE  ClientInv'
<1> USE FIFOAssumption DEF ClientInv, WriterCommits
<1>0. FIFOTypeOK /\ wlen \in Nat /\ wlen <= WrReq
  BY DEF FIFOInv, FIFOTypeOK, PhaseInv
<1>1. FIFOInv'
  BY <1>0, CommitWriteInv
<1>2. TypeOK'
  BY <1>0, <1>1 DEF TypeOK, FIFOInv, Phases
<1>3. PhaseInv'
  BY <1>0 DEF PhaseInv, FIFOTypeOK, CommitWrite, readVars, WaitStates, NotifyAll,
              Running, Asleep, Woken, Stray
<1>4. ContentInv'
  <2>1. Level' = Level + wlen /\ accepted' = accepted + wlen
        /\ UNCHANGED <<RdPos, rlen, Buffer, sink, rphase>>
    BY DEF CommitWrite, readVars
  <2>2. ASSUME NEW i \in 0..(Level' - 1)
        PROVE  Buffer'[Slot(i)'] = accepted' - Level' + 1 + i
    <3>1. CASE i < Level
      BY <3>1, <2>1, <1>0 DEF ContentInv, Slot, FIFOTypeOK, TypeOK
    <3>2. CASE i >= Level
      <4>1. Slot(i) = WrPos + (i - Level) /\ i - Level \in 0..(wlen - 1)
        BY <3>2, <2>1, <1>0
        DEF FIFOInv, PositionsAgree, RequestsFit, Slot, Slots, FIFOTypeOK
      <4> QED BY <4>1, <2>1, <1>0 DEF ContentInv, Slot, FIFOTypeOK, TypeOK
    <3> QED BY <3>1, <3>2, <2>1, <1>0 DEF FIFOTypeOK
  <2>3. Level' <= accepted' /\ wphase' # "moved"
    BY <2>1, <1>0 DEF ContentInv, TypeOK, FIFOTypeOK
  <2>4. rphase' # "closed" => Len(sink') = accepted' - Level' + Taken'
    <3>1. accepted' - Level' + Taken' = accepted - Level + Taken
      BY <2>1, <1>0 DEF TypeOK, FIFOTypeOK, Taken
    <3> QED BY <2>1, <3>1 DEF ContentInv
  <2>5. accepted' - Level' <= Len(sink')
    <3>1. accepted' - Level' = accepted - Level
      BY <2>1, <1>0 DEF TypeOK, FIFOTypeOK
    <3> QED BY <2>1, <3>1 DEF ContentInv
  <2> QED BY <2>2, <2>3, <2>4, <2>5 DEF ContentInv
<1>5. InOrder'
  BY <1>0, LenProperties DEF InOrder, TypeOK
<1> QED BY <1>1, <1>2, <1>3, <1>4, <1>5

LEMMA WriterEndsInv ==
  ASSUME ClientInv, WriterEnds
  PROVE  ClientInv'
<1> USE DEF ClientInv, WriterEnds
<1>0. FIFOTypeOK /\ NotifyDrain = Running
  BY DEF FIFOInv, PhaseInv
<1>1. FIFOInv'
  BY <1>0, EndWriteInv
<1>2. TypeOK'
  BY <1>1 DEF TypeOK, FIFOInv, streamVars, Phases
<1>3. PhaseInv'
  BY <1>0 DEF PhaseInv, FIFOTypeOK, EndWrite, readVars, WaitStates, NotifyAll,
              Running, Asleep, Woken, Stray
<1>4. ContentInv' /\ InOrder'
  BY DEF ContentInv, InOrder, Taken, Slot, EndWrite, readVars, streamVars
<1> QED BY <1>1, <1>2, <1>3, <1>4
-----------------------------------------------------------------------------
(* The reading thread *)

\* A turn of RequestRead's loop, entered by a request or by a wake-up.
LEMMA ReaderTurnInv ==
  ASSUME ClientInv, FIFOInv', NEW len \in Nat \ {0}, ReadTurn(len),
         rphase \in {"idle", "requesting"},
         rphase' = PhaseAfter(NotifySource', rlen'),
         sawEnd' = (sawEnd \/ rlen' = 0),
         UNCHANGED <<Buffer, accepted, sink, wphase>>
  PROVE  ClientInv'
<1> USE DEF ClientInv
<1>0. FIFOTypeOK /\ FIFOTypeOK'
  BY DEF FIFOInv
<1>1. TypeOK'
  BY <1>0 DEF TypeOK, PhaseAfter, Phases
<1>2. UNCHANGED <<writeVars, RdPos, Level, EOS, NotifyDrain>>
  BY DEF ReadTurn, ReadGranted, ReadAtEnd, ReadBlocks
<1>3. PhaseInv'
  <2> USE FIFOAssumption, <1>0
      DEF FIFOTypeOK, PhaseInv, PhaseAfter, Slots, Running, Asleep, writeVars
  <2>1. CASE ReadAtEnd
    BY <2>1 DEF ReadAtEnd
  <2>2. CASE ReadGranted(len)
    <3>1. rlen' \in Nat \ {0} /\ RdReq' = rlen'
      BY <2>2 DEF ReadGranted, Least
    <3> QED BY <2>2, <3>1 DEF ReadGranted
  <2>3. CASE ReadBlocks(len)
    BY <2>3 DEF ReadBlocks
  <2> QED BY <2>1, <2>2, <2>3 DEF ReadTurn
<1>4. ContentInv' /\ InOrder'
  BY <1>2 DEF ContentInv, InOrder, Taken, Slot, PhaseAfter, writeVars
<1> QED BY <1>1, <1>3, <1>4

LEMMA ReaderRequestsInv ==
  ASSUME ClientInv, NEW len \in 1..MaxRequest, ReaderRequests(len)
  PROVE  ClientInv'
<1>1. len \in Nat \ {0}
  BY ClientAssumption
<1>2. FIFOInv'
  BY <1>1, RequestReadInv DEF ClientInv, ReaderRequests
<1> QED BY <1>1, <1>2, ReaderTurnInv DEF ReaderRequests, RequestRead

LEMMA ReaderResumesInv ==
  ASSUME ClientInv, ReaderResumes
  PROVE  ClientInv'
<1>1. rlen \in Nat \ {0}
  BY DEF ClientInv, FIFOInv, FIFOTypeOK, PhaseInv, ReaderResumes
<1>2. FIFOInv'
  BY ResumeReadInv DEF ClientInv, ReaderResumes
<1> QED BY <1>1, <1>2, ReaderTurnInv DEF ReaderResumes, ResumeRead

\* The bytes in the stream but not yet taken never exceed the filled part.
LEMMA StreamBounds ==
  ASSUME ClientInv
  PROVE  /\ accepted \in Nat /\ Level \in 0..BufferSize /\ Len(sink) \in Nat
         /\ accepted - Len(sink) <= Level
         /\ Len(sink) <= accepted
  BY LenProperties
  DEF ClientInv, TypeOK, FIFOInv, FIFOTypeOK, ContentInv, InOrder

\* The granted buffer holds the bytes the reader has to take next.
LEMMA GrantedBytes ==
  ASSUME ClientInv, NEW k \in 0..BufferSize, Fetch(k)
  PROVE  /\ k \in Nat /\ k <= RdReq /\ k <= Level
         /\ Len(sink) = accepted - Level
         /\ \A i \in 1..k : Buffer[rdata + i - 1] = Len(sink) + i
<1>1. /\ FIFOTypeOK /\ RequestsFit /\ rdata = RdPos
      /\ k \in Nat /\ k <= RdReq /\ k <= Level
  BY FIFOAssumption
  DEF ClientInv, FIFOInv, FIFOTypeOK, RequestsFit, PhaseInv, Fetch
<1>2. Len(sink) = accepted - Level
  BY <1>1, StreamBounds DEF Fetch, ClientInv, ContentInv, Taken
<1>3. ASSUME NEW i \in 1..k
      PROVE  Buffer[rdata + i - 1] = Len(sink) + i
  <2>1. i - 1 \in 0..(Level - 1) /\ Slot(i - 1) = rdata + i - 1
    BY <1>1, FIFOAssumption DEF RequestsFit, Slot, FIFOTypeOK, Slots
  <2>2. Buffer[Slot(i - 1)] = accepted - Level + 1 + (i - 1)
    BY <2>1 DEF ClientInv, ContentInv
  <2> QED BY <2>1, <2>2, <1>2, StreamBounds
<1> QED BY <1>1, <1>2, <1>3

\* What the reader's bytes look like after k more of them.
LEMMA AppendBytes ==
  ASSUME NEW s \in Seq(Nat), NEW k \in Nat, NEW t \in [1..k -> Nat]
  PROVE  /\ s \o t \in Seq(Nat)
         /\ Len(s \o t) = Len(s) + k
         /\ Len(s) \in Nat
         /\ \A i \in 1..Len(s) : (s \o t)[i] = s[i]
         /\ \A i \in 1..k : (s \o t)[Len(s) + i] = t[i]
<1>1. t \in Seq(Nat)
  BY SeqDef
<1>2. Len(t) = k
  <2>1. Len(t) \in Nat /\ DOMAIN t = 1..Len(t) /\ DOMAIN t = 1..k
    BY <1>1, LenProperties
  <2> QED BY <2>1
<1>3. Len(s) \in Nat
  BY LenProperties
<1>4. /\ s \o t \in Seq(Nat)
      /\ Len(s \o t) = Len(s) + k
      /\ \A i \in 1..Len(s) + k :
           (s \o t)[i] = IF i <= Len(s) THEN s[i] ELSE t[i - Len(s)]
  BY <1>1, <1>2, ConcatProperties
<1>5. ASSUME NEW i \in 1..k PROVE (s \o t)[Len(s) + i] = t[i]
  <2>1. Len(s) + i \in 1..Len(s) + k /\ ~(Len(s) + i <= Len(s))
        /\ Len(s) + i - Len(s) = i
    BY <1>3
  <2> QED BY <2>1, <1>4
<1>6. ASSUME NEW i \in 1..Len(s) PROVE (s \o t)[i] = s[i]
  <2>1. i \in 1..Len(s) + k /\ i <= Len(s)
    BY <1>3
  <2> QED BY <2>1, <1>4
<1> QED BY <1>3, <1>4, <1>5, <1>6

\* The reader takes bytes out of its buffer, which are the next of the stream.
LEMMA FetchInv ==
  ASSUME ClientInv, NEW k \in 0..BufferSize, Fetch(k)
  PROVE  ClientInv'
<1> DEFINE taken == [i \in 1..k |-> Buffer[rdata + i - 1]]
<1>0. FIFOTypeOK /\ RequestsFit /\ k \in Nat /\ k <= RdReq /\ rdata = RdPos
  BY FIFOAssumption DEF ClientInv, FIFOInv, FIFOTypeOK, PhaseInv, Fetch
<1>1. FIFOInv'
  BY FIFOAssumption
  DEF ClientInv, Fetch, FIFOInv, FIFOTypeOK, PositionsAgree, RequestsFit,
      SleepersWait, NotBothAsleep, Slot, Slots, writeVars
<1>2. Level \in Nat /\ accepted \in Nat /\ k <= Level /\ Level <= accepted
      /\ Len(sink) = accepted - Level /\ sink \in Seq(Nat)
  BY <1>0, GrantedBytes, FIFOAssumption DEF ClientInv, TypeOK, FIFOTypeOK, ContentInv
<1>3. \A i \in 1..k : Buffer[rdata + i - 1] = Len(sink) + i
  BY GrantedBytes
<1>4. /\ sink' \in Seq(Nat)
      /\ Len(sink') = Len(sink) + k
      /\ \A i \in 1..Len(sink) : sink'[i] = sink[i]
      /\ \A i \in 1..k : sink'[Len(sink) + i] = Len(sink) + i
  <2>1. sink' = sink \o taken
    BY DEF Fetch
  <2>2. taken \in [1..k -> Nat]
    BY <1>2, <1>3
  <2>3. \A i \in 1..k : taken[i] = Len(sink) + i
    BY <1>3
  <2> QED BY <1>0, <1>2, <2>1, <2>2, <2>3, AppendBytes
<1>5. TypeOK'
  BY <1>0, <1>1, <1>4 DEF ClientInv, Fetch, TypeOK, FIFOInv, Phases
<1>6. PhaseInv'
  BY <1>0 DEF ClientInv, Fetch, PhaseInv, FIFOTypeOK, writeVars
<1>7. ContentInv'
  <2>1. UNCHANGED <<Level, accepted, Buffer, wphase, wlen, WrPos, RdPos>>
        /\ rphase' = "moved" /\ rlen' = k
    BY DEF Fetch, writeVars
  <2>2. Len(sink') = accepted' - Level' + Taken'
    BY <2>1, <1>2, <1>4 DEF Taken
  <2>3. accepted' - Level' <= Len(sink')
    BY <2>1, <1>0, <1>2, <1>4
  <2> QED BY <2>1, <2>2, <2>3 DEF ClientInv, ContentInv, Slot
<1>8. InOrder'
  <2>1. ASSUME NEW i \in 1..Len(sink')
        PROVE  sink'[i] = i
    <3>1. CASE i <= Len(sink)
      BY <3>1, <1>2, <1>4 DEF ClientInv, InOrder
    <3>2. CASE i > Len(sink)
      <4>1. i - Len(sink) \in 1..k /\ Len(sink) + (i - Len(sink)) = i
        BY <3>2, <1>0, <1>2, <1>4
      <4> QED BY <4>1, <1>4
    <3> QED BY <3>1, <3>2, <1>2, <1>4, <1>0
  <2>2. Len(sink') <= accepted'
    BY <1>0, <1>2, <1>4 DEF Fetch
  <2> QED BY <2>1, <2>2 DEF InOrder
<1> QED BY <1>1, <1>5, <1>6, <1>7, <1>8 DEF ClientInv

LEMMA ReaderCommitsInv ==
  ASSUME ClientInv, ReaderCommits
  PROVE  ClientInv'
<1> USE FIFOAssumption DEF ClientInv, ReaderCommits
<1>0. FIFOTypeOK /\ rlen \in Nat /\ rlen <= RdReq
  BY DEF FIFOInv, FIFOTypeOK, PhaseInv
<1>1. FIFOInv'
  BY <1>0, CommitReadInv
<1>2. TypeOK'
  BY <1>0, <1>1 DEF TypeOK, FIFOInv, Phases, streamVars
<1>3. PhaseInv'
  BY <1>0 DEF PhaseInv, FIFOTypeOK, CommitRead, writeVars, WaitStates, NotifyAll,
              Running, Asleep, Woken, Stray
<1>4. ContentInv'
  <2>1. /\ Level' = Level - rlen
        /\ RdPos' = Advance(RdPos, rlen)
        /\ rphase = "moved" /\ rphase' = "idle"
        /\ UNCHANGED <<WrPos, wlen, rlen, Buffer, sink, wphase, accepted>>
    BY DEF CommitRead, writeVars, streamVars
  <2>2. ASSUME NEW i \in 0..(Level' - 1)
        PROVE  Buffer'[Slot(i)'] = accepted' - Level' + 1 + i
    <3>1. Slot(i)' = Slot(i + rlen) /\ i + rlen \in 0..(Level - 1)
      BY <2>1, <1>0
      DEF FIFOInv, RequestsFit, Slot, Slots, FIFOTypeOK, Advance
    <3> QED BY <3>1, <2>1, <1>0 DEF ContentInv, FIFOTypeOK, TypeOK
  <2>3. Level' <= accepted'
    BY <2>1, <1>0 DEF ContentInv, TypeOK, FIFOTypeOK
  <2>4. wphase' = "moved" =>
          \A i \in 0..(wlen' - 1) : Buffer'[WrPos' + i] = accepted' + 1 + i
    BY <2>1 DEF ContentInv
  <2>5. rphase' # "closed" => Len(sink') = accepted' - Level' + Taken'
    BY <2>1, <1>0 DEF ContentInv, TypeOK, FIFOTypeOK, Taken
  <2>6. accepted' - Level' <= Len(sink')
    <3>1. Len(sink) = accepted - Level + rlen
      BY <2>1 DEF ContentInv, Taken
    <3> QED BY <3>1, <2>1, <1>0 DEF TypeOK, FIFOTypeOK
  <2> QED BY <2>2, <2>3, <2>4, <2>5, <2>6 DEF ContentInv
<1>5. InOrder'
  BY DEF InOrder, streamVars
<1> QED BY <1>1, <1>2, <1>3, <1>4, <1>5

LEMMA ReaderEndsInv ==
  ASSUME ClientInv, ReaderEnds
  PROVE  ClientInv'
<1> USE DEF ClientInv, ReaderEnds
<1>0. FIFOTypeOK /\ NotifySource = Running
  BY DEF FIFOInv, PhaseInv
<1>1. FIFOInv'
  BY <1>0, EndReadInv
<1>2. TypeOK'
  BY <1>1 DEF TypeOK, FIFOInv, streamVars, Phases
<1>3. PhaseInv'
  BY <1>0 DEF PhaseInv, FIFOTypeOK, EndRead, writeVars, WaitStates, NotifyAll,
              Running, Asleep, Woken, Stray
<1>4. ContentInv' /\ InOrder'
  BY DEF ContentInv, InOrder, Taken, Slot, EndRead, writeVars, streamVars
<1> QED BY <1>1, <1>2, <1>3, <1>4

LEMMA SpuriousInv ==
  ASSUME ClientInv, SpuriousWake
  PROVE  ClientInv'
<1> USE DEF ClientInv, SpuriousWake
<1>1. FIFOInv'
  BY SpuriousWakeInv
<1>2. TypeOK'
  BY <1>1 DEF TypeOK, FIFOInv, streamVars
<1>3. PhaseInv'
  BY DEF PhaseInv, SpuriousWakeSource, SpuriousWakeDrain, Running, Asleep, Woken, Stray,
         readVars, writeVars
<1>4. ContentInv' /\ InOrder'
  BY DEF ContentInv, InOrder, Taken, Slot, SpuriousWakeSource, SpuriousWakeDrain,
         readVars, writeVars, streamVars
<1> QED BY <1>1, <1>2, <1>3, <1>4
-----------------------------------------------------------------------------
LEMMA ClientStep == ClientInv /\ [Next]_vars => ClientInv'
BY WriterRequestsInv, WriterResumesInv, StoreInv, WriterCommitsInv,
   WriterEndsInv, ReaderRequestsInv, ReaderResumesInv, FetchInv,
   ReaderCommitsInv, ReaderEndsInv, SpuriousInv, ClientStutter
DEF Next

\* The invariant holds in every reachable state.
THEOREM ClientSafety == Spec => []ClientInv
BY ClientInit, ClientStep, PTL DEF Spec

\* Every variable stays in its domain, for every size of the ring.
THEOREM TypeCorrect == Spec => []TypeOK
<1>1. ClientInv => TypeOK
  BY DEF ClientInv
<1> QED BY <1>1, ClientSafety, PTL

\* The unlocked accesses of the two threads never touch the same slot.
THEOREM RegionsNeverOverlap == Spec => []NoOverlap
<1>1. ClientInv => NoOverlap
  BY RegionsDisjoint DEF ClientInv, NoOverlap
<1> QED BY <1>1, ClientSafety, PTL

\* The reader gets the writer's bytes in order, each of them once.
THEOREM BytesInOrder == Spec => []InOrder
<1>1. ClientInv => InOrder
  BY DEF ClientInv
<1> QED BY <1>1, ClientSafety, PTL

\* A client that keeps to the contract never sees a logic_error.
THEOREM NoLogicError == Spec => []LegalCallsSucceed
<1>1. ClientInv => LegalCallsSucceed
  BY DEF ClientInv, FIFOInv, FIFOTypeOK, PhaseInv, LegalCallsSucceed, Slots,
         RequestWriteThrows, CommitWriteThrows, RequestReadThrows, CommitReadThrows
<1> QED BY <1>1, ClientSafety, PTL

\* No thread sleeps through the event it waits for, whatever the water marks
\* are, and the two never wait for each other.
THEOREM WakeupsNotLost == Spec => []NoLostWakeup
<1>1. ClientInv => NoLostWakeup
  BY DEF ClientInv, FIFOInv, NoLostWakeup
<1> QED BY <1>1, ClientSafety, PTL
-----------------------------------------------------------------------------
\* The level of a woken thread stays where it is, or moves away from its mark,
\* until the thread runs.
LEMMA WokenStep ==
  ASSUME ClientInv, WokenAtMark, [Next]_vars
  PROVE  WokenAtMark'
<1>0. FIFOTypeOK
  BY DEF ClientInv, FIFOInv
<1> USE <1>0, FIFOAssumption
    DEF WokenAtMark, FIFOTypeOK, Running, Asleep, Woken, Stray, readVars, writeVars
<1>1. ASSUME NEW len, WriteTurn(len) PROVE WokenAtMark'
  BY <1>1 DEF WriteTurn, WriteRefused, WriteGranted, WriteBlocks
<1>2. ASSUME NEW len, ReadTurn(len) PROVE WokenAtMark'
  BY <1>2 DEF ReadTurn, ReadGranted, ReadAtEnd, ReadBlocks
<1>3. CASE \E k \in 0..BufferSize : Store(k) \/ Fetch(k)
  BY <1>3 DEF Store, Fetch
<1>4. CASE WriterCommits
  BY <1>4 DEF WriterCommits, CommitWrite, NotifyAll, ClientInv, PhaseInv
<1>5. CASE WriterEnds
  BY <1>5 DEF WriterEnds, EndWrite, NotifyAll
<1>6. CASE ReaderCommits
  BY <1>6 DEF ReaderCommits, CommitRead, NotifyAll, ClientInv, PhaseInv
<1>7. CASE ReaderEnds
  BY <1>7 DEF ReaderEnds, EndRead, NotifyAll
<1>8. CASE SpuriousWake
  BY <1>8 DEF SpuriousWake, SpuriousWakeSource, SpuriousWakeDrain
<1>9. CASE UNCHANGED vars
  BY <1>9 DEF vars, fifoVars
<1> QED
  BY <1>1, <1>2, <1>3, <1>4, <1>5, <1>6, <1>7, <1>8, <1>9
  DEF Next, WriterRequests, WriterResumes, ReaderRequests, ReaderResumes,
      RequestWrite, ResumeWrite, RequestRead, ResumeRead

LEMMA ResumeStepHolds ==
  ASSUME ClientInv, WokenAtMark, [Next]_vars
  PROVE  [ResumeStep]_vars
<1>1. WokenAtMark
  OBVIOUS
<1> QED BY <1>1 DEF WokenAtMark, ResumeStep

\* A stopped thread that is notified goes on at its mark only, or at the end.
THEOREM MarksRespected == Spec => ResumeAtMark
<1>1. Init => WokenAtMark
  BY DEF Init, FIFOInit, WokenAtMark, Running, Woken, Stray
<1>2. ClientInv /\ WokenAtMark /\ [Next]_vars => WokenAtMark'
  BY WokenStep
<1>3. ClientInv /\ WokenAtMark /\ [Next]_vars => [ResumeStep]_vars
  BY ResumeStepHolds
<1> QED BY <1>1, <1>2, <1>3, ClientSafety, PTL DEF Spec, ResumeAtMark
-----------------------------------------------------------------------------
(* The FIFO implements ByteStream. *)

LEMMA StreamInit == Init => Stream!Init
<1> SUFFICES ASSUME Init PROVE Stream!Init
  OBVIOUS
<1>1. (wphase \in {"granted", "moved"}) = FALSE
  BY DEF Init
<1>2. EOS = FALSE /\ sawEnd = FALSE /\ accepted = 0 /\ sink = <<>>
  BY DEF Init, FIFOInit
<1> QED BY <1>1, <1>2 DEF Stream!Init

LEMMA WriterTurnStep ==
  ASSUME ClientInv, NEW len \in Nat \ {0}, WriteTurn(len),
         wphase \in {"idle", "requesting"},
         wphase' = PhaseAfter(NotifyDrain', wlen'),
         UNCHANGED <<streamVars, rphase>>
  PROVE  Stream!Reserve \/ UNCHANGED Stream!vars
<1> USE DEF streamVars, PhaseAfter, Running, Asleep
<1>1. CASE WriteRefused \/ WriteBlocks(len)
  BY <1>1 DEF Stream!vars, WriteRefused, WriteBlocks
<1>2. CASE WriteGranted(len)
  <2>1. accepted - Len(sink) < BufferSize
    BY <1>2, StreamBounds, FIFOAssumption DEF WriteGranted
  <2>2. wlen' # 0
    BY <1>2, FIFOAssumption
    DEF WriteGranted, Least, ClientInv, FIFOInv, FIFOTypeOK, Slots
  <2>3. wphase' = "granted"
    BY <1>2, <2>2 DEF WriteGranted
  <2> QED BY <1>2, <2>1, <2>3 DEF WriteGranted, Stream!Reserve
<1> QED BY <1>1, <1>2 DEF WriteTurn

LEMMA ReaderTurnStep ==
  ASSUME ClientInv, NEW len \in Nat \ {0}, ReadTurn(len),
         rphase \in {"idle", "requesting"},
         sawEnd' = (sawEnd \/ rlen' = 0),
         UNCHANGED <<Buffer, accepted, sink, wphase>>
  PROVE  Stream!End \/ UNCHANGED Stream!vars
<1>0. sawEnd \in BOOLEAN
  BY Zenon DEF ClientInv, TypeOK
<1>1. CASE ReadGranted(len)
  <2>1. rlen' # 0 /\ EOS' = EOS
    BY <1>1, FIFOAssumption
    DEF ReadGranted, Least, ClientInv, FIFOInv, FIFOTypeOK, Slots
  <2>2. sawEnd' = sawEnd
    BY <1>0, <2>1, Zenon
  <2> QED BY <2>1, <2>2 DEF Stream!vars
<1>2. CASE ReadAtEnd
  <2>1. Level = 0 /\ EOS /\ rlen' = 0 /\ EOS' = EOS
    BY <1>2 DEF ReadAtEnd
  <2>2. Len(sink) = accepted
    BY <2>1, StreamBounds
  <2>3. wphase = "idle"
    BY <2>1 DEF ClientInv, PhaseInv
  <2>4. sawEnd' = TRUE
    BY <2>1
  <2> QED BY <2>1, <2>2, <2>3, <2>4 DEF Stream!End
<1>3. CASE ReadBlocks(len)
  <2>1. rlen' # 0 /\ EOS' = EOS
    BY <1>3 DEF ReadBlocks
  <2>2. sawEnd' = sawEnd
    BY <1>0, <2>1, Zenon
  <2> QED BY <2>1, <2>2 DEF Stream!vars
<1> QED BY <1>1, <1>2, <1>3 DEF ReadTurn

LEMMA StreamStep ==
  ASSUME ClientInv, [Next]_vars
  PROVE  [Stream!Next]_(Stream!vars)
<1>1. ASSUME NEW len \in 1..MaxRequest, WriterRequests(len)
      PROVE  Stream!Reserve \/ UNCHANGED Stream!vars
  BY <1>1, WriterTurnStep, ClientAssumption DEF WriterRequests, RequestWrite
<1>2. CASE WriterResumes
  <2>1. wlen \in Nat \ {0}
    BY <1>2 DEF ClientInv, FIFOInv, FIFOTypeOK, PhaseInv, WriterResumes
  <2>2. Stream!Reserve \/ UNCHANGED Stream!vars
    BY <1>2, <2>1, WriterTurnStep DEF WriterResumes, ResumeWrite
  <2> QED BY <2>2 DEF Stream!Next
<1>3. ASSUME NEW k \in 0..BufferSize, Store(k)
      PROVE  UNCHANGED Stream!vars
  BY <1>3 DEF Store, Stream!vars
<1>4. CASE WriterCommits
  <2>1. wlen \in 0..BufferSize /\ Level + wlen <= BufferSize
    BY <1>4, FIFOAssumption
    DEF WriterCommits, ClientInv, FIFOInv, FIFOTypeOK, RequestsFit, PhaseInv
  <2>2. accepted + wlen - Len(sink) <= BufferSize
    BY <2>1, StreamBounds, FIFOAssumption
  <2>3. Stream!Write(wlen)
    BY <1>4, <2>2 DEF WriterCommits, CommitWrite, Stream!Write
  <2> QED BY <2>1, <2>3 DEF Stream!Next
<1>5. CASE WriterEnds
  <2>1. Stream!CloseWriter
    BY <1>5 DEF WriterEnds, EndWrite, streamVars, Stream!CloseWriter
  <2> QED BY <2>1 DEF Stream!Next
<1>6. ASSUME NEW len \in 1..MaxRequest, ReaderRequests(len)
      PROVE  Stream!End \/ UNCHANGED Stream!vars
  BY <1>6, ReaderTurnStep, ClientAssumption DEF ReaderRequests, RequestRead
<1>7. CASE ReaderResumes
  <2>1. rlen \in Nat \ {0}
    BY <1>7 DEF ClientInv, FIFOInv, FIFOTypeOK, PhaseInv, ReaderResumes
  <2>2. Stream!End \/ UNCHANGED Stream!vars
    BY <1>7, <2>1, ReaderTurnStep DEF ReaderResumes, ResumeRead
  <2> QED BY <2>2 DEF Stream!Next
<1>8. ASSUME NEW k \in 0..BufferSize, Fetch(k)
      PROVE  Stream!Read(k)
  <2>1. k \in Nat /\ Len(sink) + k <= accepted
        /\ \A i \in 1..k : Buffer[rdata + i - 1] = Len(sink) + i
    BY <1>8, GrantedBytes, StreamBounds
  <2>2. [i \in 1..k |-> Buffer[rdata + i - 1]] = [i \in 1..k |-> Len(sink) + i]
    BY <2>1
  <2>3. sink' = sink \o [i \in 1..k |-> Len(sink) + i]
    BY <1>8, <2>2 DEF Fetch
  <2> QED BY <1>8, <2>1, <2>3 DEF Fetch, Stream!Read
<1>9. CASE ReaderCommits
  BY <1>9 DEF ReaderCommits, CommitRead, streamVars, Stream!vars
<1>10. CASE ReaderEnds
  <2>1. Stream!CloseReader
    BY <1>10 DEF ReaderEnds, EndRead, streamVars, Stream!CloseReader
  <2> QED BY <2>1 DEF Stream!Next
<1>11. CASE SpuriousWake
  BY <1>11 DEF SpuriousWake, SpuriousWakeSource, SpuriousWakeDrain, streamVars,
               Stream!vars
<1>12. CASE UNCHANGED vars
  BY <1>12 DEF vars, fifoVars, Stream!vars
<1> QED
  BY <1>1, <1>2, <1>3, <1>4, <1>5, <1>6, <1>7, <1>8, <1>9, <1>10, <1>11, <1>12
  DEF Next, Stream!Next

\* For every client that keeps to the contract the FIFO is a byte stream.
THEOREM ImplementsStream == Spec => StreamSpec
<1>1. ClientInv /\ [Next]_vars => [Stream!Next]_(Stream!vars)
  BY StreamStep
<1> QED BY StreamInit, <1>1, ClientSafety, PTL DEF Spec, StreamSpec, Stream!Spec
=============================================================================
