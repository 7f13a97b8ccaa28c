--------------------------- MODULE Buffer2_proofs ---------------------------
(***************************************************************************)
(* The program for every buffer size, every pair of water marks and every  *)
(* request size but zero.  Its workers are one of the pairs of clients of  *)
(* FIFOClient, so that the proofs about those are used here, as Copy, and  *)
(* WorkerInv adds what the program knows beyond the FIFO.                  *)
(***************************************************************************)
EXTENDS Buffer2, SequenceTheorems, TLAPS

Copy == INSTANCE FIFOClient_proofs WITH MaxRequest <- RequestSize

ProgramInv == Copy!ClientInv /\ WorkerInv

\* main asks for zero bytes only if -r was not given and the buffer has fewer
\* than four bytes.
LEMMA Sizes ==
  /\ StreamLength \in Nat
  /\ RequestSize # 0 => RequestSize \in Nat \ {0}
  /\ RequestSize = 0 <=> RequestOption = -1 /\ BufferSize < 4
<1> USE FIFOAssumption, Buffer2Assumption
<1>1. CASE RequestOption \in Nat \ {0}
  BY <1>1 DEF RequestSize
<1>2. CASE RequestOption = -1
  <2>1. BufferSize \div 8 \in Nat /\ BufferSize \div 4 \in Nat
    OBVIOUS
  <2>2. BufferSize \div 4 = 0 <=> BufferSize < 4
    OBVIOUS
  <2>3. BufferSize >= 1024 * 256 => BufferSize \div 8 # 0
    OBVIOUS
  <2> QED BY <1>2, <2>1, <2>2, <2>3 DEF RequestSize
<1> QED BY <1>1, <1>2
-----------------------------------------------------------------------------
(* What FIFOClient_proofs says of the program's variables *)

LEMMA CopyTypes ==
  ASSUME Copy!ClientInv
  PROVE  /\ FIFOTypeOK /\ Buffer \in [Slots -> Nat] /\ sink \in Seq(Nat)
         /\ accepted \in Nat /\ Len(sink) \in Nat /\ Level \in Nat
         /\ wlen \in Nat /\ rlen \in Nat
<1>1. FIFOTypeOK /\ Buffer \in [Slots -> Nat] /\ sink \in Seq(Nat) /\ accepted \in Nat
  BY DEF Copy!ClientInv, Copy!TypeOK, Copy!FIFOTypeOK, FIFOTypeOK, Copy!Slots, Slots,
         Copy!WaitStates, WaitStates, Copy!Running, Running, Copy!Asleep, Asleep,
         Copy!Woken, Woken, Copy!Stray, Stray
<1>2. Len(sink) \in Nat
  BY <1>1, LenProperties
<1> QED BY <1>1, <1>2, FIFOAssumption DEF FIFOTypeOK

LEMMA CopyTypesNext ==
  Copy!ClientInv' =>
    FIFOTypeOK' /\ Buffer' \in [Slots -> Nat] /\ sink' \in Seq(Nat)
<1>1. Copy!ClientInv => FIFOTypeOK /\ Buffer \in [Slots -> Nat] /\ sink \in Seq(Nat)
  BY CopyTypes
<1>2. (Copy!ClientInv => FIFOTypeOK /\ Buffer \in [Slots -> Nat] /\ sink \in Seq(Nat))'
  BY <1>1, PTL
<1> QED BY <1>2

\* The places of the input worker and its business with the FIFO.
LEMMA InputPhase ==
  ASSUME ProgramInv
  PROVE  /\ ipc = "request" /\ NotifyDrain # Running => wphase = "requesting"
         /\ ipc = "request" /\ NotifyDrain = Running => wphase = "idle"
         /\ ipc = "read" => wphase = "granted"
         /\ ipc = "commit" => wphase = "moved"
         /\ ipc \in {"none", "initialize", "close", "done"} => wphase = "idle"
         /\ ipc # "request" => NotifyDrain = Running
         /\ wphase = "requesting" => wlen > 0
         /\ wphase \in {"granted", "moved"} => wdata = WrPos /\ wlen <= WrReq
         /\ wphase \notin {"granted", "moved"} => WrReq = 0
BY DEF ProgramInv, Copy!ClientInv, Copy!PhaseInv, Copy!Running, Running, wphase

LEMMA OutputPhase ==
  ASSUME ProgramInv
  PROVE  /\ mpc = "request" /\ NotifySource # Running => rphase = "requesting"
         /\ mpc = "request" /\ NotifySource = Running => rphase = "idle"
         /\ mpc = "write" => rphase = "granted"
         /\ mpc = "commit" => rphase = "moved"
         /\ mpc \in {"start", "initialize"} => rphase = "idle"
         /\ MainStopped => rphase = "closed"
         /\ mpc # "request" => NotifySource = Running
         /\ rphase = "requesting" => rlen > 0
         /\ rphase \in {"granted", "moved"} => rdata = RdPos /\ rlen <= RdReq
         /\ rphase \notin {"granted", "moved"} => RdReq = 0
BY DEF ProgramInv, Copy!ClientInv, Copy!PhaseInv, Copy!Running, Running, rphase, MainStopped

\* A step of one worker leaves the other one in its phase.
LEMMA InputSame ==
  ASSUME UNCHANGED <<ipc, produced, wlen, WrReq>>,
         NotifyDrain' = Running <=> NotifyDrain = Running
  PROVE  UNCHANGED <<wphase, accepted>>
BY DEF wphase, accepted, Running

LEMMA OutputSame ==
  ASSUME UNCHANGED <<mpc, oResult, rlen, RdReq>>, Started' = Started,
         NotifySource' = Running <=> NotifySource = Running
  PROVE  UNCHANGED <<rphase, sawEnd>>
BY DEF rphase, sawEnd, Running

\* The conditions of the FIFO's exceptions do not arise.
LEMMA WorkersLegal ==
  ASSUME ProgramInv
  PROVE  /\ ipc = "request" /\ NotifyDrain = Running => ~RequestWriteThrows
         /\ ipc = "commit" => ~CommitWriteThrows(wdata, wlen)
         /\ mpc = "request" /\ NotifySource = Running => ~RequestReadThrows
         /\ mpc = "commit" => ~CommitReadThrows(rdata, rlen)
<1>1. FIFOTypeOK
  BY CopyTypes DEF ProgramInv
<1> QED BY <1>1, InputPhase, OutputPhase, FIFOAssumption
    DEF FIFOTypeOK, RequestWriteThrows, CommitWriteThrows, RequestReadThrows,
        CommitReadThrows

\* How a turn of RequestWrite's loop ends for the thread that entered it.
LEMMA WriteTurnEnds ==
  ASSUME FIFOTypeOK, NEW len \in Nat \ {0}, WriteTurn(len), WrReq = 0
  PROVE  /\ UNCHANGED <<readVars, WrPos, Level, EOS, NotifySource>>
         /\ \/ EOS /\ NotifyDrain' = Running /\ wlen' = 0 /\ WrReq' = 0
            \/ NotifyDrain' = Running /\ wlen' \in Nat \ {0} /\ WrReq' = wlen'
            \/ /\ Level = BufferSize /\ ~EOS
               /\ NotifyDrain' = Asleep /\ wlen' = len /\ WrReq' = 0
BY FIFOAssumption
DEF WriteTurn, WriteRefused, WriteGranted, WriteBlocks, Least, FIFOTypeOK, Slots

LEMMA ReadTurnEnds ==
  ASSUME FIFOTypeOK, NEW len \in Nat \ {0}, ReadTurn(len), RdReq = 0
  PROVE  /\ UNCHANGED <<writeVars, RdPos, Level, EOS, NotifyDrain>>
         /\ \/ EOS /\ Level = 0 /\ NotifySource' = Running /\ rlen' = 0 /\ RdReq' = 0
            \/ NotifySource' = Running /\ rlen' \in Nat \ {0} /\ RdReq' = rlen'
            \/ /\ Level = 0 /\ ~EOS
               /\ NotifySource' = Asleep /\ rlen' = len /\ RdReq' = 0
BY FIFOAssumption
DEF ReadTurn, ReadGranted, ReadAtEnd, ReadBlocks, Least, FIFOTypeOK, Slots
-----------------------------------------------------------------------------
(* The steps of the input worker are steps of the writing client. *)

LEMMA InputRequestsMaps ==
  ASSUME RequestSize # 0, ProgramInv, InputRequests
  PROVE  Copy!WriterRequests(RequestSize)
<1>0. FIFOTypeOK /\ wphase = "idle" /\ WrReq = 0 /\ RequestSize \in Nat \ {0}
  BY CopyTypes, InputPhase, Sizes DEF ProgramInv, InputRequests
<1>1. RequestWrite(RequestSize) /\ InputAfterRequest
  BY WorkersLegal DEF InputRequests
<1>2. UNCHANGED <<readVars, WrPos, Level, EOS, NotifySource>>
      /\ \/ NotifyDrain' = Running /\ wlen' = 0 /\ WrReq' = 0
         \/ NotifyDrain' = Running /\ wlen' \in Nat \ {0} /\ WrReq' = wlen'
         \/ NotifyDrain' = Asleep
  BY <1>0, <1>1, WriteTurnEnds DEF RequestWrite
<1>3. wphase' = Copy!PhaseAfter(NotifyDrain', wlen')
  BY <1>1, <1>2 DEF wphase, InputAfterRequest, Copy!PhaseAfter, Copy!Running, Running, Asleep
<1>4. UNCHANGED <<rphase, sawEnd>>
  BY <1>1, <1>2, OutputSame DEF InputRequests, InputAfterRequest, Started, readVars
<1>5. UNCHANGED <<Buffer, accepted, sink>>
  BY <1>1 DEF InputRequests, accepted, InputAfterRequest
<1>6. Copy!RequestWrite(RequestSize)
  BY <1>1 DEF RequestWrite, Copy!RequestWrite, RequestWriteThrows, Copy!RequestWriteThrows,
     WriteTurn, Copy!WriteTurn, WriteRefused, Copy!WriteRefused, WriteGranted,
     Copy!WriteGranted, WriteBlocks, Copy!WriteBlocks, Least, Copy!Least, Increment,
     Copy!Increment, Running, Copy!Running, Asleep, Copy!Asleep, readVars, Copy!readVars
<1> QED BY <1>0, <1>3, <1>4, <1>5, <1>6 DEF Copy!WriterRequests, Copy!streamVars

LEMMA InputResumesMaps ==
  ASSUME ProgramInv, InputResumes
  PROVE  Copy!WriterResumes
<1>0. /\ FIFOTypeOK /\ NotifyDrain # Running /\ wphase = "requesting"
      /\ wlen \in Nat \ {0} /\ WrReq = 0
  <2>1. ipc = "request" /\ NotifyDrain # Running
    BY DEF InputResumes, ResumeWrite, Running, Woken, Stray
  <2>2. wphase = "requesting"
    BY <2>1, InputPhase
  <2> QED BY <2>1, <2>2, CopyTypes, InputPhase DEF ProgramInv
<1>1. UNCHANGED <<readVars, WrPos, Level, EOS, NotifySource>>
      /\ \/ NotifyDrain' = Running /\ wlen' = 0 /\ WrReq' = 0
         \/ NotifyDrain' = Running /\ wlen' \in Nat \ {0} /\ WrReq' = wlen'
         \/ NotifyDrain' = Asleep
  BY <1>0, WriteTurnEnds DEF InputResumes, ResumeWrite
<1>2. wphase' = Copy!PhaseAfter(NotifyDrain', wlen')
  BY <1>1 DEF InputResumes, wphase, InputAfterRequest, Copy!PhaseAfter, Copy!Running,
              Running, Asleep
<1>3. UNCHANGED <<rphase, sawEnd>>
  BY <1>1, OutputSame DEF InputResumes, InputAfterRequest, Started, readVars
<1>4. UNCHANGED <<Buffer, accepted, sink>>
  BY DEF InputResumes, accepted, InputAfterRequest
<1>5. Copy!ResumeWrite
  BY DEF InputResumes, ResumeWrite, Copy!ResumeWrite, WriteTurn, Copy!WriteTurn,
     WriteRefused, Copy!WriteRefused, WriteGranted, Copy!WriteGranted, WriteBlocks,
     Copy!WriteBlocks, Least, Copy!Least, Increment, Copy!Increment, Running,
     Copy!Running, Asleep, Copy!Asleep, Woken, Copy!Woken, Stray, Copy!Stray,
     readVars, Copy!readVars
<1> QED BY <1>0, <1>2, <1>3, <1>4, <1>5 DEF Copy!WriterResumes, Copy!streamVars

\* ReadData stores what it delivers, or nothing at the end of the source; a
\* failure leaves the request to EndWrite.
LEMMA InputReadsMaps ==
  ASSUME ProgramInv, InputReads
  PROVE  (\E k \in 0..BufferSize : Copy!Store(k)) \/ UNCHANGED Copy!vars
<1>0. /\ wlen \in Nat /\ wlen > 0 /\ wlen <= WrReq /\ WrReq \in 0..BufferSize
      /\ wphase = "granted" /\ produced \in 0..StreamLength /\ accepted = produced
      /\ StreamLength \in Nat /\ Buffer \in [Slots -> Nat] /\ wdata \in Nat
      /\ BufferSize \in Nat
  BY CopyTypes, InputPhase, Sizes, FIFOAssumption
  DEF ProgramInv, WorkerInv, InputInv, TypeOK, FIFOTypeOK, InputReads, accepted, Slots
<1>1. UNCHANGED <<rphase, sawEnd>>
  BY OutputSame DEF InputReads, SourceDelivers, SourceEnds, SourceFails, InputThrows,
                    Started, readVars
<1>2. ASSUME NEW k \in 1..wlen, SourceDelivers(k)
      PROVE  k \in 0..BufferSize /\ Copy!Store(k)
  <2>1. wphase' = "moved" /\ accepted' = accepted
    BY <1>0, <1>2 DEF SourceDelivers, wphase, accepted
  <2> QED BY <1>0, <1>1, <1>2, <2>1
          DEF InputReads, SourceDelivers, Copy!Store, Slots, Copy!Slots, readVars,
              Copy!readVars
<1>3. CASE SourceEnds
  <2>1. wphase' = "moved" /\ accepted' = accepted
    BY <1>0, <1>3 DEF InputReads, SourceEnds, wphase, accepted
  <2>2. Buffer = [s \in Slots |-> IF s \in wdata..(wdata + 0 - 1)
                                  THEN accepted + 1 + s - wdata ELSE Buffer[s]]
    BY <1>0
  <2>3. Copy!Store(0)
    BY <1>0, <1>1, <1>3, <2>1, <2>2
    DEF InputReads, SourceEnds, Copy!Store, Slots, Copy!Slots, readVars, Copy!readVars
  <2> QED BY <1>0, <2>3
<1>4. CASE SourceFails
  <2>1. wphase' = wphase /\ accepted' = accepted
    BY <1>0, <1>4 DEF InputReads, SourceFails, InputThrows, wphase, accepted
  <2> QED BY <1>1, <1>4, <2>1
          DEF InputReads, SourceFails, Copy!vars, Copy!fifoVars, Copy!readVars,
              Copy!writeVars, readVars
<1> QED BY <1>2, <1>3, <1>4 DEF InputReads

LEMMA InputCommitsMaps ==
  ASSUME ProgramInv, InputCommits
  PROVE  Copy!WriterCommits
<1>0. wphase = "moved" /\ NotifyDrain = Running /\ wlen \in Nat
  BY CopyTypes, InputPhase DEF InputCommits, ProgramInv
<1>1. CommitWrite(wdata, wlen) /\ ipc' = "request"
  BY WorkersLegal DEF InputCommits
<1>2. wphase' = "idle" /\ accepted' = accepted + wlen
  <2>1. produced \in Nat
    BY Sizes DEF ProgramInv, WorkerInv, TypeOK
  <2> QED BY <1>0, <1>1, <2>1
          DEF InputCommits, CommitWrite, wphase, accepted, Running
<1>3. UNCHANGED <<rphase, sawEnd>>
  BY <1>1, OutputSame
  DEF InputCommits, CommitWrite, NotifyAll, Running, Asleep, Woken, Started, readVars
<1>4. Copy!CommitWrite(wdata, wlen)
  BY <1>1 DEF CommitWrite, Copy!CommitWrite, CommitWriteThrows, Copy!CommitWriteThrows,
     Advance, Copy!Advance, NotifyAll, Copy!NotifyAll, Asleep, Copy!Asleep, Woken,
     Copy!Woken, readVars, Copy!readVars
<1> QED BY <1>0, <1>2, <1>3, <1>4 DEF Copy!WriterCommits, InputCommits

LEMMA InputEndsMaps ==
  ASSUME ProgramInv, InputEnds
  PROVE  Copy!WriterEnds
<1>1. wphase # "requesting" /\ wphase' = "idle" /\ accepted' = accepted
  BY DEF InputEnds, wphase, accepted
<1>2. UNCHANGED <<rphase, sawEnd>>
  BY OutputSame
  DEF InputEnds, EndWrite, NotifyAll, Running, Asleep, Woken, Started, readVars
<1>3. Copy!EndWrite
  BY DEF InputEnds, EndWrite, Copy!EndWrite, NotifyAll, Copy!NotifyAll, Asleep,
         Copy!Asleep, Woken, Copy!Woken, readVars, Copy!readVars
<1> QED BY <1>1, <1>2, <1>3 DEF InputEnds, Copy!WriterEnds, Copy!streamVars

\* The rest of the input worker's life does not concern the FIFO.
LEMMA InputIdleMaps ==
  ASSUME ProgramInv, InputInitializes \/ InputCloses
  PROVE  UNCHANGED Copy!vars
<1>0. wphase = "idle" /\ NotifyDrain = Running /\ WrReq = 0
  BY InputPhase DEF InputInitializes, InputCloses
<1>1. wphase' = "idle" /\ accepted' = accepted
  BY <1>0 DEF InputInitializes, InputThrows, InputCloses, fifoVars, writeVars, wphase,
              accepted
<1>2. UNCHANGED <<rphase, sawEnd>>
  BY OutputSame DEF InputInitializes, InputThrows, InputCloses, fifoVars, readVars, Started
<1> QED BY <1>0, <1>1, <1>2
        DEF InputInitializes, InputCloses, fifoVars, readVars, writeVars,
            Copy!vars, Copy!fifoVars, Copy!readVars, Copy!writeVars
-----------------------------------------------------------------------------
(* The steps of main and of the output worker are steps of the reading client. *)

LEMMA OutputRequestsMaps ==
  ASSUME RequestSize # 0, ProgramInv, OutputRequests
  PROVE  Copy!ReaderRequests(RequestSize)
<1>0. /\ FIFOTypeOK /\ rphase = "idle" /\ RdReq = 0 /\ RequestSize \in Nat \ {0}
      /\ Started /\ oResult = 0 /\ mpc = "request" /\ NotifySource = Running
  BY CopyTypes, OutputPhase, Sizes
  DEF ProgramInv, OutputRequests, WorkerInv, StartInv, OutputInv, Started
<1>1. RequestRead(RequestSize) /\ OutputAfterRequest
  BY WorkersLegal DEF OutputRequests
<1>2. UNCHANGED <<writeVars, RdPos, Level, EOS, NotifyDrain>>
      /\ \/ NotifySource' = Running /\ rlen' = 0 /\ RdReq' = 0
         \/ NotifySource' = Running /\ rlen' \in Nat \ {0} /\ RdReq' = rlen'
         \/ NotifySource' = Asleep /\ rlen' \in Nat \ {0}
  BY <1>0, <1>1, ReadTurnEnds DEF RequestRead
<1>3. rphase' = Copy!PhaseAfter(NotifySource', rlen')
  BY <1>1, <1>2 DEF rphase, OutputAfterRequest, Copy!PhaseAfter, Copy!Running, Running, Asleep
<1>4. sawEnd' = (sawEnd \/ rlen' = 0)
  BY <1>0, <1>1, <1>2
  DEF OutputRequests, OutputAfterRequest, sawEnd, Started, Running, Asleep
<1>5. UNCHANGED <<wphase, accepted>>
  BY <1>1, <1>2, InputSame DEF OutputRequests, writeVars
<1>6. Copy!RequestRead(RequestSize)
  BY <1>1 DEF RequestRead, Copy!RequestRead, RequestReadThrows, Copy!RequestReadThrows,
     ReadTurn, Copy!ReadTurn, ReadGranted, Copy!ReadGranted, ReadAtEnd, Copy!ReadAtEnd,
     ReadBlocks, Copy!ReadBlocks, Least, Copy!Least, Increment, Copy!Increment, Running,
     Copy!Running, Asleep, Copy!Asleep, writeVars, Copy!writeVars
<1> QED BY <1>0, <1>3, <1>4, <1>5, <1>6 DEF Copy!ReaderRequests, OutputRequests

LEMMA OutputResumesMaps ==
  ASSUME ProgramInv, OutputResumes
  PROVE  Copy!ReaderResumes
<1>0. /\ FIFOTypeOK /\ rphase = "requesting" /\ rlen \in Nat \ {0} /\ RdReq = 0
      /\ Started /\ oResult = 0
  <2>1. mpc = "request" /\ NotifySource # Running
    BY DEF OutputResumes, ResumeRead, Running, Woken, Stray
  <2>2. rphase = "requesting"
    BY <2>1, OutputPhase
  <2> QED BY <2>1, <2>2, CopyTypes, OutputPhase
          DEF ProgramInv, WorkerInv, StartInv, OutputInv, Started
<1>1. UNCHANGED <<writeVars, RdPos, Level, EOS, NotifyDrain>>
      /\ \/ NotifySource' = Running /\ rlen' = 0 /\ RdReq' = 0
         \/ NotifySource' = Running /\ rlen' \in Nat \ {0} /\ RdReq' = rlen'
         \/ NotifySource' = Asleep /\ rlen' \in Nat \ {0}
  BY <1>0, ReadTurnEnds DEF OutputResumes, ResumeRead
<1>2. rphase' = Copy!PhaseAfter(NotifySource', rlen')
  BY <1>1 DEF OutputResumes, rphase, OutputAfterRequest, Copy!PhaseAfter, Copy!Running,
              Running, Asleep
<1>3. sawEnd' = (sawEnd \/ rlen' = 0)
  BY <1>0, <1>1
  DEF OutputResumes, OutputAfterRequest, sawEnd, Started, Running, Asleep
<1>4. UNCHANGED <<wphase, accepted>>
  BY <1>1, InputSame DEF OutputResumes, writeVars
<1>5. Copy!ResumeRead
  BY DEF OutputResumes, ResumeRead, Copy!ResumeRead, ReadTurn, Copy!ReadTurn, ReadGranted,
     Copy!ReadGranted, ReadAtEnd, Copy!ReadAtEnd, ReadBlocks, Copy!ReadBlocks, Least,
     Copy!Least, Increment, Copy!Increment, Running, Copy!Running, Asleep, Copy!Asleep,
     Woken, Copy!Woken, Stray, Copy!Stray, writeVars, Copy!writeVars
<1> QED BY <1>0, <1>2, <1>3, <1>4, <1>5 DEF Copy!ReaderResumes, OutputResumes

\* WriteData fetches what it takes, or nothing if it refuses.
LEMMA OutputWritesMaps ==
  ASSUME ProgramInv, OutputWrites
  PROVE  (\E k \in 0..BufferSize : Copy!Fetch(k)) \/ UNCHANGED Copy!vars
<1>0. /\ rlen \in Nat /\ rlen > 0 /\ rlen <= RdReq /\ RdReq \in 0..BufferSize
      /\ rphase = "granted" /\ sink \in Seq(Nat) /\ BufferSize \in Nat
      /\ sawEnd = FALSE
  BY CopyTypes, OutputPhase, FIFOAssumption
  DEF ProgramInv, WorkerInv, OutputInv, FIFOTypeOK, OutputWrites, sawEnd
<1>1. UNCHANGED <<wphase, accepted>>
  BY InputSame DEF OutputWrites, writeVars
<1>2. ASSUME NEW k \in 1..rlen, DestinationTakes(k)
      PROVE  k \in 0..BufferSize /\ Copy!Fetch(k)
  <2>1. rphase' = "moved" /\ sawEnd' = sawEnd
    BY <1>0, <1>2 DEF DestinationTakes, rphase, sawEnd
  <2> QED BY <1>0, <1>1, <1>2, <2>1
          DEF OutputWrites, DestinationTakes, Written, Copy!Fetch, writeVars,
              Copy!writeVars
<1>3. CASE DestinationRefuses
  <2>1. rphase' = "moved" /\ sawEnd' = sawEnd
    BY <1>0, <1>3
    DEF OutputWrites, DestinationRefuses, RefusalThrows, OutputThrows, rphase, sawEnd
  <2>2. sink = sink \o [i \in 1..0 |-> Buffer[rdata + i - 1]]
    BY <1>0
  <2>3. Copy!Fetch(0)
    BY <1>0, <1>1, <1>3, <2>1, <2>2
    DEF OutputWrites, DestinationRefuses, Copy!Fetch, writeVars, Copy!writeVars
  <2> QED BY <1>0, <2>3
<1>4. CASE DestinationFails
  <2>1. rphase' = rphase /\ sawEnd' = sawEnd
    BY <1>0, <1>4 DEF OutputWrites, DestinationFails, OutputThrows, rphase, sawEnd
  <2> QED BY <1>1, <1>4, <2>1
          DEF OutputWrites, DestinationFails, Copy!vars, Copy!fifoVars, Copy!readVars,
              Copy!writeVars, writeVars
<1> QED BY <1>2, <1>3, <1>4 DEF OutputWrites

LEMMA OutputCommitsMaps ==
  ASSUME ProgramInv, OutputCommits
  PROVE  Copy!ReaderCommits
<1>0. rphase = "moved" /\ NotifySource = Running
  BY OutputPhase DEF OutputCommits
<1>1. CommitRead(rdata, rlen) /\ mpc' = "request"
  BY WorkersLegal DEF OutputCommits
<1>2. rphase' = "idle" /\ sawEnd' = sawEnd
  BY <1>0, <1>1 DEF OutputCommits, CommitRead, rphase, sawEnd, Running
<1>3. UNCHANGED <<wphase, accepted>>
  BY <1>1, InputSame
  DEF OutputCommits, CommitRead, NotifyAll, Running, Asleep, Woken, writeVars
<1>4. Copy!CommitRead(rdata, rlen)
  BY <1>1 DEF CommitRead, Copy!CommitRead, CommitReadThrows, Copy!CommitReadThrows,
     Advance, Copy!Advance, NotifyAll, Copy!NotifyAll, Asleep, Copy!Asleep, Woken,
     Copy!Woken, writeVars, Copy!writeVars
<1> QED BY <1>0, <1>2, <1>3, <1>4 DEF Copy!ReaderCommits, Copy!streamVars, OutputCommits

LEMMA OutputEndsMaps ==
  ASSUME ProgramInv, OutputEnds
  PROVE  Copy!ReaderEnds
<1>0. Started
  BY DEF OutputEnds, ProgramInv, WorkerInv, StartInv, Started
<1>1. rphase \notin {"requesting", "closed"} /\ rphase' = "closed" /\ sawEnd' = sawEnd
  BY <1>0 DEF OutputEnds, rphase, sawEnd, Started
<1>2. UNCHANGED <<wphase, accepted>>
  BY InputSame DEF OutputEnds, EndRead, NotifyAll, Running, Asleep, Woken, writeVars
<1>3. Copy!EndRead
  BY DEF OutputEnds, EndRead, Copy!EndRead, NotifyAll, Copy!NotifyAll, Asleep,
         Copy!Asleep, Woken, Copy!Woken, writeVars, Copy!writeVars
<1> QED BY <1>1, <1>2, <1>3 DEF OutputEnds, Copy!ReaderEnds, Copy!streamVars

LEMMA MainIdleMaps ==
  ASSUME ProgramInv, MainStarts \/ OutputInitializes \/ MainExits
  PROVE  UNCHANGED Copy!vars
<1>0. /\ UNCHANGED <<fifoVars, Buffer, sink, produced>> /\ RdReq = 0
      /\ mpc # "request" /\ NotifySource = Running
      /\ ipc # "request" => NotifyDrain = Running
  <2>1. mpc \in {"start", "initialize", "join"} /\ (mpc = "join" => ipc = "done")
    BY DEF MainStarts, OutputInitializes, MainExits
  <2>2. mpc = "join" => rphase = "closed"
    BY <2>1, OutputPhase DEF MainStopped, Started
  <2> QED BY <2>1, <2>2, OutputPhase, InputPhase
          DEF MainStarts, OutputInitializes, MainExits
<1>1. rphase' = rphase /\ sawEnd' = sawEnd
  BY <1>0 DEF MainStarts, OutputInitializes, OutputThrows, MainExits, fifoVars, readVars,
     rphase, sawEnd, Started, ProgramInv, WorkerInv, StartInv, Running
<1>2. wphase' = wphase /\ accepted' = accepted
  BY <1>0 DEF MainStarts, OutputInitializes, MainExits, fifoVars, writeVars, wphase,
     accepted, ProgramInv, WorkerInv, StartInv
<1> QED BY <1>0, <1>1, <1>2
        DEF fifoVars, readVars, writeVars,
            Copy!vars, Copy!fifoVars, Copy!readVars, Copy!writeVars
-----------------------------------------------------------------------------
LEMMA SpuriousWakeMaps ==
  ASSUME SpuriousWake
  PROVE  Copy!SpuriousWake
<1>1. UNCHANGED <<wphase, accepted>>
  BY InputSame
  DEF SpuriousWake, SpuriousWakeSource, SpuriousWakeDrain, workerVars, writeVars,
      Running, Asleep, Stray
<1>2. UNCHANGED <<rphase, sawEnd>>
  BY OutputSame
  DEF SpuriousWake, SpuriousWakeSource, SpuriousWakeDrain, workerVars, readVars,
      Running, Asleep, Stray, Started
<1> QED BY <1>1, <1>2
    DEF SpuriousWake, Copy!SpuriousWake, SpuriousWakeSource, Copy!SpuriousWakeSource,
        SpuriousWakeDrain, Copy!SpuriousWakeDrain, workerVars, Asleep, Copy!Asleep,
        Stray, Copy!Stray, readVars, Copy!readVars, writeVars, Copy!writeVars,
        Copy!streamVars

LEMMA StutterMaps ==
  ASSUME UNCHANGED vars
  PROVE  UNCHANGED Copy!vars
BY DEF vars, workerVars, fifoVars, readVars, writeVars, Copy!vars, Copy!fifoVars,
       Copy!readVars, Copy!writeVars, accepted, sawEnd, wphase, rphase, Started

\* Every step of the program is a step of the two clients, or none of theirs.
LEMMA ProgramStep ==
  ASSUME RequestSize # 0, ProgramInv, [Next]_vars
  PROVE  [Copy!Next]_(Copy!vars)
<1>0. RequestSize \in 1..RequestSize
  BY Sizes
<1>1. CASE InputThread
  BY <1>0, <1>1, InputRequestsMaps, InputResumesMaps, InputReadsMaps, InputCommitsMaps,
     InputEndsMaps, InputIdleMaps DEF InputThread, Copy!Next
<1>2. CASE MainThread
  BY <1>0, <1>2, OutputRequestsMaps, OutputResumesMaps, OutputWritesMaps,
     OutputCommitsMaps, OutputEndsMaps, MainIdleMaps DEF MainThread, Copy!Next
<1>3. CASE SpuriousWake
  BY <1>3, SpuriousWakeMaps DEF Copy!Next
<1>4. CASE Terminated \/ UNCHANGED vars
  BY <1>4, StutterMaps DEF Terminated
<1> QED BY <1>1, <1>2, <1>3, <1>4 DEF Next

LEMMA ProgramInit ==
  ASSUME Init
  PROVE  Copy!Init
BY DEF Init, FIFOInit, Copy!Init, Copy!FIFOInit, Slots, Copy!Slots, Running,
       Copy!Running, accepted, sawEnd, wphase, rphase, Started

\* Hence the invariant of the clients is kept.
LEMMA CopyStep ==
  ASSUME RequestSize # 0, ProgramInv, [Next]_vars
  PROVE  Copy!ClientInv'
<1>1. Copy!ClientInv /\ [Copy!Next]_(Copy!vars)
  BY ProgramStep DEF ProgramInv
<1> QED BY <1>1, Sizes, FIFOAssumption, Copy!ClientStep
-----------------------------------------------------------------------------
(* WorkerInv is kept: first what a step of each thread does to the places, the *)
(* results, the end of the stream and the level.                               *)

LEMMA InputEffect ==
  ASSUME RequestSize # 0, ProgramInv, InputThread
  PROVE  /\ UNCHANGED <<mpc, oResult, exitCode, destination, sink, rlen, RdReq>>
         /\ NotifySource' = Asleep => NotifySource = Asleep
         /\ \/ /\ InputInitializes /\ UNCHANGED <<fifoVars, produced>>
            \/ /\ ipc = "request" /\ EOS /\ ipc' = "end" /\ NotifyDrain' = Running
               /\ UNCHANGED <<iResult, source, produced, EOS, Level, NotifySource>>
            \/ /\ ipc = "request" /\ ipc' = "read" /\ wlen' > 0 /\ NotifyDrain' = Running
               /\ UNCHANGED <<iResult, source, produced, EOS, Level, NotifySource>>
            \/ /\ ipc = "request" /\ ipc' = "request" /\ NotifyDrain' = Asleep
               /\ Level = BufferSize /\ ~EOS
               /\ UNCHANGED <<iResult, source, produced, EOS, Level, NotifySource>>
            \/ /\ InputReads
               /\ UNCHANGED <<EOS, Level, NotifySource, NotifyDrain>>
            \/ /\ ipc = "commit" /\ ipc' = "request" /\ Level' = Level + wlen
               /\ UNCHANGED <<iResult, source, produced, EOS, NotifyDrain>>
            \/ /\ ipc = "end" /\ ipc' = "close" /\ EOS'
               /\ UNCHANGED <<iResult, source, produced, Level, NotifyDrain>>
            \/ /\ InputCloses /\ UNCHANGED <<fifoVars, produced, source, iResult>>
<1>0. RequestSize \in Nat \ {0}
  BY Sizes
<1>1. FIFOTypeOK /\ wlen \in Nat /\ Level \in Nat /\ BufferSize \in Nat
  BY CopyTypes, FIFOAssumption DEF ProgramInv
<1>2. CASE InputRequests
  <2>1. RequestWrite(RequestSize) /\ InputAfterRequest /\ WrReq = 0
    BY <1>2, WorkersLegal DEF InputRequests, RequestWriteThrows
  <2> QED BY <1>0, <1>1, <1>2, <2>1, WriteTurnEnds
          DEF InputRequests, RequestWrite, InputAfterRequest, readVars, Running, Asleep
<1>3. CASE InputResumes
  <2>1. wlen \in Nat \ {0} /\ WrReq = 0
    BY <1>1, <1>3, InputPhase DEF InputResumes, ResumeWrite, Running, Woken, Stray
  <2> QED BY <1>1, <1>3, <2>1, WriteTurnEnds
          DEF InputResumes, ResumeWrite, InputAfterRequest, readVars, Running, Asleep
<1>4. CASE InputCommits
  <2>1. CommitWrite(wdata, wlen) /\ ipc' = "request" /\ iResult' = iResult
    BY <1>4, WorkersLegal DEF InputCommits
  <2> QED BY <1>1, <1>4, <2>1
          DEF InputCommits, CommitWrite, readVars, NotifyAll, Asleep, Woken
<1>5. CASE InputEnds
  BY <1>5 DEF InputEnds, EndWrite, readVars, NotifyAll, Asleep, Woken
<1>6. CASE InputReads
  BY <1>6 DEF InputReads, readVars
<1>7. CASE InputInitializes \/ InputCloses
  BY <1>7 DEF InputInitializes, InputCloses, fifoVars, readVars
<1> QED BY <1>2, <1>3, <1>4, <1>5, <1>6, <1>7 DEF InputThread

LEMMA MainEffect ==
  ASSUME RequestSize # 0, ProgramInv, MainThread
  PROVE  /\ UNCHANGED <<iResult, source, produced, wlen, WrReq>>
         /\ NotifyDrain' = Asleep => NotifyDrain = Asleep
         /\ mpc # "start" => UNCHANGED ipc
         /\ \/ /\ MainStarts /\ UNCHANGED <<fifoVars, sink>>
            \/ /\ OutputInitializes /\ UNCHANGED <<fifoVars, sink>>
            \/ /\ mpc = "request" /\ EOS /\ Level = 0 /\ mpc' = "end"
               /\ NotifySource' = Running
               /\ UNCHANGED <<oResult, exitCode, destination, EOS, Level, NotifyDrain>>
            \/ /\ mpc = "request" /\ mpc' = "write" /\ rlen' > 0
               /\ NotifySource' = Running
               /\ UNCHANGED <<oResult, exitCode, destination, EOS, Level, NotifyDrain>>
            \/ /\ mpc = "request" /\ mpc' = "request" /\ NotifySource' = Asleep
               /\ Level = 0 /\ ~EOS
               /\ UNCHANGED <<oResult, exitCode, destination, EOS, Level, NotifyDrain>>
            \/ /\ OutputWrites
               /\ UNCHANGED <<exitCode, EOS, Level, NotifySource, NotifyDrain>>
            \/ /\ mpc = "commit" /\ mpc' = "request" /\ Level' = Level - rlen
               /\ UNCHANGED <<oResult, exitCode, destination, EOS, NotifySource>>
            \/ /\ mpc = "end" /\ mpc' = "join" /\ EOS'
               /\ UNCHANGED <<oResult, exitCode, destination, Level, NotifySource>>
            \/ /\ MainExits /\ UNCHANGED <<fifoVars, oResult, destination>>
<1>0. RequestSize \in Nat \ {0}
  BY Sizes
<1>1. FIFOTypeOK /\ rlen \in Nat /\ Level \in Nat
  BY CopyTypes DEF ProgramInv
<1>2. CASE OutputRequests
  <2>1. RequestRead(RequestSize) /\ OutputAfterRequest /\ RdReq = 0
    BY <1>2, WorkersLegal DEF OutputRequests, RequestReadThrows
  <2> QED BY <1>0, <1>1, <1>2, <2>1, ReadTurnEnds
          DEF OutputRequests, RequestRead, OutputAfterRequest, writeVars, Running, Asleep
<1>3. CASE OutputResumes
  <2>1. rlen \in Nat \ {0} /\ RdReq = 0
    BY <1>1, <1>3, OutputPhase DEF OutputResumes, ResumeRead, Running, Woken, Stray
  <2> QED BY <1>1, <1>3, <2>1, ReadTurnEnds
          DEF OutputResumes, ResumeRead, OutputAfterRequest, writeVars, Running, Asleep
<1>4. CASE OutputCommits
  <2>1. CommitRead(rdata, rlen) /\ mpc' = "request" /\ oResult' = oResult
    BY <1>4, WorkersLegal DEF OutputCommits
  <2> QED BY <1>1, <1>4, <2>1 DEF OutputCommits, CommitRead, writeVars, NotifyAll, Asleep, Woken
<1>5. CASE OutputEnds
  BY <1>5 DEF OutputEnds, EndRead, writeVars, NotifyAll, Asleep, Woken
<1>6. CASE OutputWrites
  BY <1>6 DEF OutputWrites, writeVars
<1>7. CASE MainStarts \/ OutputInitializes \/ MainExits
  BY <1>7 DEF MainStarts, OutputInitializes, MainExits, fifoVars, writeVars
<1> QED BY <1>2, <1>3, <1>4, <1>5, <1>6, <1>7 DEF MainThread

LEMMA OtherEffect ==
  ASSUME SpuriousWake \/ Terminated \/ UNCHANGED vars
  PROVE  /\ UNCHANGED <<workerVars, Level, EOS, rlen, RdReq, wlen, WrReq>>
         /\ NotifySource' = NotifySource \/ NotifySource' = Stray
         /\ NotifyDrain' = NotifyDrain \/ NotifyDrain' = Stray
BY DEF SpuriousWake, SpuriousWakeSource, SpuriousWakeDrain, Terminated, vars,
       fifoVars, readVars, writeVars

\* The domains of the program's variables, given those of the FIFO's.
LEMMA TypeStep ==
  ASSUME RequestSize # 0, ProgramInv, [Next]_vars
  PROVE  TypeOK'
<1>1. FIFOTypeOK' /\ Buffer' \in [Slots -> Nat] /\ sink' \in Seq(Nat)
  BY CopyStep, CopyTypesNext
<1> SUFFICES /\ mpc' \in MainPlaces /\ ipc' \in InputPlaces
             /\ mpc' = "exited" => ipc' \in {"none", "done"}
             /\ iResult' \in {0, 10, 19, 28} /\ oResult' \in {0, 11, 19, 28}
             /\ exitCode' \in {NoCode, 0, 10, 11, 19, 28, 29, 49}
             /\ source' \in {"new", "open", "ended", "failed"}
             /\ destination' \in {"new", "open", "failed"}
             /\ produced' \in 0..StreamLength
  BY <1>1 DEF TypeOK
<1>0. TypeOK /\ StartInv /\ StreamLength \in Nat
  BY Sizes DEF ProgramInv, WorkerInv
<1> USE <1>0 DEF TypeOK, MainPlaces, InputPlaces
<1>2. CASE InputThread
  <2>1. CASE InputReads
    BY <2>1 DEF InputReads, SourceDelivers, SourceEnds, SourceFails, InputThrows
  <2> QED BY <1>2, <2>1, InputEffect DEF InputInitializes, InputThrows, InputCloses
<1>3. CASE MainThread
  <2>1. CASE OutputWrites
    BY <2>1 DEF OutputWrites, DestinationTakes, DestinationRefuses, RefusalThrows,
                DestinationFails, OutputThrows
  <2> QED BY <1>3, <2>1, MainEffect
          DEF MainStarts, OutputInitializes, OutputThrows, MainExits, Result, StartInv
<1>4. CASE SpuriousWake \/ Terminated \/ UNCHANGED vars
  BY <1>4, OtherEffect DEF workerVars
<1> QED BY <1>2, <1>3, <1>4 DEF Next

LEMMA StartStep ==
  ASSUME RequestSize # 0, ProgramInv, [Next]_vars
  PROVE  StartInv'
<1>0. TypeOK /\ StartInv /\ EndInv
  BY DEF ProgramInv, WorkerInv
<1> USE <1>0 DEF StartInv, Started, Result
<1>1. CASE InputThread
  <2>1. ipc \notin {"none", "done"} /\ ipc' # "none" /\ UNCHANGED <<mpc, exitCode>>
    BY <1>1, InputEffect
    DEF InputInitializes, InputReads, SourceDelivers, SourceEnds, SourceFails,
        InputThrows, InputCloses
  <2> QED BY <2>1
<1>2. CASE MainThread
  <2>2. CASE MainStarts
    BY <2>2 DEF MainStarts, NoCode, fifoVars
  <2>3. CASE MainExits
    BY <2>3 DEF MainExits, Result, NoCode, TypeOK
  <2>4. CASE OutputWrites
    BY <1>2, <2>4 DEF OutputWrites, DestinationTakes, DestinationRefuses, RefusalThrows,
                DestinationFails, OutputThrows
  <2> QED BY <1>2, <2>2, <2>3, <2>4, MainEffect DEF OutputInitializes, OutputThrows
<1>3. CASE SpuriousWake \/ Terminated \/ UNCHANGED vars
  BY <1>3, OtherEffect DEF workerVars
<1> QED BY <1>1, <1>2, <1>3 DEF Next

LEMMA EndStep ==
  ASSUME RequestSize # 0, ProgramInv, [Next]_vars
  PROVE  EndInv'
<1>0. StartInv /\ EndInv /\ EOS \in BOOLEAN
  BY DEF ProgramInv, WorkerInv, TypeOK, FIFOTypeOK
<1> USE <1>0 DEF EndInv, MainStopped, Started
<1>1. CASE InputThread
  <2>1. /\ ipc \notin {"none", "done"} /\ ipc' # "none" /\ UNCHANGED mpc
        /\ \/ EOS' = EOS /\ (ipc' \in {"close", "done"} <=> ipc \in {"close", "done"})
           \/ EOS' = TRUE /\ ipc' = "close"
    BY <1>1, InputEffect
    DEF InputInitializes, InputReads, SourceDelivers, SourceEnds, SourceFails,
        InputThrows, InputCloses, fifoVars
  <2> QED BY <2>1
<1>2. CASE MainThread
  <2>1. \/ /\ EOS' = EOS /\ (MainStopped' <=> MainStopped)
           /\ ipc' \in {"close", "done"} <=> ipc \in {"close", "done"}
        \/ EOS' = TRUE /\ MainStopped'
    BY <1>2, MainEffect
    DEF MainStarts, OutputInitializes, OutputThrows, OutputWrites, DestinationTakes,
        DestinationRefuses, RefusalThrows, DestinationFails, MainExits, StartInv,
        fifoVars
  <2> QED BY <2>1
<1>3. CASE SpuriousWake \/ Terminated \/ UNCHANGED vars
  BY <1>3, OtherEffect DEF workerVars
<1> QED BY <1>1, <1>2, <1>3 DEF Next

\* An input worker that found the end after a request was stopped by the output
\* worker, which had failed: a regular end of the output needs one of the input.
LEMMA InputStep ==
  ASSUME RequestSize # 0, ProgramInv, [Next]_vars
  PROVE  InputInv'
<1>0. StartInv /\ EndInv /\ InputInv /\ OutputInv
  BY DEF ProgramInv, WorkerInv
<1> USE <1>0 DEF InputInv, MainStopped, Started
<1>1. CASE InputThread
  <2>1. UNCHANGED <<mpc, oResult>>
    BY <1>1, InputEffect
  <2>2. CASE InputReads
    BY <2>1, <2>2
    DEF InputReads, SourceDelivers, SourceEnds, SourceFails, InputThrows
  <2>3. CASE ipc = "request" /\ EOS /\ ipc' = "end" /\ UNCHANGED <<iResult, source>>
    <3>1. MainStopped /\ oResult # 0
      BY <2>3 DEF EndInv, OutputInv, StartInv
    <3> QED BY <2>1, <2>3, <3>1
  <2>4. CASE InputInitializes
    BY <2>1, <2>4 DEF InputInitializes, InputThrows
  <2>5. CASE InputCloses
    BY <2>1, <2>5 DEF InputCloses
  <2> QED BY <1>1, <2>1, <2>2, <2>3, <2>4, <2>5, InputEffect
<1>2. CASE MainThread
  <2>1. /\ UNCHANGED <<iResult, source, wlen>>
        /\ ipc' # ipc => ipc = "none" /\ ipc' = "initialize"
        /\ MainStopped /\ oResult # 0 => MainStopped' /\ oResult' # 0
    BY <1>2, MainEffect
    DEF MainStarts, OutputInitializes, OutputWrites, MainExits, StartInv
  <2> QED BY <2>1
<1>3. CASE SpuriousWake \/ Terminated \/ UNCHANGED vars
  BY <1>3, OtherEffect DEF workerVars
<1> QED BY <1>1, <1>2, <1>3 DEF Next

LEMMA OutputStep ==
  ASSUME RequestSize # 0, ProgramInv, [Next]_vars
  PROVE  OutputInv'
<1>0. StartInv /\ EndInv /\ InputInv /\ OutputInv
  BY DEF ProgramInv, WorkerInv
<1> USE <1>0 DEF OutputInv, Started
<1>1. CASE InputThread
  <2>1. /\ UNCHANGED <<mpc, oResult, destination, rlen>>
        /\ ipc # "none" /\ ipc' # "none"
        /\ ipc \in {"close", "done"} => ipc' \in {"close", "done"} /\ Level' = Level
    BY <1>1, InputEffect
    DEF InputInitializes, InputReads, SourceDelivers, SourceEnds, SourceFails,
        InputThrows, InputCloses, fifoVars
  <2> QED BY <2>1
<1>2. CASE MainThread
  <2>1. CASE OutputWrites
    BY <1>2, <2>1, MainEffect
    DEF OutputWrites, DestinationTakes, Written, DestinationRefuses, RefusalThrows,
        DestinationFails, OutputThrows, StartInv
  <2>2. CASE mpc = "request" /\ EOS /\ Level = 0 /\ mpc' = "end"
             /\ UNCHANGED <<oResult, destination, Level, ipc>>
    BY <2>2 DEF EndInv, MainStopped
  <2>3. CASE MainStarts
    BY <2>3 DEF MainStarts, StartInv
  <2>4. CASE OutputInitializes
    <3>1. ipc # "none" /\ ipc' = ipc /\ oResult = 0
      BY <1>2, <2>4, MainEffect DEF OutputInitializes, StartInv
    <3> QED BY <2>4, <3>1 DEF OutputInitializes, OutputThrows
  <2>5. CASE MainExits
    BY <2>5 DEF MainExits, fifoVars
  <2> QED BY <1>2, <2>1, <2>2, <2>3, <2>4, <2>5, MainEffect DEF StartInv
<1>3. CASE SpuriousWake \/ Terminated \/ UNCHANGED vars
  BY <1>3, OtherEffect DEF workerVars
<1> QED BY <1>1, <1>2, <1>3 DEF Next

LEMMA WokenInvStep ==
  ASSUME RequestSize # 0, ProgramInv, [Next]_vars
  PROVE  WokenInv'
<1>0. /\ WokenInv /\ InputInv /\ OutputInv /\ Level \in 0..BufferSize
      /\ Level' \in 0..BufferSize /\ BufferSize \in Nat
      /\ wlen \in Nat /\ rlen \in Nat
  BY CopyTypes, CopyStep, CopyTypesNext, FIFOAssumption
  DEF ProgramInv, WorkerInv, FIFOTypeOK
<1> USE <1>0 DEF WokenInv, Running, Asleep, Woken, Stray
<1>1. CASE InputThread
  <2>1. CASE ipc = "commit" /\ Level' = Level + wlen /\ UNCHANGED NotifyDrain
    <3>1. Level' > 0
      BY <2>1 DEF InputInv
    <3>2. NotifyDrain = Running
      BY <2>1, InputPhase
    <3> QED BY <2>1, <3>1, <3>2
  <2> QED BY <1>1, <2>1, InputEffect, InputPhase
          DEF InputInitializes, InputCloses, fifoVars
<1>2. CASE MainThread
  <2>1. CASE mpc = "commit" /\ Level' = Level - rlen /\ UNCHANGED NotifySource
    <3>1. Level' < BufferSize
      BY <2>1 DEF OutputInv
    <3>2. NotifySource = Running
      BY <2>1, OutputPhase
    <3> QED BY <2>1, <3>1, <3>2
  <2> QED BY <1>2, <2>1, MainEffect, OutputPhase
          DEF MainStarts, OutputInitializes, MainExits, fifoVars
<1>3. CASE SpuriousWake \/ Terminated \/ UNCHANGED vars
  BY <1>3, OtherEffect
<1> QED BY <1>1, <1>2, <1>3 DEF Next

LEMMA ProgramInvInit ==
  ASSUME RequestSize # 0, Init
  PROVE  ProgramInv
<1>1. Copy!ClientInv
  BY ProgramInit, Sizes, FIFOAssumption, Copy!ClientInit
<1>2. FIFOTypeOK /\ Buffer \in [Slots -> Nat] /\ sink \in Seq(Nat)
  BY <1>1, CopyTypes
<1>3. TypeOK
  BY <1>2, Sizes DEF Init, TypeOK, MainPlaces, InputPlaces, NoCode
<1>4. EOS = FALSE
  BY DEF Init, FIFOInit
<1>5. WokenInv
  BY DEF Init, FIFOInit, WokenInv, Running, Woken
<1> QED BY <1>1, <1>3, <1>4, <1>5
        DEF Init, ProgramInv, WorkerInv, StartInv, EndInv, InputInv, OutputInv,
            MainStopped, Started, NoCode

LEMMA ProgramInvStep ==
  ASSUME RequestSize # 0, ProgramInv, [Next]_vars
  PROVE  ProgramInv'
BY CopyStep, TypeStep, StartStep, EndStep, InputStep, OutputStep, WokenInvStep
DEF ProgramInv, WorkerInv

\* The clients of the proofs are those of the refinement that Buffer2 states.
LEMMA SameClient == [Copy!Next]_(Copy!vars) <=> [Client!Next]_(Client!vars)
BY DEF
  Copy!Next, Client!Next, Copy!vars, Client!vars, Copy!fifoVars,
  Client!fifoVars, Copy!readVars, Client!readVars, Copy!writeVars,
  Client!writeVars, Copy!streamVars, Client!streamVars, Copy!Slots,
  Client!Slots, Copy!Running, Client!Running, Copy!Asleep, Client!Asleep,
  Copy!Woken, Client!Woken, Copy!Stray, Client!Stray, Copy!Least, Client!Least,
  Copy!Increment, Client!Increment, Copy!Advance, Client!Advance,
  Copy!NotifyAll, Client!NotifyAll, Copy!RequestWriteThrows,
  Client!RequestWriteThrows, Copy!WriteRefused, Client!WriteRefused,
  Copy!WriteGranted, Client!WriteGranted, Copy!WriteBlocks, Client!WriteBlocks,
  Copy!WriteTurn, Client!WriteTurn, Copy!RequestWrite, Client!RequestWrite,
  Copy!ResumeWrite, Client!ResumeWrite, Copy!CommitWriteThrows,
  Client!CommitWriteThrows, Copy!CommitWrite, Client!CommitWrite, Copy!EndWrite,
  Client!EndWrite, Copy!RequestReadThrows, Client!RequestReadThrows,
  Copy!ReadGranted, Client!ReadGranted, Copy!ReadAtEnd, Client!ReadAtEnd,
  Copy!ReadBlocks, Client!ReadBlocks, Copy!ReadTurn, Client!ReadTurn,
  Copy!RequestRead, Client!RequestRead, Copy!ResumeRead, Client!ResumeRead,
  Copy!CommitReadThrows, Client!CommitReadThrows, Copy!CommitRead,
  Client!CommitRead, Copy!EndRead, Client!EndRead, Copy!SpuriousWakeSource,
  Client!SpuriousWakeSource, Copy!SpuriousWakeDrain, Client!SpuriousWakeDrain,
  Copy!WriterRequests, Client!WriterRequests, Copy!WriterResumes,
  Client!WriterResumes, Copy!Store, Client!Store, Copy!WriterCommits,
  Client!WriterCommits, Copy!WriterEnds, Client!WriterEnds, Copy!ReaderRequests,
  Client!ReaderRequests, Copy!ReaderResumes, Client!ReaderResumes, Copy!Fetch,
  Client!Fetch, Copy!ReaderCommits, Client!ReaderCommits, Copy!ReaderEnds,
  Client!ReaderEnds, Copy!SpuriousWake, Client!SpuriousWake, Copy!PhaseAfter,
  Client!PhaseAfter

\* With every request size but zero the invariant holds in every reachable state.
THEOREM ProgramSafety == RequestSize # 0 => (Spec => []ProgramInv)
<1> SUFFICES ASSUME RequestSize # 0 PROVE Spec => []ProgramInv
  OBVIOUS
<1>1. Init => ProgramInv
  BY ProgramInvInit
<1>2. ProgramInv /\ [Next]_vars => ProgramInv'
  BY ProgramInvStep
<1> QED BY <1>1, <1>2, PTL DEF Spec

\* Every variable stays in its domain, and the input thread has ended when main
\* returns, for every buffer, pair of marks and input.
THEOREM TypeCorrect == RequestSize # 0 => (Spec => []TypeOK)
<1> SUFFICES ASSUME RequestSize # 0 PROVE Spec => []TypeOK
  OBVIOUS
<1>1. ProgramInv => TypeOK
  BY DEF ProgramInv, WorkerInv
<1> QED BY <1>1, ProgramSafety, PTL

\* The workers keep to the contract of the FIFO: the program implements the pair
\* of clients that FIFOClient describes, and with it everything proved of them.
THEOREM ImplementsClient == RequestSize # 0 => (Spec => ClientSpec)
<1> SUFFICES ASSUME RequestSize # 0 PROVE Spec => ClientSpec
  OBVIOUS
<1>1. Init => Client!Init
  BY ProgramInit
  DEF Copy!Init, Client!Init, Copy!FIFOInit, Client!FIFOInit, Copy!Slots, Client!Slots,
      Copy!Running, Client!Running
<1>2. ProgramInv /\ [Next]_vars => [Client!Next]_(Client!vars)
  BY ProgramStep, SameClient
<1> QED BY <1>1, <1>2, ProgramSafety, PTL DEF Spec, ClientSpec, Client!Spec

\* The destination gets what the source delivered, in order and each byte once.
THEOREM CopyCorrect == RequestSize # 0 => (Spec => []CopiesPrefix)
<1> SUFFICES ASSUME RequestSize # 0 PROVE Spec => []CopiesPrefix
  OBVIOUS
<1>1. ASSUME ProgramInv PROVE CopiesPrefix
  <2>1. accepted <= produced /\ produced \in Nat /\ accepted \in Nat /\ Len(sink) \in Nat
    BY <1>1, CopyTypes, Sizes DEF ProgramInv, WorkerInv, TypeOK, accepted
  <2> QED BY <1>1, <2>1
          DEF ProgramInv, Copy!ClientInv, Copy!InOrder, CopiesPrefix
<1> QED BY <1>1, ProgramSafety, PTL

\* An exit code of zero means that everything was read and everything written.
THEOREM SuccessIsComplete == RequestSize # 0 => (Spec => []CompleteOnSuccess)
<1> SUFFICES ASSUME RequestSize # 0 PROVE Spec => []CompleteOnSuccess
  OBVIOUS
<1>1. ASSUME ProgramInv, exitCode = 0
      PROVE  source = "ended" /\ destination = "open" /\ Len(sink) = produced
  <2>1. mpc = "exited" /\ ipc = "done" /\ iResult = 0 /\ oResult = 0
    BY <1>1 DEF ProgramInv, WorkerInv, TypeOK, StartInv, Started, Result, NoCode
  <2>2. source = "ended" /\ destination = "open" /\ Level = 0
    BY <1>1, <2>1 DEF ProgramInv, WorkerInv, InputInv, OutputInv, Started
  <2>3. accepted = produced
    BY <1>1, <2>1, Sizes DEF accepted, ProgramInv, WorkerInv, TypeOK
  <2>4. Len(sink) = accepted
    <3>1. accepted - Level <= Len(sink) /\ Len(sink) <= accepted
      BY <1>1 DEF ProgramInv, Copy!ClientInv, Copy!ContentInv, Copy!InOrder
    <3> QED BY <1>1, <2>2, <3>1, CopyTypes DEF ProgramInv
  <2> QED BY <2>2, <2>3, <2>4
<1>2. ProgramInv => CompleteOnSuccess
  BY <1>1 DEF CompleteOnSuccess
<1> QED BY <1>2, ProgramSafety, PTL

\* The exit code names the side that failed, the source first.
THEOREM FailureShows == RequestSize # 0 => (Spec => []FailureReported)
<1> SUFFICES ASSUME RequestSize # 0 PROVE Spec => []FailureReported
  OBVIOUS
<1>1. ASSUME ProgramInv, exitCode # NoCode, Started
      PROVE  /\ source = "failed" => exitCode \in {10, 28}
             /\ source # "failed" /\ destination = "failed" => exitCode \in {11, 28}
             /\ source # "failed" /\ destination # "failed" => exitCode = 0
  <2>1. mpc = "exited" /\ ipc = "done" /\ exitCode = Result
    BY <1>1 DEF ProgramInv, WorkerInv, StartInv
  <2> QED BY <1>1, <2>1 DEF ProgramInv, WorkerInv, InputInv, OutputInv, Result
<1>2. ProgramInv => FailureReported
  BY <1>1 DEF FailureReported
<1> QED BY <1>2, ProgramSafety, PTL

\* The message about the output side is true whenever it is written.
THEOREM StopsTruly == RequestSize # 0 => (Spec => StopsForOutputOnly)
<1> SUFFICES ASSUME RequestSize # 0 PROVE Spec => StopsForOutputOnly
  OBVIOUS
<1>1. ASSUME ProgramInv, [Next]_vars PROVE StopStep
  <2> SUFFICES ASSUME ipc = "request", ipc' = "end", iResult' = 0
               PROVE  mpc = "join" /\ oResult # 0
    BY DEF StopStep
  <2>1. InputThread
    BY <1>1, MainEffect, OtherEffect
    DEF Next, ProgramInv, WorkerInv, StartInv, workerVars
  <2>2. EOS
    BY <1>1, <2>1, InputEffect DEF InputInitializes, InputReads, InputCloses
  <2> QED BY <1>1, <2>2 DEF ProgramInv, WorkerInv, StartInv, EndInv, OutputInv, MainStopped
<1>2. ProgramInv /\ [Next]_vars => [StopStep]_vars
  BY <1>1
<1> QED BY <1>2, ProgramSafety, PTL DEF Spec, StopsForOutputOnly

\* No notified thread goes back to sleep.
THEOREM WakeupsUseful == RequestSize # 0 => (Spec => NoFutileWakeup)
<1> SUFFICES ASSUME RequestSize # 0 PROVE Spec => NoFutileWakeup
  OBVIOUS
<1>1. ASSUME ProgramInv, [Next]_vars PROVE [WokenStep]_vars
  <2>0. WokenInv /\ Level \in Nat /\ BufferSize \in Nat
    BY <1>1, CopyTypes, FIFOAssumption DEF ProgramInv, WorkerInv
  <2> USE DEF WokenStep, WokenInv, Woken, Asleep, Running, Stray
  <2>1. CASE InputThread
    BY <1>1, <2>0, <2>1, InputEffect DEF InputInitializes, InputCloses, fifoVars
  <2>2. CASE MainThread
    BY <1>1, <2>0, <2>2, MainEffect
    DEF MainStarts, OutputInitializes, MainExits, fifoVars
  <2>3. CASE SpuriousWake \/ Terminated \/ UNCHANGED vars
    BY <2>3, OtherEffect
  <2> QED BY <1>1, <2>1, <2>2, <2>3 DEF Next
<1>2. ProgramInv /\ [Next]_vars => [WokenStep]_vars
  BY <1>1
<1> QED BY <1>2, ProgramSafety, PTL DEF Spec, NoFutileWakeup
=============================================================================
