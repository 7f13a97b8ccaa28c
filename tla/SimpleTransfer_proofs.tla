------------------------ MODULE SimpleTransfer_proofs ------------------------
(***************************************************************************)
(* SimpleDrain and SimpleSource for every buffer size, every pair of water *)
(* marks, every block length: their threads are legal clients of the FIFO, *)
(* so that all FIFOClient_proofs shows holds for them, and the results of  *)
(* their calls are right.  SimpleInv is inductive together with ClientInv: *)
(* one lemma per step of the two loops.                                    *)
(***************************************************************************)
EXTENDS SimpleTransfer, FIFOClient_proofs

LEMMA SimpleInitInv == SimpleInit => SimpleInv
<1> SUFFICES ASSUME SimpleInit PROVE SimpleInv
  OBVIOUS
<1>1. Len(sink) = 0
  BY EmptySeq DEF SimpleInit, Init
<1> QED BY <1>1, ClientAssumption DEF SimpleInit, Init, FIFOInit, SimpleInv, Taken

\* What the two invariants say of the lengths in play.
LEMMA Lengths ==
  ASSUME ClientInv, SimpleInv
  PROVE  /\ wlen \in Nat /\ rlen \in Nat /\ WrReq \in Nat /\ RdReq \in Nat
         /\ Level \in Nat /\ accepted \in Nat /\ Len(sink) \in Nat
         /\ wleft \in Nat /\ rleft \in Nat /\ olen \in Nat /\ rleft <= olen
         /\ olen <= MaxRequest /\ wleft <= MaxRequest /\ MaxRequest \in Nat
         /\ WrReq <= BufferSize /\ RdReq <= BufferSize /\ BufferSize \in Nat
         /\ wphase \in {"granted", "moved"} => wlen <= WrReq
BY FIFOAssumption, ClientAssumption, StreamBounds
DEF ClientInv, FIFOInv, FIFOTypeOK, PhaseInv, TypeOK, SimpleInv

\* Each step of the two loops is a step that the FIFO's contract permits.
LEMMA LegalClientStep ==
  ASSUME ClientInv, SimpleInv, [SimpleNext]_simpleVars
  PROVE  [Next]_vars
<1>1. CASE Drains
  <2>1. CASE DrainRequests
    BY <2>1, Lengths DEF DrainRequests, Next
  <2>2. CASE DrainResumes
    BY <2>2 DEF DrainResumes, Next
  <2>3. CASE DrainCopies
    <3>1. wlen \in 0..BufferSize
      BY <2>3, Lengths DEF DrainCopies, Store
    <3> QED BY <2>3, <3>1 DEF DrainCopies, Next
  <2>4. CASE DrainCommits
    BY <2>4 DEF DrainCommits, Next
  <2> QED BY <1>1, <2>1, <2>2, <2>3, <2>4 DEF Drains
<1>2. CASE Sources
  <2>1. CASE SourceRequests
    BY <2>1, Lengths DEF SourceRequests, SourceAsks, Next
  <2>2. CASE SourceResumes
    BY <2>2 DEF SourceResumes, Next
  <2>3. CASE SourceCopies
    <3>1. rlen \in 0..BufferSize
      BY <2>3, Lengths DEF SourceCopies, Fetch, SimpleInv
    <3> QED BY <2>3, <3>1 DEF SourceCopies, Next
  <2>4. CASE SourceCommits
    BY <2>4 DEF SourceCommits, Next
  <2> QED BY <1>2, <2>1, <2>2, <2>3, <2>4 DEF Sources
<1>3. CASE DrainEnds \/ SourceEnds
  BY <1>3 DEF DrainEnds, SourceEnds, Next
<1>4. CASE SpuriousWake
  BY <1>4 DEF Next
<1>5. CASE UNCHANGED vars
  BY <1>5
<1> QED
  BY <1>1, <1>2, <1>3, <1>4, <1>5 DEF SimpleNext, WriteCall, ReadCall, simpleVars
-----------------------------------------------------------------------------
(* SimpleDrain *)

LEMMA WriteCallInv ==
  ASSUME ClientInv, SimpleInv, NEW n \in 1..MaxRequest, WriteCall(n)
  PROVE  SimpleInv'
BY Lengths
DEF ClientInv, PhaseInv, SimpleInv, WriteCall, readCall, vars, fifoVars, readVars, writeVars, Taken

\* Whether it comes from its caller or from Wait, the writer asks for the rest.
LEMMA DrainAsksRest ==
  ASSUME ClientInv, SimpleInv, DrainRequests \/ DrainResumes
  PROVE  /\ wleft > 0 /\ WriteTurn(wleft) /\ DrainTurn
         /\ wphase \in {"idle", "requesting"} /\ wphase' = PhaseAfter(NotifyDrain', wlen')
         /\ UNCHANGED <<streamVars, rphase>>
<1>1. CASE DrainRequests
  BY <1>1 DEF DrainRequests, WriterRequests, RequestWrite
<1>2. CASE DrainResumes
  <2>1. wlen = wleft /\ wleft > 0
    BY <1>2, Lengths DEF DrainResumes, WriterResumes, SimpleInv, ClientInv, PhaseInv
  <2> QED BY <1>2, <2>1 DEF DrainResumes, WriterResumes, ResumeWrite
<1> QED BY <1>1, <1>2

LEMMA DrainGrant ==
  ASSUME ClientInv, SimpleInv, wleft > 0, WriteGranted(wleft)
  PROVE  wlen' \in Nat \ {0} /\ wlen' <= wleft /\ WrReq' = wlen'
BY Lengths, FIFOAssumption DEF WriteGranted, Least, ClientInv, FIFOInv, FIFOTypeOK, Slots

LEMMA DrainTurnInv ==
  ASSUME ClientInv, SimpleInv, DrainRequests \/ DrainResumes
  PROVE  SimpleInv'
<1>0. /\ wleft > 0 /\ WriteTurn(wleft) /\ DrainTurn
      /\ wphase \in {"idle", "requesting"} /\ wphase' = PhaseAfter(NotifyDrain', wlen')
      /\ UNCHANGED <<streamVars, rphase>>
  BY DrainAsksRest
<1> USE <1>0, Lengths, FIFOAssumption
    DEF SimpleInv, DrainTurn, PhaseAfter, Running, Asleep, streamVars, writeCall, readCall,
        readVars, Taken
<1>1. CASE WriteRefused
  BY <1>1 DEF WriteRefused
<1>2. CASE WriteGranted(wleft)
  BY <1>2, DrainGrant DEF WriteGranted
<1>3. CASE WriteBlocks(wleft)
  BY <1>3 DEF WriteBlocks
<1> QED BY <1>1, <1>2, <1>3 DEF WriteTurn

LEMMA DrainsInv ==
  ASSUME ClientInv, SimpleInv, Drains
  PROVE  SimpleInv'
<1>1. CASE DrainRequests \/ DrainResumes
  BY <1>1, DrainTurnInv
<1>2. CASE DrainCopies
  BY <1>2, Lengths DEF DrainCopies, Store, SimpleInv, readVars, writeCall, readCall, Taken
<1>3. CASE DrainCommits
  <2>1. /\ wphase = "moved" /\ wphase' = "idle" /\ wleft' = wleft - wlen
        /\ accepted' = accepted + wlen
        /\ UNCHANGED <<rlen, RdReq, sink, rphase, wtotal, rleft, olen, rtotal>>
    BY <1>3 DEF DrainCommits, WriterCommits, CommitWrite, readVars, readCall
  <2>2. wlen <= wleft
    BY <2>1, Lengths DEF SimpleInv
  <2>3. wleft' \in 0..MaxRequest /\ wtotal' = accepted' + wleft'
    <3>1. /\ wlen \in Nat /\ wleft \in Nat /\ wleft <= MaxRequest /\ MaxRequest \in Nat
          /\ accepted \in Nat /\ wtotal = accepted + wleft
      BY Lengths DEF SimpleInv
    <3> QED BY <2>1, <2>2, <3>1
  <2> QED BY <2>1, <2>3 DEF SimpleInv, Taken
<1> QED BY <1>1, <1>2, <1>3 DEF Drains

LEMMA DrainEndsInv ==
  ASSUME ClientInv, SimpleInv, DrainEnds
  PROVE  SimpleInv'
BY Lengths
DEF DrainEnds, WriterEnds, EndWrite, SimpleInv, readVars, streamVars, writeCall, readCall, Taken
-----------------------------------------------------------------------------
(* SimpleSource *)

LEMMA ReadCallInv ==
  ASSUME ClientInv, SimpleInv, NEW n \in 1..MaxRequest, ReadCall(n)
  PROVE  SimpleInv'
BY Lengths
DEF SimpleInv, ReadCall, writeCall, vars, fifoVars, readVars, writeVars, Taken

LEMMA SourceAsksRest ==
  ASSUME ClientInv, SimpleInv, SourceRequests \/ SourceResumes
  PROVE  /\ rleft > 0 /\ ReadTurn(rleft) /\ SourceTurn
         /\ rphase \in {"idle", "requesting"} /\ rphase' = PhaseAfter(NotifySource', rlen')
         /\ UNCHANGED <<Buffer, accepted, sink, wphase>>
<1>1. CASE SourceRequests
  BY <1>1 DEF SourceRequests, SourceAsks, ReaderRequests, RequestRead
<1>2. CASE SourceResumes
  <2>1. rlen = rleft /\ rleft > 0
    BY <1>2, Lengths DEF SourceResumes, ReaderResumes, SimpleInv, ClientInv, PhaseInv
  <2> QED BY <1>2, <2>1 DEF SourceResumes, ReaderResumes, ResumeRead
<1> QED BY <1>1, <1>2

LEMMA SourceGrant ==
  ASSUME ClientInv, SimpleInv, rleft > 0, ReadGranted(rleft)
  PROVE  rlen' \in Nat \ {0} /\ rlen' <= rleft /\ RdReq' = rlen'
BY Lengths, FIFOAssumption DEF ReadGranted, Least, ClientInv, FIFOInv, FIFOTypeOK, Slots

LEMMA SourceTurnInv ==
  ASSUME ClientInv, SimpleInv, SourceRequests \/ SourceResumes
  PROVE  SimpleInv'
<1>0. /\ rleft > 0 /\ ReadTurn(rleft) /\ SourceTurn
      /\ rphase \in {"idle", "requesting"} /\ rphase' = PhaseAfter(NotifySource', rlen')
      /\ UNCHANGED <<Buffer, accepted, sink, wphase>>
  BY SourceAsksRest
<1> USE <1>0, Lengths, FIFOAssumption
    DEF SimpleInv, SourceTurn, PhaseAfter, Running, Asleep, writeCall, writeVars, Taken
<1>1. CASE ReadAtEnd
  BY <1>1 DEF ReadAtEnd, ReadReturns, ReadResult
<1>2. CASE ReadGranted(rleft)
  BY <1>2, SourceGrant DEF ReadGranted
<1>3. CASE ReadBlocks(rleft)
  BY <1>3 DEF ReadBlocks
<1> QED BY <1>1, <1>2, <1>3 DEF ReadTurn

LEMMA SourcesInv ==
  ASSUME ClientInv, SimpleInv, Sources
  PROVE  SimpleInv'
<1>1. CASE SourceRequests \/ SourceResumes
  BY <1>1, SourceTurnInv
<1>2. CASE SourceCopies
  <2>1. rlen \in 0..BufferSize /\ Fetch(rlen)
    BY <1>2, Lengths DEF SourceCopies, Fetch, SimpleInv
  <2>2. ClientInv'
    BY <2>1, FetchInv
  <2>3. /\ rphase = "granted" /\ rphase' = "moved"
        /\ UNCHANGED <<rlen, wlen, WrReq, RdReq, Level, accepted, wphase, writeCall, readCall>>
    BY <1>2 DEF SourceCopies, Fetch, writeVars
  <2>4. Len(sink') = accepted - Level + rlen
    BY <2>2, <2>3 DEF ClientInv, ContentInv, Taken
  <2>5. Len(sink) = accepted - Level
    BY <2>1, GrantedBytes
  <2>6. Len(sink') = Len(sink) + rlen
    BY <2>4, <2>5, Lengths
  <2>7. Len(sink) = rtotal + (olen - rleft) /\ rleft # 0 /\ rtotal \in Nat
    BY <2>3, Lengths DEF SimpleInv, Taken
  <2>8. Len(sink') = rtotal + rlen + (olen - rleft)
    BY <2>6, <2>7, Lengths
  <2> QED BY <2>3, <2>7, <2>8 DEF SimpleInv, writeCall, readCall, Taken
<1>3. CASE SourceCommits
  <2>1. /\ rphase = "moved" /\ rphase' = "idle"
        /\ UNCHANGED <<wlen, WrReq, wphase, wleft, wtotal, accepted, sink, olen>>
    BY <1>3 DEF SourceCommits, ReaderCommits, CommitRead, writeVars, streamVars, writeCall
  <2>2. rlen <= rleft /\ rleft # 0 /\ Len(sink) = rtotal + rlen + (olen - rleft)
        /\ rtotal \in Nat
    BY <2>1, Lengths DEF SimpleInv, Taken
  <2>3. CASE rleft = rlen
    <3>1. rleft' = 0 /\ rtotal' = rtotal + olen
      BY <1>3, <2>3, Lengths DEF SourceCommits, ReadReturns, ReadResult
    <3> QED BY <2>1, <2>2, <2>3, <3>1, Lengths DEF SimpleInv, Taken
  <2>4. CASE rleft # rlen
    <3>1. rleft' = rleft - rlen /\ rtotal' = rtotal
      BY <1>3, <2>4 DEF SourceCommits
    <3>2. rleft' \in 1..olen /\ Len(sink) = rtotal + (olen - rleft')
      <4>1. rlen \in Nat /\ rleft \in Nat /\ olen \in Nat /\ rleft <= olen /\ Len(sink) \in Nat
        BY Lengths
      <4> QED BY <2>2, <2>4, <3>1, <4>1
    <3> QED BY <2>1, <2>2, <3>1, <3>2 DEF SimpleInv, Taken
  <2> QED BY <2>3, <2>4
<1> QED BY <1>1, <1>2, <1>3 DEF Sources

LEMMA SourceEndsInv ==
  ASSUME ClientInv, SimpleInv, SourceEnds
  PROVE  SimpleInv'
BY Lengths
DEF SourceEnds, ReaderEnds, EndRead, SimpleInv, writeVars, streamVars, writeCall, readCall, Taken
-----------------------------------------------------------------------------
LEMMA SimpleStep ==
  ASSUME ClientInv, SimpleInv, [SimpleNext]_simpleVars
  PROVE  SimpleInv'
<1>1. CASE SpuriousWake /\ UNCHANGED <<writeCall, readCall>>
  BY <1>1
  DEF SpuriousWake, SpuriousWakeSource, SpuriousWakeDrain, SimpleInv, readVars, writeVars,
      streamVars, writeCall, readCall, Taken
<1>2. CASE UNCHANGED simpleVars
  BY <1>2
  DEF simpleVars, vars, fifoVars, readVars, writeVars, writeCall, readCall, SimpleInv, Taken
<1> QED
  BY <1>1, <1>2, WriteCallInv, DrainsInv, DrainEndsInv, ReadCallInv, SourcesInv, SourceEndsInv
  DEF SimpleNext

\* Both invariants hold in every state: the threads of SimpleDrain and
\* SimpleSource keep to the contract of the FIFO they use.
THEOREM SimpleSafety == SimpleSpec => [](ClientInv /\ SimpleInv)
<1>1. SimpleInit => ClientInv /\ SimpleInv
  BY SimpleInitInv, ClientInit DEF SimpleInit
<1>2. ClientInv /\ SimpleInv /\ [SimpleNext]_simpleVars => (ClientInv /\ SimpleInv)'
  BY LegalClientStep, ClientStep, SimpleStep
<1> QED BY <1>1, <1>2, PTL DEF SimpleSpec

\* SimpleDrain and SimpleSource are one of the pairs of clients in FIFOClient.
THEOREM SimpleIsClient == SimpleSpec => Spec
<1>1. SimpleInit => Init
  BY DEF SimpleInit
<1>2. ClientInv /\ SimpleInv /\ [SimpleNext]_simpleVars => [Next]_vars
  BY LegalClientStep
<1> QED BY <1>1, <1>2, SimpleSafety, PTL DEF SimpleSpec, Spec

\* The rest of a block stays between zero and its length, and no turn of the
\* loops of write and read gets a buffer longer than that rest.
THEOREM RestsInRange == SimpleSpec => []SimpleTypeOK
<1>1. ClientInv /\ SimpleInv => SimpleTypeOK
  <2> SUFFICES ASSUME ClientInv, SimpleInv PROVE SimpleTypeOK
    OBVIOUS
  <2>1. wphase # "idle" => wphase \in {"requesting", "granted", "moved"}
    BY DEF ClientInv, TypeOK, Phases
  <2> QED BY <2>1, Lengths DEF SimpleInv, SimpleTypeOK
<1> QED BY <1>1, SimpleSafety, PTL

\* Whatever cuts calls of write and read short, their results add up to the bytes
\* that went through the FIFO.
THEOREM ResultsCorrect == SimpleSpec => []ResultsAddUp
<1>1. ClientInv /\ SimpleInv => ResultsAddUp
  <2> SUFFICES ASSUME ClientInv, SimpleInv PROVE ResultsAddUp
    OBVIOUS
  <2>1. rleft = 0 => Taken = 0
    BY DEF SimpleInv, Taken
  <2> QED BY <2>1, Lengths DEF SimpleInv, ResultsAddUp
<1> QED BY <1>1, SimpleSafety, PTL

\* Only the end of the stream cuts a call short, and a read only when nothing is
\* left to be read.
LEMMA CutShort ==
  ASSUME ClientInv, SimpleInv, [SimpleNext]_simpleVars
  PROVE  [CutShortStep]_simpleVars
<1> USE DEF CutShortStep
<1>1. ASSUME NEW n \in 1..MaxRequest, WriteCall(n) PROVE CutShortStep
  BY <1>1, Lengths DEF WriteCall, readCall, SimpleInv
<1>2. ASSUME NEW n \in 1..MaxRequest, ReadCall(n) PROVE CutShortStep
  BY <1>2, Lengths DEF ReadCall, writeCall, SimpleInv
<1>3. CASE DrainRequests \/ DrainResumes
  <2>1. WriteTurn(wleft) /\ DrainTurn /\ wleft > 0
    BY <1>3, DrainAsksRest
  <2>2. CASE WriteRefused
    BY <2>1, <2>2 DEF WriteRefused, DrainTurn, readCall
  <2>3. CASE WriteGranted(wleft)
    BY <2>1, <2>3, DrainGrant, Lengths DEF DrainTurn, readCall, writeCall, SimpleInv
  <2>4. CASE WriteBlocks(wleft)
    BY <2>1, <2>4, Lengths
    DEF WriteBlocks, DrainTurn, Running, Asleep, readCall, writeCall, SimpleInv
  <2> QED BY <2>1, <2>2, <2>3, <2>4 DEF WriteTurn
<1>4. CASE SourceRequests \/ SourceResumes
  <2>1. ReadTurn(rleft) /\ SourceTurn /\ rleft > 0
        /\ rphase \in {"idle", "requesting"} /\ UNCHANGED wtotal
    BY <1>4, SourceAsksRest DEF SourceTurn, writeCall
  <2>2. CASE ReadAtEnd
    <3>1. EOS /\ Level = 0
      BY <2>2 DEF ReadAtEnd
    <3>2. Len(sink) = accepted
      BY <3>1, StreamBounds
    <3> QED BY <2>1, <3>1, <3>2, Lengths DEF SimpleInv
  <2>3. CASE ReadGranted(rleft)
    <3>1. rlen' # 0
      BY <2>1, <2>3, SourceGrant
    <3> QED BY <2>1, <3>1, Lengths DEF SourceTurn, SimpleInv
  <2>4. CASE ReadBlocks(rleft)
    BY <2>1, <2>4, Lengths DEF ReadBlocks, SourceTurn, Running, Asleep, SimpleInv
  <2> QED BY <2>1, <2>2, <2>3, <2>4 DEF ReadTurn
<1>5. CASE SourceCommits
  BY <1>5, Lengths DEF SourceCommits, ReaderCommits, writeCall, SimpleInv
<1>6. CASE UNCHANGED <<rleft, wtotal>>
  BY <1>6, Lengths DEF SimpleInv
<1> QED
  BY <1>1, <1>2, <1>3, <1>4, <1>5, <1>6
  DEF SimpleNext, simpleVars, Drains, Sources, DrainCopies, DrainCommits, DrainEnds,
      SourceCopies, SourceEnds, writeCall, readCall

THEOREM OnlyTheEndCutsShort == SimpleSpec => CutShortOnlyAtEnd
<1>1. ClientInv /\ SimpleInv /\ [SimpleNext]_simpleVars => [CutShortStep]_simpleVars
  BY CutShort
<1> QED BY <1>1, SimpleSafety, PTL DEF SimpleSpec, CutShortOnlyAtEnd
=============================================================================
