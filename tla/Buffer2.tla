------------------------------ MODULE Buffer2 ------------------------------
(***************************************************************************)
(* The program of src/buffer2.cpp from the moment its options are parsed:  *)
(* main starts a thread that runs InputWorker, runs OutputWorker itself,   *)
(* joins the thread and turns the two results into the exit code.  The     *)
(* workers share one StaticFIFO; the source and the destination are any    *)
(* pair of I/O objects behind IInput and IOutput of src/IOinterface.h.     *)
(*                                                                         *)
(* A worker's local variables buf and len are the wdata and wlen, and the  *)
(* rdata and rlen, of StaticFIFO.  The n-th byte of the source is the      *)
(* number n.                                                               *)
(***************************************************************************)
EXTENDS StaticFIFO, Sequences

CONSTANTS
  RequestOption,   \* RequestSize as the options leave it, -1 if not given
  StreamLength     \* bound: bytes of the longest input

\* The option loop of main refuses -r with less than one byte.
ASSUME Buffer2Assumption ==
  /\ RequestOption = -1 \/ RequestOption \in Nat \ {0}
  /\ StreamLength \in Nat

VARIABLES
  mpc, ipc,             \* control of the main thread and of the input thread
  iResult, oResult,     \* Worker::Result of the two workers
  exitCode,             \* what main returns
  source, destination,  \* the two I/O objects
  Buffer,               \* the bytes in the ring
  produced,             \* bytes the source has delivered
  sink                  \* bytes the destination has taken

workerVars == <<mpc, ipc, iResult, oResult, exitCode, source, destination,
                Buffer, produced, sink>>
vars == <<fifoVars, workerVars>>

\* main: "-r" was not given, so the request size follows the buffer size.
RequestSize ==
  IF RequestOption >= 0 THEN RequestOption
  ELSE IF BufferSize >= 1024 * 256 THEN BufferSize \div 8 ELSE BufferSize \div 4

NoCode == -1

MainPlaces  == {"start", "initialize", "request", "write", "commit", "end", "join",
                "exited"}
InputPlaces == {"none", "initialize", "request", "read", "commit", "end", "close",
                "done"}

Init ==
  /\ FIFOInit
  /\ mpc = "start" /\ ipc = "none"
  /\ iResult = 0 /\ oResult = 0
  /\ exitCode = NoCode
  /\ source = "new" /\ destination = "new"
  /\ Buffer = [s \in Slots |-> 0]
  /\ produced = 0
  /\ sink = <<>>
-----------------------------------------------------------------------------
(* InputWorker *)

\* An exception leaves the loop with the result of its catch clause: 10 (or 11
\* for the output) for a runtime_error, 19 for a logic_error, 28 for the rest.
InputThrows(code) ==
  /\ iResult' = code
  /\ ipc' = "end"

InputInitializes ==
  /\ ipc = "initialize"
  /\ \/ source' = "open" /\ ipc' = "request" /\ UNCHANGED iResult
     \/ source' = "failed" /\ \E code \in {10, 28} : InputThrows(code)
  /\ UNCHANGED <<fifoVars, mpc, oResult, exitCode, destination, Buffer, produced, sink>>

\* Asleep in RequestWrite, back without a buffer, or back with one.
InputAfterRequest ==
  /\ ipc' = IF NotifyDrain' # Running THEN "request"
            ELSE IF wlen' = 0 THEN "end" ELSE "read"
  /\ UNCHANGED iResult

InputRequests ==
  /\ ipc = "request"
  /\ NotifyDrain = Running
  /\ IF RequestWriteThrows
     THEN InputThrows(19) /\ UNCHANGED fifoVars
     ELSE RequestWrite(RequestSize) /\ InputAfterRequest
  /\ UNCHANGED <<mpc, oResult, exitCode, source, destination, Buffer, produced, sink>>

InputResumes ==
  /\ ipc = "request"
  /\ ResumeWrite
  /\ InputAfterRequest
  /\ UNCHANGED <<mpc, oResult, exitCode, source, destination, Buffer, produced, sink>>

\* ReadData delivers k bytes, which may be fewer than asked for; len becomes k.
SourceDelivers(k) ==
  /\ produced + k <= StreamLength
  /\ produced' = produced + k
  /\ Buffer' = [s \in Slots |-> IF s \in wdata..(wdata + k - 1)
                                THEN produced + 1 + s - wdata ELSE Buffer[s]]
  /\ wlen' = k
  /\ ipc' = "commit"
  /\ UNCHANGED <<iResult, source>>

\* ReadData returns zero.
SourceEnds ==
  /\ source' = "ended"
  /\ wlen' = 0
  /\ ipc' = "end"
  /\ UNCHANGED <<iResult, produced, Buffer>>

SourceFails ==
  /\ source' = "failed"
  /\ \E code \in {10, 28} : InputThrows(code)
  /\ UNCHANGED <<wlen, produced, Buffer>>

InputReads ==
  /\ ipc = "read"
  /\ \/ \E k \in 1..wlen : SourceDelivers(k)
     \/ SourceEnds
     \/ SourceFails
  /\ UNCHANGED <<readVars, WrPos, WrReq, FullCount, wdata, Level, EOS, NotifySource,
                 NotifyDrain, mpc, oResult, exitCode, destination, sink>>

InputCommits ==
  /\ ipc = "commit"
  /\ IF CommitWriteThrows(wdata, wlen)
     THEN InputThrows(19) /\ UNCHANGED fifoVars
     ELSE CommitWrite(wdata, wlen) /\ ipc' = "request" /\ UNCHANGED iResult
  /\ UNCHANGED <<mpc, oResult, exitCode, source, destination, Buffer, produced, sink>>

InputEnds ==
  /\ ipc = "end"
  /\ EndWrite
  /\ ipc' = "close"
  /\ UNCHANGED <<mpc, iResult, oResult, exitCode, source, destination, Buffer,
                 produced, sink>>

\* Src.reset() closes the source, and the thread returns.
InputCloses ==
  /\ ipc = "close"
  /\ ipc' = "done"
  /\ UNCHANGED <<fifoVars, mpc, iResult, oResult, exitCode, source, destination,
                 Buffer, produced, sink>>
-----------------------------------------------------------------------------
(* main and, in its thread, OutputWorker *)

\* The objects are constructed and the thread is created, or main catches what
\* one of them throws: a bad_alloc, a runtime_error or a syntax_error.
MainStarts ==
  /\ mpc = "start"
  /\ \/ mpc' = "initialize" /\ ipc' = "initialize" /\ UNCHANGED exitCode
     \/ mpc' = "exited" /\ exitCode' \in {28, 29, 49} /\ UNCHANGED ipc
  /\ UNCHANGED <<fifoVars, iResult, oResult, source, destination, Buffer, produced,
                 sink>>

OutputThrows(code) ==
  /\ oResult' = code
  /\ mpc' = "end"

OutputInitializes ==
  /\ mpc = "initialize"
  /\ \/ destination' = "open" /\ mpc' = "request" /\ UNCHANGED oResult
     \/ destination' = "failed" /\ \E code \in {11, 28} : OutputThrows(code)
  /\ UNCHANGED <<fifoVars, ipc, iResult, exitCode, source, Buffer, produced, sink>>

OutputAfterRequest ==
  /\ mpc' = IF NotifySource' # Running THEN "request"
            ELSE IF rlen' = 0 THEN "end" ELSE "write"
  /\ UNCHANGED oResult

OutputRequests ==
  /\ mpc = "request"
  /\ NotifySource = Running
  /\ IF RequestReadThrows
     THEN OutputThrows(19) /\ UNCHANGED fifoVars
     ELSE RequestRead(RequestSize) /\ OutputAfterRequest
  /\ UNCHANGED <<ipc, iResult, exitCode, source, destination, Buffer, produced, sink>>

OutputResumes ==
  /\ mpc = "request"
  /\ ResumeRead
  /\ OutputAfterRequest
  /\ UNCHANGED <<ipc, iResult, exitCode, source, destination, Buffer, produced, sink>>

\* MUTANT of Written: the length offered is committed after a short write.
WrittenAll(k) == rlen
\* The len that the worker commits.
Written(k) == k

\* WriteData takes the first k bytes, which may be fewer than offered.
DestinationTakes(k) ==
  /\ sink' = sink \o [i \in 1..k |-> Buffer[rdata + i - 1]]
  /\ rlen' = Written(k)
  /\ mpc' = "commit"
  /\ UNCHANGED <<oResult, destination>>

\* MUTANT of RefusalThrows: zero ends the loop like the end of the input.
RefusalEnds == mpc' = "end" /\ UNCHANGED oResult
RefusalThrows == OutputThrows(11)

\* WriteData returns zero, and the worker throws a runtime_error.
DestinationRefuses ==
  /\ destination' = "failed"
  /\ rlen' = 0
  /\ RefusalThrows
  /\ UNCHANGED sink

DestinationFails ==
  /\ destination' = "failed"
  /\ \E code \in {11, 28} : OutputThrows(code)
  /\ UNCHANGED <<rlen, sink>>

OutputWrites ==
  /\ mpc = "write"
  /\ \/ \E k \in 1..rlen : DestinationTakes(k)
     \/ DestinationRefuses
     \/ DestinationFails
  /\ UNCHANGED <<writeVars, RdPos, RdReq, EmptyCount, rdata, Level, EOS, NotifySource,
                 NotifyDrain, ipc, iResult, exitCode, source, Buffer, produced>>

OutputCommits ==
  /\ mpc = "commit"
  /\ IF CommitReadThrows(rdata, rlen)
     THEN OutputThrows(19) /\ UNCHANGED fifoVars
     ELSE CommitRead(rdata, rlen) /\ mpc' = "request" /\ UNCHANGED oResult
  /\ UNCHANGED <<ipc, iResult, exitCode, source, destination, Buffer, produced, sink>>

OutputEnds ==
  /\ mpc = "end"
  /\ EndRead
  /\ mpc' = "join"
  /\ UNCHANGED <<ipc, iResult, oResult, exitCode, source, destination, Buffer,
                 produced, sink>>

\* MUTANT of Result: the output's result comes first.
ResultOutputFirst == IF oResult # 0 THEN oResult ELSE iResult
Result == IF iResult # 0 THEN iResult ELSE oResult

\* The join returns when the thread has ended; a failed input comes first.
MainExits ==
  /\ mpc = "join"
  /\ ipc = "done"
  /\ exitCode' = Result
  /\ mpc' = "exited"
  /\ UNCHANGED <<fifoVars, ipc, iResult, oResult, source, destination, Buffer,
                 produced, sink>>
-----------------------------------------------------------------------------
SpuriousWake ==
  /\ SpuriousWakeSource \/ SpuriousWakeDrain
  /\ UNCHANGED workerVars

\* The process has ended.
Terminated == mpc = "exited" /\ UNCHANGED vars

InputThread ==
  \/ InputInitializes \/ InputRequests \/ InputResumes \/ InputReads
  \/ InputCommits \/ InputEnds \/ InputCloses

MainThread ==
  \/ MainStarts \/ OutputInitializes \/ OutputRequests \/ OutputResumes
  \/ OutputWrites \/ OutputCommits \/ OutputEnds \/ MainExits

Next == InputThread \/ MainThread \/ SpuriousWake \/ Terminated

Spec == Init /\ [][Next]_vars

\* Both threads go on when they can.  Initialize (which may wait for a TCP
\* connection), ReadData and WriteData need not return.
InputCalls == ipc \in {"initialize", "read"}
MainCalls  == mpc \in {"initialize", "write"}
FairSpec ==
  /\ Spec
  /\ WF_vars(InputThread /\ ~InputCalls)
  /\ WF_vars(MainThread /\ ~MainCalls)

\* The calls of one side return, with success or without.
SourceResponds      == WF_vars(InputThread)
DestinationResponds == WF_vars(MainThread)
-----------------------------------------------------------------------------
(* Properties *)

\* The input thread exists, and the exit code is what the workers make it.
Started == ipc # "none"

\* Every variable stays in its domain, and the input thread does not outlive
\* the variables of main that it uses.
TypeOK ==
  /\ FIFOTypeOK
  /\ mpc \in MainPlaces /\ ipc \in InputPlaces
  /\ mpc = "exited" => ipc \in {"none", "done"}
  /\ iResult \in {0, 10, 19, 28} /\ oResult \in {0, 11, 19, 28}
  /\ exitCode \in {NoCode, 0, 10, 11, 19, 28, 29, 49}
  /\ source \in {"new", "open", "ended", "failed"}
  /\ destination \in {"new", "open", "failed"}
  /\ Buffer \in [Slots -> Nat]
  /\ produced \in 0..StreamLength
  /\ sink \in Seq(Nat)

\* What the destination took is at every moment the beginning of what the
\* source delivered: InputWorker, OutputWorker and the FIFO lose, double and
\* reorder nothing.
CopiesPrefix == Len(sink) <= produced /\ \A i \in 1..Len(sink) : sink[i] = i

\* buffer2 returns 0 only if the source was read to its end and all of it was
\* written: no order of the two threads' ends loses the rest of the buffer.
CompleteOnSuccess ==
  exitCode = 0 =>
    source = "ended" /\ destination = "open" /\ Len(sink) = produced

\* A failed source or destination always shows in the exit code, whatever the
\* other side did at the same time; the source's failure comes first.
FailureReported ==
  exitCode # NoCode /\ Started =>
    /\ source = "failed" => exitCode \in {10, 28}
    /\ source # "failed" /\ destination = "failed" => exitCode \in {11, 28}
    /\ source # "failed" /\ destination # "failed" => exitCode = 0

\* "Closing input and discarding buffer because the output side stopped
\* working" is true: RequestWrite returns a length of zero only after EndRead.
StopStep ==
  ipc = "request" /\ ipc' = "end" /\ iResult' = 0 => mpc = "join" /\ oResult # 0
StopsForOutputOnly == [][StopStep]_vars

\* A notified thread finds what it was notified for and does not fall asleep
\* again, so no notification is wasted on a state that has gone by.
WokenStep ==
  /\ NotifySource = Woken => NotifySource' # Asleep
  /\ NotifyDrain = Woken => NotifyDrain' # Asleep
NoFutileWakeup == [][WokenStep]_vars

\* If both sides respond the program ends, however reads, writes, failures and
\* sleeps interleave: neither worker is left asleep by the other.
Terminates == SourceResponds /\ DestinationResponds => <>(exitCode # NoCode)

\* A destination that has failed ends the input thread too, unless that is
\* blocked by its source: EndRead reaches a writer asleep on a full buffer.
FailureReachesInput == mpc = "join" ~> InputCalls \/ ipc = "done"

\* While the source stalls and the destination does not, a buffer filled to the
\* high water mark is written out to its last byte, or the destination fails.
StalledSourceDrains ==
  DestinationResponds =>
    (ipc = "read" /\ Level > 0 /\ Level >= HighWaterMark) ~>
      (Level = 0 \/ destination = "failed")

\* While the destination stalls and the source does not, a buffer emptied to the
\* low water mark is filled again, or the input ends.
StalledDestinationFills ==
  SourceResponds =>
    (mpc = "write" /\ Level <= LowWaterMark) ~>
      (Level = BufferSize \/ ipc = "done" \/ mpc # "write")

\* "... 100% (same as the buffer size) ... causes nothing to be written until
\* the buffer is full (or the end of input is reached)".
FirstWriteStep == sink = <<>> /\ sink' # <<>> => Level >= HighWaterMark \/ EOS
NothingWrittenBelowMark == [][FirstWriteStep]_vars

\* The two workers are a pair of clients that keep to the FIFO's contract: what
\* FIFOClient counts as accepted, and what each worker is doing with the FIFO.
accepted == produced - (IF ipc = "commit" THEN wlen ELSE 0)
sawEnd   == mpc \in {"end", "join", "exited"} /\ Started /\ oResult = 0
wphase   ==
  CASE ipc = "request" /\ NotifyDrain # Running -> "requesting"
    [] ipc = "read" \/ (ipc = "end" /\ WrReq # 0 /\ wlen # 0) -> "granted"
    [] ipc = "commit" \/ (ipc = "end" /\ WrReq # 0 /\ wlen = 0) -> "moved"
    [] OTHER -> "idle"
rphase   ==
  CASE mpc = "request" /\ NotifySource # Running -> "requesting"
    [] mpc = "write" \/ (mpc = "end" /\ RdReq # 0 /\ rlen # 0) -> "granted"
    [] mpc = "commit" \/ (mpc = "end" /\ RdReq # 0 /\ rlen = 0) -> "moved"
    [] mpc \in {"join", "exited"} /\ Started -> "closed"
    [] OTHER -> "idle"
Client == INSTANCE FIFOClient WITH MaxRequest <- RequestSize
ClientSpec == Client!Spec
-----------------------------------------------------------------------------
(* What the two places say of the rest; inductive together with the invariant *)
(* of FIFOClient.                                                             *)

MainStopped == mpc \in {"join", "exited"} /\ Started

StartInv ==
  /\ mpc = "start" => ipc = "none"
  /\ ipc = "none" => mpc \in {"start", "exited"} /\ exitCode # 0 /\ EOS = FALSE
  /\ mpc = "exited" <=> exitCode # NoCode
  /\ mpc = "exited" /\ Started => ipc = "done" /\ exitCode = Result

\* The stream has ended if one of the workers has said so.
EndInv == EOS <=> ipc \in {"close", "done"} \/ MainStopped

\* How far the input worker got with its object, and how it left the loop: after
\* a failure, at the end of the source, or because of a failed output.
InputInv ==
  /\ ipc \in {"none", "initialize"} => source = "new" /\ iResult = 0
  /\ ipc \in {"request", "read", "commit"} => source = "open" /\ iResult = 0
  /\ ipc \in {"end", "close", "done"} =>
       \/ source = "failed" /\ iResult \in {10, 28}
       \/ source = "ended" /\ iResult = 0
       \/ source = "open" /\ iResult = 0 /\ MainStopped /\ oResult # 0
  /\ ipc \in {"read", "commit"} => wlen > 0

\* The same for the output worker; at its regular end everything is written.
OutputInv ==
  /\ mpc \in {"start", "initialize"} \/ ~Started => destination = "new" /\ oResult = 0
  /\ mpc \in {"request", "write", "commit"} => destination = "open" /\ oResult = 0
  /\ mpc \in {"end", "join", "exited"} /\ Started =>
       \/ destination = "failed" /\ oResult \in {11, 28}
       \/ /\ destination = "open" /\ oResult = 0
          /\ ipc \in {"close", "done"} /\ Level = 0
  /\ mpc \in {"write", "commit"} => rlen > 0

\* A notified thread finds bytes, or room, or the end.
WokenInv ==
  /\ NotifySource = Woken => EOS \/ Level > 0
  /\ NotifyDrain = Woken => EOS \/ Level < BufferSize

WorkerInv == TypeOK /\ StartInv /\ EndInv /\ InputInv /\ OutputInv /\ WokenInv
=============================================================================
