----------------------------- MODULE IOinterface -----------------------------
(***************************************************************************)
(* The I/O objects of src/IOinterface.cpp, with the named pipes of OS/2,   *)
(* and the descriptors they share: main constructs the input and the       *)
(* output, the input thread and the main thread initialize and use one     *)
(* each, the input thread destroys its object when it is done and main the *)
(* other one after the join.  Every system call is a step of its own,      *)
(* because the other thread may open or close a descriptor in between, and *)
(* the system reuses the lowest free number at once.                       *)
(*                                                                         *)
(* The member HF of a FileServices and the member Socket of a              *)
(* TcpipServices are both called handle here: an object has one of them.   *)
(***************************************************************************)
EXTENDS Integers

CONSTANT Limit   \* number of descriptors the process may have open

ASSUME LimitAssumption == Limit \in Nat /\ Limit >= 3

VARIABLES
  argument,      \* what the command line says of each object
  descriptors,   \* the descriptor table of the process: who opened what
  handle,        \* HF or Socket of the object
  new_sock,      \* the local variable of TcpipServices::Initialize
  pc,            \* what the thread of each object does next
  started        \* the input thread has been created

objects == <<handle, new_sock>>
setting == <<argument, started>>
vars    == <<setting, descriptors, objects, pc>>

Sides == {"input", "output"}

NoHandle    == -1
Descriptors == 0..(Limit - 1)

\* "-", the name of a file or of a pipe, or what follows tcpip://
Arguments ==
  [kind : {"stdio", "file", "pipe"}] \cup
  [kind : {"tcpip"}, colon : BOOLEAN, host : {"empty", "address", "name"},
   port : {"number", "service"}]

Free        == <<"nobody", "free">>
Standard    == [s \in Sides |-> IF s = "input" THEN 0 ELSE 1]
Roles       == {"standard", "file", "pipe", "socket", "connection"}
Uses        == (({"log"} \cup Sides) \X Roles) \cup {Free}

Places == {"none", "constructed", "initialize", "bind", "listen", "accept",
           "soclose", "assign", "connect", "create", "transfer", "finished", "destroyed"}

Init ==
  /\ argument \in [Sides -> Arguments]
  /\ descriptors = [d \in Descriptors |->
                      CASE d = 0 -> <<"input", "standard">>
                        [] d = 1 -> <<"output", "standard">>
                        [] d = 2 -> <<"log", "standard">>
                        [] OTHER -> Free]
  /\ handle = [s \in Sides |-> NoHandle]
  /\ new_sock = [s \in Sides |-> NoHandle]
  /\ pc = [s \in Sides |-> "none"]
  /\ started = FALSE
-----------------------------------------------------------------------------
(* The system: descriptors *)

FreeDescriptors == {d \in Descriptors : descriptors[d] = Free}
LowestFree      == CHOOSE d \in FreeDescriptors : \A e \in FreeDescriptors : d <= e

Open(s, role) ==
  /\ FreeDescriptors # {}
  /\ descriptors' = [descriptors EXCEPT ![LowestFree] = <<s, role>>]

Close(d) == descriptors' = [descriptors EXCEPT ![d] = Free]

Goto(s, place) == pc' = [pc EXCEPT ![s] = place]

\* An exception out of Initialize, or out of ReadData or WriteData.
Throws(s) == Goto(s, "finished")

\* A call that opens what the object uses from then on, or throws.
Opens(s, role, next) ==
  /\ \/ /\ Open(s, role)
        /\ handle' = [handle EXCEPT ![s] = LowestFree]
        /\ Goto(s, next)
     \/ Throws(s) /\ UNCHANGED <<descriptors, handle>>
  /\ UNCHANGED <<setting, new_sock>>

\* A call that opens and closes nothing.
Calls(s, call, next) ==
  /\ pc[s] = call
  /\ Goto(s, next) \/ Throws(s)
  /\ UNCHANGED <<setting, descriptors, objects>>
-----------------------------------------------------------------------------
(* main *)

\* TcpipServices::Parse looks host names and services up; either may fail.
ParseMayThrow(a) == a.kind = "tcpip" /\ (~a.colon \/ a.host = "name" \/ a.port = "service")
ParseMayReturn(a) == a.kind = "tcpip" => a.colon

IsServer(s) == argument[s].host = "empty"

\* The factories, the input's first.  If one throws main unwinds.
Construct(s) ==
  /\ pc[s] = "none"
  /\ s = "output" => pc["input"] = "constructed"
  /\ \/ ParseMayReturn(argument[s]) /\ Goto(s, "constructed")
     \/ ParseMayThrow(argument[s]) /\ pc' = [t \in Sides |-> IF pc[t] = "constructed"
                                                             THEN "finished" ELSE "destroyed"]
  /\ UNCHANGED <<setting, descriptors, objects>>

\* pthread_create, which may fail.
StartThread ==
  /\ \A s \in Sides : pc[s] = "constructed"
  /\ \/ pc' = [s \in Sides |-> "initialize"] /\ started' = TRUE
     \/ pc' = [s \in Sides |-> "finished"] /\ UNCHANGED started
  /\ UNCHANGED <<argument, descriptors, objects>>
-----------------------------------------------------------------------------
(* FileInput::Initialize and FileOutput::Initialize *)

InitializeStdio(s) ==
  /\ pc[s] = "initialize"
  /\ argument[s].kind = "stdio"
  /\ handle' = [handle EXCEPT ![s] = Standard[s]]
  /\ Goto(s, "transfer")
  /\ UNCHANGED <<setting, descriptors, new_sock>>

InitializeFile(s) ==
  /\ pc[s] = "initialize"
  /\ argument[s].kind = "file"
  /\ Opens(s, "file", "transfer")

\* OS/2: an existing instance of the pipe is opened.  If there is none the pipe
\* is created, and DosConnectNPipe waits for the other end.
InitializePipe(s) ==
  /\ pc[s] = "initialize"
  /\ argument[s].kind = "pipe"
  /\ \/ Opens(s, "pipe", "transfer")
     \/ Goto(s, "create") /\ UNCHANGED <<setting, descriptors, objects>>

CreatePipe(s) == pc[s] = "create" /\ Opens(s, "pipe", "connect")
-----------------------------------------------------------------------------
(* TcpipServices::Initialize *)

CreateSocket(s) ==
  /\ pc[s] = "initialize"
  /\ argument[s].kind = "tcpip"
  /\ Opens(s, "socket", IF IsServer(s) THEN "bind" ELSE "connect")

Bind(s)   == Calls(s, "bind", "listen")
Listen(s) == Calls(s, "listen", "accept")

\* connect, or DosConnectNPipe.
Connect(s) == Calls(s, "connect", "transfer")

\* MUTANT of AcceptFails: the result -1 is not looked at.
AcceptFailsUnnoticed(s) == Goto(s, "soclose")
AcceptFails(s) == Throws(s)

Accept(s) ==
  /\ pc[s] = "accept"
  /\ \/ /\ Open(s, "connection")
        /\ new_sock' = [new_sock EXCEPT ![s] = LowestFree]
        /\ Goto(s, "soclose")
     \/ AcceptFails(s) /\ UNCHANGED <<descriptors, new_sock>>
  /\ UNCHANGED <<setting, handle>>

\* MUTANTS of Soclose: the listening socket stays open; a failed soclose
\* throws although the descriptor is gone.
SocloseNever(s)  == Goto(s, "assign") /\ UNCHANGED descriptors
SocloseThrows(s) == Close(handle[s]) /\ (Goto(s, "assign") \/ Throws(s))
\* The result of soclose is not looked at.
Soclose(s) == Close(handle[s]) /\ Goto(s, "assign")

CloseListener(s) == pc[s] = "soclose" /\ Soclose(s) /\ UNCHANGED <<setting, objects>>

\* MUTANT of Accepted: the accepted connection is forgotten.
AcceptedNot(s) == handle[s]
Accepted(s) == new_sock[s]

AssignSocket(s) ==
  /\ pc[s] = "assign"
  /\ handle' = [handle EXCEPT ![s] = Accepted(s)]
  /\ Goto(s, "transfer")
  /\ UNCHANGED <<setting, descriptors, new_sock>>
-----------------------------------------------------------------------------
\* ReadData or WriteData ends the transfer: with the end of the data, with an
\* error, or because the worker makes no further call.
EndTransfer(s) ==
  /\ pc[s] = "transfer"
  /\ Goto(s, "finished")
  /\ UNCHANGED <<setting, descriptors, objects>>

\* The input thread deletes its object itself, main deletes the output after
\* the join; without a thread main's variables die in the reverse order.
MayDestroy(s) ==
  IF started THEN s = "output" => pc["input"] = "destroyed"
             ELSE s = "input" => pc["output"] = "destroyed"

\* The destructors of FileServices and TcpipServices.
Destroy(s) ==
  /\ pc[s] = "finished"
  /\ MayDestroy(s)
  /\ IF handle[s] # NoHandle THEN Close(handle[s]) ELSE UNCHANGED descriptors
  /\ Goto(s, "destroyed")
  /\ UNCHANGED <<setting, objects>>

Exited == \A s \in Sides : pc[s] = "destroyed"
Terminated == Exited /\ UNCHANGED vars

Next ==
  \/ StartThread
  \/ \E s \in Sides :
       \/ Construct(s)
       \/ InitializeStdio(s) \/ InitializeFile(s)
       \/ InitializePipe(s) \/ CreatePipe(s)
       \/ CreateSocket(s) \/ Bind(s) \/ Listen(s) \/ Accept(s)
       \/ CloseListener(s) \/ AssignSocket(s) \/ Connect(s)
       \/ EndTransfer(s) \/ Destroy(s)
  \/ Terminated

Spec == Init /\ [][Next]_vars
-----------------------------------------------------------------------------
(* Properties *)

\* Every variable stays in its domain, and nobody reads or writes without a
\* descriptor.
TypeOK ==
  /\ argument \in [Sides -> Arguments]
  /\ descriptors \in [Descriptors -> Uses]
  /\ handle \in [Sides -> Descriptors \cup {NoHandle}]
  /\ new_sock \in [Sides -> Descriptors \cup {NoHandle}]
  /\ pc \in [Sides -> Places]
  /\ started \in BOOLEAN
  /\ \A s \in Sides : pc[s] = "transfer" => handle[s] # NoHandle

\* Except between soclose and the assignment that follows it, a handle a thread
\* may still use denotes a descriptor that was opened for this very object:
\* never one the other thread got because the number became free.
HandleIsOwn ==
  \A s \in Sides :
    handle[s] # NoHandle /\ pc[s] \notin {"assign", "destroyed"} =>
      descriptors[handle[s]][1] = s

\* A step of one side never closes what the other side or the log has open.
CloseStep ==
  \A d \in Descriptors : descriptors'[d] = Free /\ descriptors[d] # Free =>
    \E s \in Sides : descriptors[d][1] = s /\ pc'[s] # pc[s]
ClosesOnlyItsOwn == [][CloseStep]_vars

\* Whichever call failed, the process ends with nothing open that it opened,
\* and the accepted connection is all a server has open while it transfers.
Owned(s) == {d \in Descriptors : descriptors[d][1] = s /\ descriptors[d][2] # "standard"}
NothingLeaks ==
  /\ Exited => \A s \in Sides : Owned(s) = {}
  /\ \A s \in Sides : pc[s] = "transfer" => Owned(s) \subseteq {handle[s]}
-----------------------------------------------------------------------------
(* The inductive invariant: what each place says of the object's descriptors. *)

\* The descriptors that the thread of s still has a name for.
Known(s) ==
  (IF pc[s] \in {"assign", "destroyed"} THEN {} ELSE {handle[s]}) \cup
  (IF pc[s] \in {"soclose", "assign"} THEN {new_sock[s]} ELSE {})

HandleInv(s) ==
  /\ pc[s] \in {"none", "constructed", "initialize", "create"} => handle[s] = NoHandle
  /\ pc[s] \in {"bind", "listen", "accept", "soclose", "connect", "transfer"} =>
       handle[s] # NoHandle
  /\ handle[s] # NoHandle /\ pc[s] \notin {"assign", "destroyed"} =>
       descriptors[handle[s]][1] = s
  /\ pc[s] \in {"bind", "listen", "accept", "soclose"} =>
       descriptors[handle[s]] = <<s, "socket">>

\* Between accept and the assignment a server has two descriptors.
AcceptInv(s) ==
  pc[s] \in {"soclose", "assign"} =>
    /\ new_sock[s] \in Descriptors
    /\ descriptors[new_sock[s]] = <<s, "connection">>
    /\ pc[s] = "soclose" => handle[s] # new_sock[s]

\* The standard descriptor of a side is there until its object is destroyed.
StandardInv(s) == pc[s] # "destroyed" => descriptors[Standard[s]] = <<s, "standard">>

SideInv(s) ==
  HandleInv(s) /\ AcceptInv(s) /\ StandardInv(s) /\ Owned(s) \subseteq Known(s)

\* The input is constructed first.
OrderInv == pc["input"] = "none" => pc["output"] = "none"

DescriptorInv == TypeOK /\ OrderInv /\ \A s \in Sides : SideInv(s)
=============================================================================
