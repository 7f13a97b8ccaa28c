-------------------------- MODULE IOinterface_proofs --------------------------
(***************************************************************************)
(* The properties of IOinterface for a descriptor table of any size.       *)
(* DescriptorInv is inductive: a step of one side keeps the part of the    *)
(* other side because it opens only what is free and closes only what is   *)
(* its own, and its own part because the number it gets is a free one.     *)
(***************************************************************************)
EXTENDS IOinterface, WellFoundedInduction, TLAPS

\* If a descriptor is free there is a lowest free one.
LEMMA LowestIsFree ==
  ASSUME FreeDescriptors # {}
  PROVE  LowestFree \in FreeDescriptors
<1>1. FreeDescriptors \subseteq Nat
  BY LimitAssumption DEF FreeDescriptors, Descriptors
<1>2. IsWellFoundedOn(OpToRel(<, Nat), Nat)
  BY NatLessThanWellFounded
<1>3. PICK d \in FreeDescriptors :
        \A e \in FreeDescriptors : ~ (<<e, d>> \in OpToRel(<, Nat))
  BY <1>1, <1>2, WFMin
<1>4. \A e \in FreeDescriptors : ~(e < d)
  BY <1>1, <1>3 DEF OpToRel
<1>5. \A e \in FreeDescriptors : d <= e
  BY <1>1, <1>4
<1> QED BY <1>5 DEF LowestFree

\* What open, socket and accept return, and what else they change: nothing.
LEMMA Opened ==
  ASSUME TypeOK, NEW s \in Sides, NEW role \in Roles, Open(s, role)
  PROVE  /\ LowestFree \in Descriptors
         /\ LowestFree # NoHandle
         /\ descriptors[LowestFree] = Free
         /\ descriptors' \in [Descriptors -> Uses]
         /\ descriptors'[LowestFree] = <<s, role>>
         /\ \A d \in Descriptors \ {LowestFree} : descriptors'[d] = descriptors[d]
<1>1. LowestFree \in Descriptors /\ descriptors[LowestFree] = Free
  BY LowestIsFree DEF Open, FreeDescriptors
<1>2. LowestFree # NoHandle
  BY <1>1, LimitAssumption DEF Descriptors, NoHandle
<1>3. <<s, role>> \in Uses
  BY DEF Uses
<1> QED BY <1>1, <1>2, <1>3 DEF Open, TypeOK

LEMMA Closed ==
  ASSUME TypeOK, NEW d \in Descriptors, Close(d)
  PROVE  /\ descriptors' \in [Descriptors -> Uses]
         /\ descriptors'[d] = Free
         /\ \A e \in Descriptors \ {d} : descriptors'[e] = descriptors[e]
BY DEF Close, TypeOK, Uses

\* The first components of the uses tell the sides apart.
LEMMA Users ==
  /\ Sides = {"input", "output"}
  /\ Free[1] = "nobody" /\ "nobody" \notin Sides
  /\ \A s \in Sides, role \in Roles : <<s, role>>[1] = s /\ <<s, role>>[2] = role
  /\ \A s \in Sides : Standard[s] \in Descriptors /\ Standard[s] # NoHandle
  /\ NoHandle \notin Descriptors
BY LimitAssumption DEF Sides, Free, Standard, Descriptors, NoHandle

\* A step that changes nothing of t, and no descriptor of t.
LEMMA OtherSide ==
  ASSUME TypeOK, NEW t \in Sides, SideInv(t),
         pc'[t] = pc[t], handle'[t] = handle[t], new_sock'[t] = new_sock[t],
         \A d \in Descriptors :
           descriptors'[d] = descriptors[d] \/ (descriptors[d][1] # t /\ descriptors'[d][1] # t)
  PROVE  SideInv(t)'
<1> USE Users DEF SideInv, TypeOK
<1>1. HandleInv(t)'
  BY DEF HandleInv
<1>2. AcceptInv(t)'
  BY DEF AcceptInv, Roles
<1>3. StandardInv(t)'
  BY DEF StandardInv, Roles
<1>4. Owned(t)' \subseteq Known(t)'
  BY DEF Owned, Known
<1> QED BY <1>1, <1>2, <1>3, <1>4

\* What a step of s leaves alone.
OnlyTouches(s) ==
  \A t \in Sides \ {s} :
    /\ pc'[t] = pc[t] /\ handle'[t] = handle[t] /\ new_sock'[t] = new_sock[t]
    /\ \A d \in Descriptors :
         descriptors'[d] = descriptors[d] \/ (descriptors[d][1] # t /\ descriptors'[d][1] # t)

LEMMA StepOfSide ==
  ASSUME DescriptorInv, NEW s \in Sides, TypeOK', OnlyTouches(s), SideInv(s)',
         pc'[s] # "none", pc[s] = "none" => pc["input"] # "none" \/ s = "input"
  PROVE  DescriptorInv'
<1>1. ASSUME NEW t \in Sides \ {s} PROVE SideInv(t)'
  BY OtherSide DEF DescriptorInv, OnlyTouches
<1>2. OrderInv'
  BY DEF DescriptorInv, OrderInv, OnlyTouches, Sides
<1> QED BY <1>1, <1>2 DEF DescriptorInv

\* A step that opens and closes nothing and changes no variable of s but pc.
LEMMA QuietStep ==
  ASSUME DescriptorInv, NEW s \in Sides, NEW place \in Places, Goto(s, place),
         UNCHANGED <<setting, descriptors, objects>>,
         handle[s] = NoHandle /\ pc[s] \in {"none", "initialize"}
           => place \in {"constructed", "create", "finished"},
         handle[s] # NoHandle =>
           place \in {"finished", "listen", "accept", "connect", "transfer"},
         place \in {"listen", "accept"} => pc[s] \in {"bind", "listen"},
         handle[s] = NoHandle => place = "finished" \/ pc[s] \in {"none", "initialize"},
         pc[s] \notin {"soclose", "assign", "destroyed"},
         pc[s] = "none" => pc["input"] # "none" \/ s = "input"
  PROVE  DescriptorInv'
<1> USE Users DEF DescriptorInv, TypeOK, Goto, objects, setting
<1>1. pc'[s] = place /\ pc' \in [Sides -> Places]
  OBVIOUS
<1>2. TypeOK'
  BY <1>1
<1>3. OnlyTouches(s)
  BY DEF OnlyTouches
<1>4. SideInv(s)'
  BY <1>1 DEF SideInv, HandleInv, AcceptInv, StandardInv, Owned, Known
<1> QED BY <1>2, <1>3, <1>4, StepOfSide

\* The call of s returns a new descriptor, which becomes its handle.
LEMMA OpensStep ==
  ASSUME DescriptorInv, NEW s \in Sides, NEW role \in {"file", "pipe", "socket"},
         NEW next \in {"transfer", "connect", "bind"}, Opens(s, role, next),
         next = "bind" => role = "socket",
         pc[s] \in {"initialize", "create"}
  PROVE  DescriptorInv'
<1> USE Users DEF DescriptorInv
<1>1. handle[s] = NoHandle /\ SideInv(s) /\ TypeOK
  BY DEF SideInv, HandleInv
<1>2. CASE Throws(s) /\ UNCHANGED <<descriptors, handle>>
  BY <1>1, <1>2, QuietStep DEF Opens, Throws, Places, objects
<1>3. CASE /\ Open(s, role) /\ Goto(s, next)
           /\ handle' = [handle EXCEPT ![s] = LowestFree]
  <2> DEFINE n == LowestFree
  <2>1. /\ n \in Descriptors /\ n # NoHandle /\ descriptors[n] = Free
        /\ descriptors' \in [Descriptors -> Uses] /\ descriptors'[n] = <<s, role>>
        /\ \A d \in Descriptors \ {n} : descriptors'[d] = descriptors[d]
    BY <1>1, <1>3, Opened DEF Roles
  <2>2. handle'[s] = n /\ pc'[s] = next
    BY <1>1, <1>3 DEF TypeOK, Goto
  <2>3. TypeOK'
    BY <1>1, <1>3, <2>1, <2>2 DEF Opens, TypeOK, Goto, Places, setting
  <2>4. OnlyTouches(s)
    BY <1>1, <1>3, <2>1 DEF OnlyTouches, Opens, TypeOK, Goto, Roles
  <2>5. SideInv(s)'
    <3>1. HandleInv(s)' /\ AcceptInv(s)'
      BY <2>1, <2>2 DEF HandleInv, AcceptInv, Roles
    <3>2. StandardInv(s)'
      BY <1>1, <2>1, <2>2 DEF SideInv, StandardInv, Roles
    <3>3. Owned(s)' \subseteq Known(s)'
      BY <1>1, <2>1, <2>2 DEF SideInv, Owned, Known, Roles
    <3> QED BY <3>1, <3>2, <3>3 DEF SideInv
  <2> QED BY <1>1, <2>2, <2>3, <2>4, <2>5, StepOfSide
<1> QED BY <1>2, <1>3 DEF Opens
-----------------------------------------------------------------------------
(* The actions *)

\* A step of both threads at once, while no descriptor has been opened.
LEMMA EarlyStep ==
  ASSUME DescriptorInv, UNCHANGED <<argument, descriptors, objects>>,
         pc' \in [Sides -> {"initialize", "finished", "destroyed"}], started' \in BOOLEAN,
         \A s \in Sides : pc[s] \in {"none", "constructed"}
  PROVE  DescriptorInv'
<1> USE Users DEF DescriptorInv, objects
<1>1. TypeOK'
  BY DEF TypeOK, Places
<1>2. ASSUME NEW s \in Sides PROVE SideInv(s)'
  <2>1. /\ handle[s] = NoHandle /\ SideInv(s)
        /\ pc'[s] \in {"initialize", "finished", "destroyed"}
    BY DEF SideInv, HandleInv
  <2> QED BY <2>1 DEF SideInv, HandleInv, AcceptInv, StandardInv, Owned, Known
<1>3. OrderInv'
  BY DEF OrderInv
<1> QED BY <1>1, <1>2, <1>3

LEMMA ConstructStep ==
  ASSUME DescriptorInv, NEW s \in Sides, Construct(s)
  PROVE  DescriptorInv'
<1> USE Users DEF DescriptorInv
<1>1. CASE Goto(s, "constructed")
  <2>1. handle[s] = NoHandle
    BY DEF Construct, SideInv, HandleInv
  <2> QED BY <1>1, <2>1, QuietStep DEF Construct, Places
\* A factory throws, and main unwinds.
<1>2. CASE pc' = [t \in Sides |-> IF pc[t] = "constructed" THEN "finished" ELSE "destroyed"]
  <2>1. \A t \in Sides : pc[t] \in {"none", "constructed"}
    BY DEF Construct, OrderInv
  <2> QED BY <1>2, <2>1, EarlyStep DEF Construct, setting, TypeOK
<1> QED BY <1>1, <1>2 DEF Construct

LEMMA StartThreadStep ==
  ASSUME DescriptorInv, StartThread
  PROVE  DescriptorInv'
<1>1. started' \in BOOLEAN
  BY Zenon DEF StartThread, DescriptorInv, TypeOK
<1> QED BY <1>1, EarlyStep DEF StartThread

\* The handle becomes a standard descriptor, which is still open.
LEMMA InitializeStdioStep ==
  ASSUME DescriptorInv, NEW s \in Sides, InitializeStdio(s)
  PROVE  DescriptorInv'
<1> USE Users DEF DescriptorInv, InitializeStdio, Goto
<1>1. handle'[s] = Standard[s] /\ pc'[s] = "transfer" /\ UNCHANGED <<descriptors, new_sock>>
  BY DEF TypeOK
<1>2. TypeOK'
  BY DEF TypeOK, setting, Places
<1>3. OnlyTouches(s)
  BY DEF TypeOK, OnlyTouches
<1>4. SideInv(s)'
  BY <1>1 DEF SideInv, HandleInv, AcceptInv, StandardInv, Owned, Known, Roles
<1> QED BY <1>1, <1>2, <1>3, <1>4, StepOfSide

LEMMA OpenSteps ==
  ASSUME DescriptorInv, NEW s \in Sides,
         InitializeFile(s) \/ InitializePipe(s) \/ CreatePipe(s) \/ CreateSocket(s)
  PROVE  DescriptorInv'
<1>1. CASE InitializeFile(s)
  BY <1>1, OpensStep DEF InitializeFile
<1>2. CASE InitializePipe(s)
  <2>1. CASE Opens(s, "pipe", "transfer")
    BY <1>2, <2>1, OpensStep DEF InitializePipe
  <2>2. CASE Goto(s, "create") /\ UNCHANGED <<setting, descriptors, objects>>
    <3>1. handle[s] = NoHandle
      BY <1>2 DEF InitializePipe, DescriptorInv, SideInv, HandleInv
    <3> QED BY <1>2, <2>2, <3>1, QuietStep DEF InitializePipe, Places
  <2> QED BY <1>2, <2>1, <2>2 DEF InitializePipe
<1>3. CASE CreatePipe(s)
  BY <1>3, OpensStep DEF CreatePipe
<1>4. CASE CreateSocket(s)
  BY <1>4, OpensStep DEF CreateSocket
<1> QED BY <1>1, <1>2, <1>3, <1>4

LEMMA CallSteps ==
  ASSUME DescriptorInv, NEW s \in Sides, Bind(s) \/ Listen(s) \/ Connect(s) \/ EndTransfer(s)
  PROVE  DescriptorInv'
<1>1. handle[s] # NoHandle
  BY DEF DescriptorInv, SideInv, HandleInv, Bind, Listen, Connect, Calls, EndTransfer
<1> QED BY <1>1, QuietStep
        DEF Bind, Listen, Connect, Calls, EndTransfer, Throws, Places

\* The listening socket stays the handle for now.
LEMMA AcceptStep ==
  ASSUME DescriptorInv, NEW s \in Sides, Accept(s)
  PROVE  DescriptorInv'
<1> USE Users DEF DescriptorInv
<1>0. SideInv(s) /\ TypeOK /\ pc[s] = "accept" /\ handle[s] # NoHandle
  BY DEF Accept, SideInv, HandleInv
<1>1. CASE AcceptFails(s) /\ UNCHANGED <<descriptors, new_sock>>
  BY <1>0, <1>1, QuietStep DEF Accept, AcceptFails, Throws, Places, objects
<1>2. CASE /\ Open(s, "connection") /\ Goto(s, "soclose")
           /\ new_sock' = [new_sock EXCEPT ![s] = LowestFree]
  <2> DEFINE n == LowestFree
  <2>1. /\ n \in Descriptors /\ n # NoHandle /\ descriptors[n] = Free
        /\ descriptors' \in [Descriptors -> Uses] /\ descriptors'[n] = <<s, "connection">>
        /\ \A d \in Descriptors \ {n} : descriptors'[d] = descriptors[d]
    BY <1>0, <1>2, Opened DEF Roles
  <2>2. new_sock'[s] = n /\ pc'[s] = "soclose" /\ handle' = handle
    BY <1>0, <1>2 DEF TypeOK, Goto, Accept
  <2>3. TypeOK'
    BY <1>0, <1>2, <2>1, <2>2 DEF Accept, TypeOK, Goto, Places, setting
  <2>4. OnlyTouches(s)
    BY <1>0, <1>2, <2>1 DEF OnlyTouches, Accept, TypeOK, Goto, Roles
  <2>5. SideInv(s)'
    <3>1. handle[s] \in Descriptors \ {n} /\ descriptors[handle[s]] = <<s, "socket">>
      BY <1>0, <2>1 DEF SideInv, HandleInv, TypeOK
    <3>2. HandleInv(s)' /\ AcceptInv(s)'
      BY <2>1, <2>2, <3>1 DEF HandleInv, AcceptInv, Roles
    <3>3. StandardInv(s)'
      BY <1>0, <2>1, <2>2 DEF SideInv, StandardInv, Roles
    <3>4. Owned(s)' \subseteq Known(s)'
      BY <1>0, <2>1, <2>2 DEF SideInv, Owned, Known, Roles
    <3> QED BY <3>2, <3>3, <3>4 DEF SideInv
  <2> QED BY <1>0, <2>2, <2>3, <2>4, <2>5, StepOfSide
<1> QED BY <1>1, <1>2 DEF Accept

\* From here to the assignment the handle of s is stale.
LEMMA CloseListenerStep ==
  ASSUME DescriptorInv, NEW s \in Sides, CloseListener(s)
  PROVE  DescriptorInv'
<1> USE Users DEF DescriptorInv
<1>0. /\ SideInv(s) /\ TypeOK /\ pc[s] = "soclose" /\ pc'[s] = "assign"
      /\ handle[s] \in Descriptors /\ descriptors[handle[s]] = <<s, "socket">>
      /\ new_sock[s] \in Descriptors \ {handle[s]}
      /\ descriptors[new_sock[s]] = <<s, "connection">>
      /\ UNCHANGED <<handle, new_sock>>
  BY DEF CloseListener, Soclose, Goto, SideInv, HandleInv, AcceptInv, TypeOK, objects
<1>1. /\ descriptors' \in [Descriptors -> Uses] /\ descriptors'[handle[s]] = Free
      /\ \A d \in Descriptors \ {handle[s]} : descriptors'[d] = descriptors[d]
  BY <1>0, Closed DEF CloseListener, Soclose
<1>2. TypeOK'
  BY <1>0, <1>1 DEF CloseListener, Soclose, TypeOK, Goto, Places, setting, objects
<1>3. OnlyTouches(s)
  BY <1>0, <1>1 DEF CloseListener, Soclose, Goto, OnlyTouches, TypeOK, objects
<1>4. SideInv(s)'
  <2>1. HandleInv(s)' /\ AcceptInv(s)'
    BY <1>0, <1>1 DEF HandleInv, AcceptInv
  <2>2. StandardInv(s)'
    <3>1. descriptors[Standard[s]] = <<s, "standard">> /\ Standard[s] # handle[s]
      BY <1>0 DEF SideInv, StandardInv
    <3> QED BY <1>0, <1>1, <3>1 DEF StandardInv
  <2>3. Owned(s)' \subseteq Known(s)'
    BY <1>0, <1>1 DEF SideInv, Owned, Known
  <2> QED BY <2>1, <2>2, <2>3 DEF SideInv
<1> QED BY <1>0, <1>2, <1>3, <1>4, StepOfSide

LEMMA AssignSocketStep ==
  ASSUME DescriptorInv, NEW s \in Sides, AssignSocket(s)
  PROVE  DescriptorInv'
<1> USE Users DEF DescriptorInv, AssignSocket, Accepted, Goto
<1>0. /\ SideInv(s) /\ TypeOK /\ pc[s] = "assign" /\ pc'[s] = "transfer"
      /\ new_sock[s] \in Descriptors /\ descriptors[new_sock[s]] = <<s, "connection">>
      /\ handle'[s] = new_sock[s] /\ UNCHANGED <<descriptors, new_sock>>
  BY DEF SideInv, AcceptInv, TypeOK
<1>1. TypeOK'
  BY <1>0 DEF TypeOK, Places, setting
<1>2. OnlyTouches(s)
  BY DEF OnlyTouches, TypeOK
<1>3. SideInv(s)'
  BY <1>0 DEF SideInv, HandleInv, AcceptInv, StandardInv, Owned, Known
<1> QED BY <1>0, <1>1, <1>2, <1>3, StepOfSide

LEMMA DestroyStep ==
  ASSUME DescriptorInv, NEW s \in Sides, Destroy(s)
  PROVE  DescriptorInv'
<1> USE Users DEF DescriptorInv, Destroy, Goto, objects, setting
<1>0. SideInv(s) /\ TypeOK /\ pc[s] = "finished" /\ pc'[s] = "destroyed"
  BY DEF TypeOK
<1>1. CASE handle[s] = NoHandle
  <2>1. TypeOK'
    BY <1>0, <1>1 DEF TypeOK, Places
  <2>2. OnlyTouches(s)
    BY <1>1 DEF OnlyTouches, TypeOK
  <2>3. SideInv(s)'
    BY <1>0, <1>1 DEF SideInv, HandleInv, AcceptInv, StandardInv, Owned, Known
  <2> QED BY <1>0, <2>1, <2>2, <2>3, StepOfSide
<1>2. CASE handle[s] # NoHandle
  <2>0. handle[s] \in Descriptors /\ descriptors[handle[s]][1] = s
    BY <1>0, <1>2 DEF SideInv, HandleInv, TypeOK
  <2>1. /\ descriptors' \in [Descriptors -> Uses] /\ descriptors'[handle[s]] = Free
        /\ \A d \in Descriptors \ {handle[s]} : descriptors'[d] = descriptors[d]
    BY <1>2, <2>0, Closed
  <2>2. TypeOK'
    BY <1>0, <2>1 DEF TypeOK, Places
  <2>3. OnlyTouches(s)
    BY <2>0, <2>1 DEF OnlyTouches, TypeOK
  <2>4. SideInv(s)'
    BY <1>0, <2>1 DEF SideInv, HandleInv, AcceptInv, StandardInv, Owned, Known
  <2> QED BY <1>0, <2>2, <2>3, <2>4, StepOfSide
<1> QED BY <1>1, <1>2

LEMMA StutterStep ==
  ASSUME DescriptorInv, UNCHANGED vars
  PROVE  DescriptorInv'
BY DEF vars, setting, objects, DescriptorInv, TypeOK, OrderInv, SideInv, HandleInv,
       AcceptInv, StandardInv, Owned, Known

LEMMA DescriptorStep ==
  ASSUME DescriptorInv, [Next]_vars
  PROVE  DescriptorInv'
BY ConstructStep, StartThreadStep, InitializeStdioStep, OpenSteps, CallSteps, AcceptStep,
   CloseListenerStep, AssignSocketStep, DestroyStep, StutterStep
DEF Next, Terminated

LEMMA DescriptorInit ==
  ASSUME Init
  PROVE  DescriptorInv
<1> USE Users DEF Init
<1>1. /\ descriptors[0] = <<"input", "standard">> /\ descriptors[1] = <<"output", "standard">>
      /\ \A d \in Descriptors : descriptors[d] \in
           {<<"input", "standard">>, <<"output", "standard">>, <<"log", "standard">>, Free}
  <2>0. 0 \in Descriptors /\ 1 \in Descriptors
    BY LimitAssumption DEF Descriptors
  <2>1. descriptors[0] = <<"input", "standard">>
    BY <2>0
  <2>2. descriptors[1] = <<"output", "standard">>
    BY <2>0
  <2>3. ASSUME NEW d \in Descriptors, d # 0, d # 1
        PROVE  descriptors[d] \in {<<"log", "standard">>, Free}
    <3>1. CASE d = 2
      BY <2>3, <3>1
    <3>2. CASE d # 2
      BY <2>3, <3>2
    <3> QED BY <3>1, <3>2
  <2> QED BY <2>1, <2>2, <2>3
<1>2. descriptors \in [Descriptors -> Uses]
  BY <1>1 DEF Uses, Roles
<1>3. started \in BOOLEAN
  BY Zenon
<1>4. TypeOK /\ OrderInv
  BY <1>2, <1>3 DEF TypeOK, OrderInv, Places
<1>5. ASSUME NEW s \in Sides PROVE SideInv(s)
  <2>1. StandardInv(s)
    BY <1>1 DEF StandardInv, Standard
  <2>2. Owned(s) = {}
    BY <1>1 DEF Owned
  <2> QED BY <2>1, <2>2 DEF SideInv, HandleInv, AcceptInv
<1> QED BY <1>4, <1>5 DEF DescriptorInv
-----------------------------------------------------------------------------
(* The theorems *)

\* The invariant holds in every reachable state, whatever the limit is.
THEOREM DescriptorSafety == Spec => []DescriptorInv
BY DescriptorInit, DescriptorStep, PTL DEF Spec

\* Every variable stays in its domain, and nobody transfers without a descriptor.
THEOREM TypeCorrect == Spec => []TypeOK
<1>1. DescriptorInv => TypeOK
  BY DEF DescriptorInv
<1> QED BY <1>1, DescriptorSafety, PTL

\* No thread reads, writes or closes through a number that has become another's.
THEOREM HandlesStayOwn == Spec => []HandleIsOwn
<1>1. DescriptorInv => HandleIsOwn
  BY DEF DescriptorInv, SideInv, HandleInv, HandleIsOwn
<1> QED BY <1>1, DescriptorSafety, PTL

\* Nothing stays open but what is in use: no path out of Initialize, no failure
\* and no accepted connection leaves a descriptor behind.
THEOREM NothingStaysOpen == Spec => []NothingLeaks
<1>1. ASSUME DescriptorInv PROVE NothingLeaks
  <2>1. ASSUME NEW s \in Sides PROVE Owned(s) \subseteq Known(s)
    BY <1>1 DEF DescriptorInv, SideInv
  <2>2. ASSUME NEW s \in Sides, pc[s] = "destroyed" PROVE Owned(s) = {}
    BY <2>1, <2>2 DEF Known
  <2>3. ASSUME NEW s \in Sides, pc[s] = "transfer" PROVE Owned(s) \subseteq {handle[s]}
    BY <2>1, <2>3 DEF Known
  <2> QED BY <2>2, <2>3 DEF NothingLeaks, Exited
<1> QED BY <1>1, DescriptorSafety, PTL

\* A step that opens frees nothing, and a step that closes frees its own handle.
LEMMA OpenFreesNothing ==
  ASSUME TypeOK, NEW s \in Sides, NEW role \in Roles, Open(s, role),
         NEW d \in Descriptors, descriptors[d] # Free
  PROVE  descriptors'[d] # Free
BY Opened, Users

LEMMA CloseStepHolds ==
  ASSUME DescriptorInv, [Next]_vars, NEW d \in Descriptors, descriptors'[d] = Free,
         descriptors[d] # Free
  PROVE  \E s \in Sides : descriptors[d][1] = s /\ pc'[s] # pc[s]
<1>0. TypeOK
  BY DEF DescriptorInv
<1>1. PICK s \in Sides : CloseListener(s) \/ (Destroy(s) /\ handle[s] # NoHandle)
  BY <1>0, OpenFreesNothing
  DEF Next, StartThread, Construct, InitializeStdio, InitializeFile, InitializePipe,
      CreatePipe, CreateSocket, Bind, Listen, Connect, Calls, Opens, Accept, AssignSocket,
      EndTransfer, Destroy, Terminated, vars, Roles
<1>2. handle[s] \in Descriptors /\ descriptors[handle[s]][1] = s /\ pc'[s] # pc[s]
  BY <1>0, <1>1
  DEF CloseListener, Soclose, Destroy, Goto, DescriptorInv, SideInv, HandleInv, TypeOK
<1>3. d = handle[s]
  BY <1>0, <1>1, <1>2, Closed DEF CloseListener, Soclose, Destroy
<1> QED BY <1>2, <1>3

\* Neither thread ever closes a descriptor of the other one or of the log.
THEOREM ClosesOwn == Spec => ClosesOnlyItsOwn
<1>1. DescriptorInv /\ [Next]_vars => [CloseStep]_vars
  BY CloseStepHolds DEF CloseStep
<1> QED BY <1>1, DescriptorSafety, PTL DEF Spec, ClosesOnlyItsOwn
=============================================================================
