---------------------------- MODULE Event_proofs ----------------------------
(***************************************************************************)
(* For any set of threads: no wake-up is lost in Event, and each of its    *)
(* operations takes effect in one step, as AtomicEvent says.  TypeOK and   *)
(* WakeupNotLost together are inductive: a thread can go to sleep only     *)
(* with the mutex and while State is false, and a Set that makes it true   *)
(* has the mutex until it has called NotifyAll.                            *)
(***************************************************************************)
EXTENDS Event, TLAPS

EventInv == TypeOK /\ WakeupNotLost

LEMMA EventInit == ASSUME Init PROVE EventInv
BY EventAssumption DEF Init, EventInv, TypeOK, WakeupNotLost, Pcs, EventAssumption

LEMMA EventTypeStep == ASSUME TypeOK, [Next]_vars PROVE TypeOK'
<1> USE EventAssumption DEF EventAssumption, TypeOK, Pcs, Goto, Return
<1>1. ASSUME NEW t \in Threads, Call(t) PROVE TypeOK'
  BY <1>1 DEF Call
<1>2. ASSUME NEW t \in Threads, WakeUp(t) PROVE TypeOK'
  BY <1>2 DEF WakeUp
<1>3. ASSUME NEW t \in Threads, WaitCheck(t) PROVE TypeOK'
  BY <1>3 DEF WaitCheck
<1>4. ASSUME NEW t \in Threads, WaitLock(t) PROVE TypeOK'
  BY <1>4 DEF WaitLock
<1>5. ASSUME NEW t \in Threads, WaitLoop(t) PROVE TypeOK'
  BY <1>5 DEF WaitLoop
<1>6. ASSUME NEW t \in Threads, TimedOut(t) PROVE TypeOK'
  BY <1>6 DEF TimedOut
<1>7. ASSUME NEW t \in Threads, SetCheck(t) PROVE TypeOK'
  BY <1>7 DEF SetCheck
<1>8. ASSUME NEW t \in Threads, SetState(t) PROVE TypeOK'
  BY <1>8 DEF SetState
<1>9. ASSUME NEW t \in Threads, SetNotify(t) PROVE TypeOK'
  BY <1>9 DEF SetNotify
<1>10. ASSUME NEW t \in Threads, Reset(t) PROVE TypeOK'
  BY <1>10 DEF Reset
<1>11. CASE UNCHANGED vars
  BY <1>11 DEF vars
<1> QED
  BY <1>1, <1>2, <1>3, <1>4, <1>5, <1>6, <1>7, <1>8, <1>9, <1>10, <1>11 DEF Next, Step

LEMMA EventWakeupStep == ASSUME EventInv, [Next]_vars PROVE WakeupNotLost'
<1> USE DEF EventInv, TypeOK, WakeupNotLost, Goto, Return
<1>1. ASSUME NEW t \in Threads, Call(t) PROVE WakeupNotLost'
  BY <1>1 DEF Call
<1>2. ASSUME NEW t \in Threads, WakeUp(t) PROVE WakeupNotLost'
  BY <1>2 DEF WakeUp
<1>3. ASSUME NEW t \in Threads, WaitCheck(t) PROVE WakeupNotLost'
  BY <1>3 DEF WaitCheck
<1>4. ASSUME NEW t \in Threads, WaitLock(t) PROVE WakeupNotLost'
  BY <1>4 DEF WaitLock
<1>5. ASSUME NEW t \in Threads, WaitLoop(t) PROVE WakeupNotLost'
  BY <1>5 DEF WaitLoop
<1>6. ASSUME NEW t \in Threads, TimedOut(t) PROVE WakeupNotLost'
  BY <1>6 DEF TimedOut
<1>7. ASSUME NEW t \in Threads, SetCheck(t) PROVE WakeupNotLost'
  BY <1>7 DEF SetCheck
<1>8. ASSUME NEW t \in Threads, SetState(t) PROVE WakeupNotLost'
  BY <1>8 DEF SetState
<1>9. ASSUME NEW t \in Threads, SetNotify(t) PROVE WakeupNotLost'
  BY <1>9 DEF SetNotify
<1>10. ASSUME NEW t \in Threads, Reset(t) PROVE WakeupNotLost'
  BY <1>10 DEF Reset
<1>11. CASE UNCHANGED vars
  BY <1>11 DEF vars
<1> QED
  BY <1>1, <1>2, <1>3, <1>4, <1>5, <1>6, <1>7, <1>8, <1>9, <1>10, <1>11 DEF Next, Step

\* Types are kept, and the mutex belongs to the thread inside a critical section.
THEOREM EventTypeCorrect == Spec => []TypeOK
<1>1. Init => TypeOK
  BY EventInit DEF EventInv
<1> QED  BY <1>1, EventTypeStep, PTL DEF Spec

\* No thread sleeps while the event is set, but for the time until the Set that
\* did it has called NotifyAll (Event::Wait, Event::Set).
THEOREM NoWakeupIsLost == Spec => []WakeupNotLost
<1>1. EventInv /\ [Next]_vars => EventInv'
  BY EventTypeStep, EventWakeupStep DEF EventInv
<1>2. EventInv => WakeupNotLost
  BY DEF EventInv
<1> QED  BY <1>1, <1>2, EventInit, PTL DEF Spec
-----------------------------------------------------------------------------
\* Notification::Wait returns false only to a Wait with a time limit.
LimitedInv == \A t \in Threads : pc[t] = "timedout" => timed[t]

LEMMA LimitedStep == ASSUME TypeOK, LimitedInv, [Next]_vars PROVE LimitedInv'
<1> USE DEF TypeOK, LimitedInv, Goto, Return
<1>1. ASSUME NEW t \in Threads, Call(t) PROVE LimitedInv'
  BY <1>1 DEF Call
<1>2. ASSUME NEW t \in Threads, WakeUp(t) PROVE LimitedInv'
  BY <1>2 DEF WakeUp
<1>3. ASSUME NEW t \in Threads, Step(t) PROVE LimitedInv'
  BY <1>3
     DEF Step, WaitCheck, WaitLock, WaitLoop, TimedOut, SetCheck, SetState, SetNotify, Reset
<1>4. CASE UNCHANGED vars
  BY <1>4 DEF vars
<1> QED  BY <1>1, <1>2, <1>3, <1>4 DEF Next

\* Where a thread's program counter moves, its call in AtomicEvent moves with it.
LEMMA CallMoves ==
  ASSUME TypeOK, NEW t \in Threads, NEW p, Goto(t, p)
  PROVE  Atomic!Goto(t, CallAt(p))
BY DEF TypeOK, Goto, callOf, Atomic!Goto

\* It does not move within one phase of a call.
LEMMA CallStays ==
  ASSUME TypeOK, NEW t \in Threads, NEW p, Goto(t, p), CallAt(p) = CallAt(pc[t])
  PROVE  callOf' = callOf
BY DEF TypeOK, Goto, callOf

LEMMA AtomicInit == ASSUME Init PROVE Atomic!Init
BY DEF Init, Atomic!Init, callOf, CallAt

\* Every step is a step of AtomicEvent or leaves its variables alone.
LEMMA AtomicStep ==
  ASSUME TypeOK, LimitedInv, [Next]_vars
  PROVE  [Atomic!Next]_(Atomic!vars)
<1> USE DEF Atomic!vars, CallAt
<1>0. \A t \in Threads : callOf[t] = CallAt(pc[t])
  BY DEF callOf
<1>1. ASSUME NEW t \in Threads, Call(t) PROVE Atomic!Invoke(t)
  BY <1>0, <1>1, CallMoves DEF Call, Atomic!Invoke
<1>2. ASSUME NEW t \in Threads, WakeUp(t) PROVE UNCHANGED Atomic!vars
  BY <1>2, CallStays DEF WakeUp
<1>3. ASSUME NEW t \in Threads, WaitCheck(t) \/ WaitLoop(t)
      PROVE  Atomic!WaitReturns(t) \/ UNCHANGED Atomic!vars
  <2>1. callOf[t] = "wait"
    BY <1>0, <1>3 DEF WaitCheck, WaitLoop
  <2>2. CASE State
    <3>1. Atomic!Goto(t, "idle")
      BY <1>3, <2>2, CallMoves DEF WaitCheck, WaitLoop, Return
    <3> QED
      BY <1>3, <2>1, <2>2, <3>1
         DEF WaitCheck, WaitLoop, Return, Atomic!WaitReturns, Atomic!Return
  <2>3. CASE ~State
    BY <1>3, <2>3, CallStays DEF WaitCheck, WaitLoop
  <2> QED  BY <2>2, <2>3
<1>4. ASSUME NEW t \in Threads, WaitLock(t) PROVE UNCHANGED Atomic!vars
  BY <1>4, CallStays DEF WaitLock
<1>5. ASSUME NEW t \in Threads, TimedOut(t) PROVE Atomic!WaitTimesOut(t)
  BY <1>0, <1>5, CallMoves
     DEF TimedOut, Return, LimitedInv, Atomic!WaitTimesOut, Atomic!Return
<1>6. ASSUME NEW t \in Threads, SetCheck(t)
      PROVE  Atomic!SetTakesEffect(t) \/ UNCHANGED Atomic!vars
  <2>1. CASE State
    BY <1>0, <1>6, <2>1, CallMoves DEF SetCheck, TypeOK, Atomic!SetTakesEffect
  <2>2. CASE ~State
    BY <1>6, <2>2, CallStays DEF SetCheck
  <2> QED  BY <2>1, <2>2
<1>7. ASSUME NEW t \in Threads, SetState(t) PROVE Atomic!SetTakesEffect(t)
  BY <1>0, <1>7, CallMoves DEF SetState, Atomic!SetTakesEffect
<1>8. ASSUME NEW t \in Threads, SetNotify(t) PROVE Atomic!SetReturns(t)
  <2>1. callOf' = [callOf EXCEPT ![t] = "idle"]
    BY <1>8 DEF SetNotify, TypeOK, callOf
  <2> QED  BY <1>0, <1>8, <2>1 DEF SetNotify, Atomic!SetReturns, Atomic!Goto
<1>9. ASSUME NEW t \in Threads, Reset(t) PROVE Atomic!ResetTakesEffect(t)
  BY <1>0, <1>9, CallMoves DEF Reset, Atomic!ResetTakesEffect
<1>10. CASE UNCHANGED vars
  BY <1>10 DEF vars, callOf
<1> QED
  BY <1>1, <1>2, <1>3, <1>4, <1>5, <1>6, <1>7, <1>8, <1>9, <1>10
     DEF Next, Step, Atomic!Next

\* The safety half of ImplementsAtomicEvent: every operation of Event takes
\* effect in one step between its call and its return.
THEOREM EventIsAtomic == Spec => Atomic!SafeSpec
<1>1. Init => LimitedInv
  BY DEF Init, LimitedInv
<1>2. Spec => []LimitedInv
  BY <1>1, EventInit, EventTypeStep, LimitedStep, PTL DEF Spec, EventInv
<1> QED
  BY <1>2, EventTypeCorrect, AtomicInit, AtomicStep, PTL DEF Spec, Atomic!SafeSpec
=============================================================================
