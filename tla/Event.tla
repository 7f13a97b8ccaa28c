-------------------------------- MODULE Event --------------------------------
(***************************************************************************)
(* Event of src/Event.cpp (pthread implementation).  Wait and Set first    *)
(* read State without the mutex.  What follows runs under the mutex of the *)
(* Notification the Event is derived from.                                 *)
(*                                                                         *)
(* Notification.cpp is not part of the repository.  Its Wait is taken for  *)
(* what the class says and pthreads offers: it releases the mutex and      *)
(* sleeps in one step, wakes up by NotifyAll, after its time limit, or for *)
(* no reason, and has the mutex again when it returns.                     *)
(***************************************************************************)
CONSTANTS Threads, NoThread

ASSUME EventAssumption == NoThread \notin Threads

VARIABLES
  State,
  owner,           \* of Notification::Mux
  pc,
  timed,           \* the thread's Wait has a time limit
  result           \* what the thread's last Wait returned

vars == <<State, owner, pc, timed, result>>

Pcs == { "idle",
         "wait",       \* in Wait, before the check without the mutex
         "wlock",      \* about to request the mutex
         "check",      \* at the loop condition, with the mutex
         "sleep",
         "notified",   \* woken up by NotifyAll, without the mutex yet
         "woken",      \* the same for no reason
         "timedout",
         "set",        \* in Set, before the check without the mutex
         "slock",
         "notify",     \* State is set, NotifyAll comes next, with the mutex
         "reset" }

Init ==
  /\ State = FALSE
  /\ owner = NoThread
  /\ pc = [t \in Threads |-> "idle"]
  /\ timed = [t \in Threads |-> FALSE]
  /\ result = [t \in Threads |-> FALSE]

Goto(t, p)   == pc' = [pc EXCEPT ![t] = p]
Return(t, r) == Goto(t, "idle") /\ result' = [result EXCEPT ![t] = r]

Call(t) ==
  /\ pc[t] = "idle"
  /\ \/ \E b \in BOOLEAN : Goto(t, "wait") /\ timed' = [timed EXCEPT ![t] = b]
     \/ \E p \in {"set", "reset"} : Goto(t, p) /\ UNCHANGED timed
  /\ UNCHANGED <<State, owner, result>>
-----------------------------------------------------------------------------
(* Wait *)

WaitCheck(t) ==
  /\ pc[t] = "wait"
  /\ IF State THEN Return(t, TRUE) ELSE Goto(t, "wlock") /\ UNCHANGED result
  /\ UNCHANGED <<State, owner, timed>>

\* MUTANT of WaitLock: if in place of while.
WaitLockIf(t) ==
  /\ pc[t] \in {"wlock", "notified", "woken"}
  /\ owner = NoThread
  /\ IF pc[t] # "wlock"
     THEN Return(t, TRUE) /\ UNCHANGED owner
     ELSE Goto(t, "check") /\ owner' = t /\ UNCHANGED result
  /\ UNCHANGED <<State, timed>>
\* The constructor of Lock, or Notification::Wait on its way back.
WaitLock(t) ==
  /\ pc[t] \in {"wlock", "notified", "woken"}
  /\ owner = NoThread
  /\ owner' = t
  /\ Goto(t, "check")
  /\ UNCHANGED <<State, timed, result>>

\* MUTANT of WaitLoop: the thread sleeps with the mutex.
WaitLoopKeepsMutex(t) ==
  /\ pc[t] = "check"
  /\ IF State
     THEN Return(t, TRUE) /\ owner' = NoThread
     ELSE Goto(t, "sleep") /\ UNCHANGED <<result, owner>>
  /\ UNCHANGED <<State, timed>>
WaitLoop(t) ==
  /\ pc[t] = "check"
  /\ IF State THEN Return(t, TRUE) ELSE Goto(t, "sleep") /\ UNCHANGED result
  /\ owner' = NoThread
  /\ UNCHANGED <<State, timed>>

WakeUp(t) ==
  /\ pc[t] = "sleep"
  /\ \/ Goto(t, "woken")
     \/ timed[t] /\ Goto(t, "timedout")
  /\ UNCHANGED <<State, owner, timed, result>>

\* Notification::Wait returns false; State is not looked at again.
TimedOut(t) ==
  /\ pc[t] = "timedout"
  /\ owner = NoThread
  /\ Return(t, FALSE)
  /\ UNCHANGED <<State, owner, timed>>
-----------------------------------------------------------------------------
(* Set *)

SetCheck(t) ==
  /\ pc[t] = "set"
  /\ IF State THEN Goto(t, "idle") ELSE Goto(t, "slock")
  /\ UNCHANGED <<State, owner, timed, result>>

SetState(t) ==
  /\ pc[t] = "slock"
  /\ owner = NoThread
  /\ owner' = t
  /\ State' = TRUE
  /\ Goto(t, "notify")
  /\ UNCHANGED <<timed, result>>

\* MUTANT of SetNotify: Notify in place of NotifyAll.
SetNotifyOne(t) ==
  /\ pc[t] = "notify"
  /\ \/ \E s \in Threads :
          pc[s] = "sleep" /\ pc' = [pc EXCEPT ![t] = "idle", ![s] = "notified"]
     \/ (\A s \in Threads : pc[s] # "sleep") /\ Goto(t, "idle")
  /\ owner' = NoThread
  /\ UNCHANGED <<State, timed, result>>
SetNotify(t) ==
  /\ pc[t] = "notify"
  /\ pc' = [s \in Threads |-> IF s = t THEN "idle"
                              ELSE IF pc[s] = "sleep" THEN "notified" ELSE pc[s]]
  /\ owner' = NoThread
  /\ UNCHANGED <<State, timed, result>>
-----------------------------------------------------------------------------
(* Reset: nothing can be seen of its critical section but the assignment. *)

Reset(t) ==
  /\ pc[t] = "reset"
  /\ owner = NoThread
  /\ State' = FALSE
  /\ Goto(t, "idle")
  /\ UNCHANGED <<owner, timed, result>>

\* What a thread does that the scheduler keeps running and that gets the mutex
\* when nobody wants it any more.
Step(t) ==
  \/ WaitCheck(t) \/ WaitLock(t) \/ WaitLoop(t) \/ TimedOut(t)
  \/ SetCheck(t) \/ SetState(t) \/ SetNotify(t)
  \/ Reset(t)

Next == \E t \in Threads : Call(t) \/ WakeUp(t) \/ Step(t)

Spec     == Init /\ [][Next]_vars
FairSpec == Spec /\ \A t \in Threads : WF_vars(Step(t))
-----------------------------------------------------------------------------
(* Properties *)

\* Types, and the mutex: exactly the thread inside a critical section has it.
TypeOK ==
  /\ State \in BOOLEAN
  /\ owner \in Threads \cup {NoThread}
  /\ pc \in [Threads -> Pcs]
  /\ timed \in [Threads -> BOOLEAN] /\ result \in [Threads -> BOOLEAN]
  /\ \A t \in Threads : owner = t <=> pc[t] \in {"check", "notify"}

\* No wake-up is lost: a thread sleeps while the event is set only until the
\* Set that did it has called NotifyAll.  A Set that returns early because of
\* its unlocked check must not leave one behind.
WakeupNotLost ==
  (State /\ \E t \in Threads : pc[t] = "sleep") => \E s \in Threads : pc[s] = "notify"

\* The event behaves as if each operation were one step, in spite of the
\* unlocked checks, spurious wake-ups and a time limit that races with Set; and
\* an event that stays set releases every thread.  For one that is reset again
\* see SetReleasesWaiters.
CallAt(p) ==
  IF p \in {"wait", "wlock", "check", "sleep", "notified", "woken", "timedout"} THEN "wait"
  ELSE IF p \in {"set", "slock"} THEN "set"
  ELSE IF p = "notify" THEN "posted" ELSE p
callOf == [t \in Threads |-> CallAt(pc[t])]
Atomic == INSTANCE AtomicEvent WITH call <- callOf
ImplementsAtomicEvent == Atomic!Spec

\* "Set the event to the signalled state causing all waiting threads to resume"
\* (MMUtil+.h:391-392): a thread that was asleep when Set called NotifyAll finds
\* the event set when it has the mutex again, and its Wait returns.
SetReleasesWaiters ==
  [][\A t \in Threads : pc[t] = "notified" /\ pc'[t] = "check" => State]_vars
=============================================================================
