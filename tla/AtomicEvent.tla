----------------------------- MODULE AtomicEvent -----------------------------
(***************************************************************************)
(* What a client can rely on of the class Event in src/MMUtil+.h, without  *)
(* its mutex, its unlocked checks and its condition variable: each         *)
(* operation takes effect in one step between its call and its return,     *)
(* Wait returns true in a state where the event is set and false only if   *)
(* it has a time limit, and an event that stays set releases everyone who  *)
(* waits.                                                                  *)
(*                                                                         *)
(* The class promises more: Set causes all waiting threads to resume, with *)
(* no word of a Reset that follows at once.  The pthread implementation    *)
(* breaks that (SetReleasesWaiters in Event, run event_reset), so that it  *)
(* is not part of this module: WaitReturns needs the event to be set.      *)
(***************************************************************************)
CONSTANT Threads

VARIABLES State, call, timed, result

vars == <<State, call, timed, result>>

Init ==
  /\ State = FALSE
  /\ call = [t \in Threads |-> "idle"]
  /\ timed = [t \in Threads |-> FALSE]
  /\ result = [t \in Threads |-> FALSE]

Goto(t, c) == call' = [call EXCEPT ![t] = c]

Invoke(t) ==
  /\ call[t] = "idle"
  /\ \/ \E b \in BOOLEAN : Goto(t, "wait") /\ timed' = [timed EXCEPT ![t] = b]
     \/ \E c \in {"set", "reset"} : Goto(t, c) /\ UNCHANGED timed
  /\ UNCHANGED <<State, result>>

Return(t, r) == Goto(t, "idle") /\ result' = [result EXCEPT ![t] = r]

WaitReturns(t)  == call[t] = "wait" /\ State /\ Return(t, TRUE) /\ UNCHANGED <<State, timed>>
WaitTimesOut(t) == call[t] = "wait" /\ timed[t] /\ Return(t, FALSE) /\ UNCHANGED <<State, timed>>

\* The event is set; Set may still have to return.
SetTakesEffect(t) ==
  /\ call[t] = "set"
  /\ State' = TRUE
  /\ \E c \in {"posted", "idle"} : Goto(t, c)
  /\ UNCHANGED <<timed, result>>

SetReturns(t) == call[t] = "posted" /\ Goto(t, "idle") /\ UNCHANGED <<State, timed, result>>

ResetTakesEffect(t) ==
  /\ call[t] = "reset"
  /\ State' = FALSE
  /\ Goto(t, "idle")
  /\ UNCHANGED <<timed, result>>

Next ==
  \E t \in Threads :
    \/ Invoke(t) \/ WaitReturns(t) \/ WaitTimesOut(t)
    \/ SetTakesEffect(t) \/ SetReturns(t) \/ ResetTakesEffect(t)

SafeSpec == Init /\ [][Next]_vars
Spec     == SafeSpec /\ \A t \in Threads : WF_vars(WaitReturns(t))
=============================================================================
