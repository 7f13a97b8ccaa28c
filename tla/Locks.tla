-------------------------------- MODULE Locks --------------------------------
(***************************************************************************)
(* The implementations of MutexBase, on pthreads, Windows and OS/2, and    *)
(* the class MutexBase::Lock: threads that construct and destroy Lock      *)
(* objects on one mutex, call Request and Release of the objects in        *)
(* between, and call Request and Release of the mutex directly.            *)
(*                                                                         *)
(* A client that keeps to the rules does not wait for a mutex that it owns *)
(* and that is not recursive, and releases directly only what it has       *)
(* requested directly.                                                     *)
(***************************************************************************)
EXTENDS Integers, FiniteSets

CONSTANTS
  Threads,
  LockObjects,     \* the Lock objects that may exist
  MaxDirect,       \* bound: direct requests of a thread at a time
  NoThread, NoLock, Direct

ASSUME LocksAssumption ==
  /\ IsFiniteSet(LockObjects)
  /\ MaxDirect \in Nat
  /\ NoThread \notin Threads
  /\ NoLock \notin LockObjects /\ Direct \notin LockObjects /\ NoLock # Direct

VARIABLES
  recursive,       \* may the owner request the mutex again?
  timing,          \* what Request makes of a time limit
  owner, depth,    \* the pthread_mutex_t
  scope,           \* the thread that has constructed the object, if it exists
  Own,             \* Lock::Own
  direct,          \* direct requests of each thread that were not released
  waiting,         \* what the thread is blocked for in Request
  limited          \* the blocked threads that have a time limit

kind      == <<recursive, timing>>
mutexVars == <<owner, depth>>
waitVars  == <<waiting, limited>>
vars      == <<kind, mutexVars, scope, Own, direct, waitVars>>

\* A Mutex is recursive, a FastMutex only on Windows and on OS/2 without EMX.
\* On pthreads, pthread_mutex_timedlock gets the relative time as an absolute
\* one, long ago, so that it refuses at once, although MMUtil+.h:229 says "If it
\* takes more than ms milliseconds the funtion will return false"; only Mutex on
\* Windows and on OS/2 keeps a time limit; the CRITICAL_SECTION, DosEnterCritSec
\* and the _smutex of EMX know none.
Timings == IF recursive THEN {"refused", "kept", "ignored"} ELSE {"refused", "ignored"}

Init ==
  /\ recursive \in BOOLEAN
  /\ timing \in Timings
  /\ owner = NoThread /\ depth = 0
  /\ scope = [l \in LockObjects |-> NoThread]
  /\ Own = [l \in LockObjects |-> FALSE]
  /\ direct = [t \in Threads |-> 0]
  /\ waiting = [t \in Threads |-> NoLock]
  /\ limited = {}
-----------------------------------------------------------------------------
(* The mutex of the system *)

Available(t) == owner = NoThread \/ (recursive /\ owner = t)

Acquire(t) == owner' = t /\ depth' = depth + 1

Unlock ==
  /\ depth' = depth - 1
  /\ owner' = IF depth = 1 THEN NoThread ELSE owner

Idle(t) == waiting[t] = NoLock
-----------------------------------------------------------------------------
(* Request: got it; blocked; or returned false at once. *)

Blocks(t, l, timed) ==
  /\ ~Available(t) /\ owner # t
  /\ timed => timing # "refused"
  /\ waiting' = [waiting EXCEPT ![t] = l]
  /\ limited' = IF timed /\ timing = "kept" THEN limited \cup {t} ELSE limited
  /\ UNCHANGED mutexVars

Refused(t, timed) ==
  ~Available(t) /\ timed /\ timing = "refused" /\ UNCHANGED <<mutexVars, waitVars>>

RequestFor(t, l, timed) ==
  \/ /\ Available(t)
     /\ Acquire(t)
     /\ Own' = [Own EXCEPT ![l] = TRUE]
     /\ UNCHANGED waitVars
  \/ (Blocks(t, l, timed) \/ Refused(t, timed)) /\ UNCHANGED Own

\* Lock::Lock
Construct(t, l, timed) ==
  /\ Idle(t) /\ scope[l] = NoThread
  /\ scope' = [scope EXCEPT ![l] = t]
  /\ RequestFor(t, l, timed)
  /\ UNCHANGED <<kind, direct>>

\* MUTANT of Owns: Own is not looked at.
OwnsAlways(l) == TRUE
\* The test of Own in Lock::Release and in the destructor.
Owns(l) == Own[l]

\* MUTANT of MayRequest: an owning object requests again.
MayRequestAgain(l) == TRUE
MayRequest(l) == ~Own[l]

\* Lock::Request; with Own it returns true and does nothing.
LockRequest(t, l, timed) ==
  /\ Idle(t) /\ scope[l] = t
  /\ MayRequest(l)
  /\ RequestFor(t, l, timed)
  /\ UNCHANGED <<kind, scope, direct>>

\* The blocked Request gets the mutex.
Acquired(t) ==
  /\ waiting[t] # NoLock
  /\ Available(t)
  /\ Acquire(t)
  /\ waiting' = [waiting EXCEPT ![t] = NoLock]
  /\ limited' = limited \ {t}
  /\ IF waiting[t] = Direct
     THEN direct' = [direct EXCEPT ![t] = @ + 1] /\ UNCHANGED Own
     ELSE Own' = [Own EXCEPT ![waiting[t]] = TRUE] /\ UNCHANGED direct
  /\ UNCHANGED <<kind, scope>>

\* MUTANT of TimedOut: the object takes itself for the owner.
TimedOutOwning(t) ==
  /\ t \in limited
  /\ waiting' = [waiting EXCEPT ![t] = NoLock]
  /\ limited' = limited \ {t}
  /\ Own' = [l \in LockObjects |-> Own[l] \/ l = waiting[t]]
  /\ UNCHANGED <<kind, mutexVars, scope, direct>>
\* The blocked Request gives up and returns false.
TimedOut(t) ==
  /\ t \in limited
  /\ waiting' = [waiting EXCEPT ![t] = NoLock]
  /\ limited' = limited \ {t}
  /\ UNCHANGED <<kind, mutexVars, scope, Own, direct>>

\* MUTANT of LockRelease: Own stays set.
LockReleaseKeepsOwn(t, l) ==
  /\ Idle(t) /\ scope[l] = t
  /\ Own[l]
  /\ Unlock
  /\ UNCHANGED <<kind, scope, Own, direct, waitVars>>
\* Lock::Release; without Own it returns false and does nothing.
LockRelease(t, l) ==
  /\ Idle(t) /\ scope[l] = t
  /\ Owns(l)
  /\ Own' = [Own EXCEPT ![l] = FALSE]
  /\ Unlock
  /\ UNCHANGED <<kind, scope, direct, waitVars>>

\* Lock::~Lock
Destroy(t, l) ==
  /\ Idle(t) /\ scope[l] = t
  /\ IF Owns(l) THEN Unlock ELSE UNCHANGED mutexVars
  /\ Own' = [Own EXCEPT ![l] = FALSE]
  /\ scope' = [scope EXCEPT ![l] = NoThread]
  /\ UNCHANGED <<kind, direct, waitVars>>

\* Request and Release of the mutex, called directly.
DirectRequest(t, timed) ==
  /\ Idle(t) /\ direct[t] < MaxDirect
  /\ \/ /\ Available(t)
        /\ Acquire(t)
        /\ direct' = [direct EXCEPT ![t] = @ + 1]
        /\ UNCHANGED waitVars
     \/ (Blocks(t, Direct, timed) \/ Refused(t, timed)) /\ UNCHANGED direct
  /\ UNCHANGED <<kind, scope, Own>>

DirectRelease(t) ==
  /\ Idle(t) /\ direct[t] > 0
  /\ direct' = [direct EXCEPT ![t] = @ - 1]
  /\ Unlock
  /\ UNCHANGED <<kind, scope, Own, waitVars>>

Next ==
  \E t \in Threads :
    \/ \E l \in LockObjects, timed \in BOOLEAN : Construct(t, l, timed)
    \/ \E l \in LockObjects, timed \in BOOLEAN : LockRequest(t, l, timed)
    \/ Acquired(t) \/ TimedOut(t)
    \/ \E l \in LockObjects : LockRelease(t, l)
    \/ \E l \in LockObjects : Destroy(t, l)
    \/ \E timed \in BOOLEAN : DirectRequest(t, timed)
    \/ DirectRelease(t)

Spec == Init /\ [][Next]_vars
-----------------------------------------------------------------------------
(* Properties *)

\* Every variable stays in its domain; in particular the mutex is never
\* released more often than requested.
TypeOK ==
  /\ recursive \in BOOLEAN /\ timing \in {"refused", "kept", "ignored"}
  /\ owner \in Threads \cup {NoThread} /\ depth \in Nat
  /\ scope \in [LockObjects -> Threads \cup {NoThread}]
  /\ Own \in [LockObjects -> BOOLEAN]
  /\ direct \in [Threads -> Nat]
  /\ waiting \in [Threads -> LockObjects \cup {NoLock, Direct}]
  /\ limited \subseteq {t \in Threads : waiting[t] # NoLock}

\* The thread that a Lock object, or a direct request, lets into the critical
\* section is the owner of the mutex, so there is never a second one.
Inside(t) == direct[t] > 0 \/ \E l \in LockObjects : scope[l] = t /\ Own[l]
MutualExclusion == \A t \in Threads : Inside(t) => owner = t

\* The mutex is locked once for each Lock object that says it owns it and for
\* each direct request: nothing is released twice, a Lock's Release never fails,
\* and the mutex is free when the last scope has ended.  A FastMutex never nests.
Held == {l \in LockObjects : Own[l]}
DepthCounts ==
  /\ depth = Cardinality(Held) + (IF owner = NoThread THEN 0 ELSE direct[owner])
  /\ owner = NoThread <=> depth = 0
  /\ ~recursive => depth <= 1

\* What a blocked thread waits for is its own, and not locked by it yet.
WaitingInv ==
  \A t \in Threads :
    /\ waiting[t] \in LockObjects => scope[waiting[t]] = t /\ ~Own[waiting[t]]
    /\ waiting[t] # NoLock => owner # t

\* Lock objects own only while they exist.
OwnedExist == \A l \in LockObjects : Own[l] => scope[l] # NoThread

\* The inductive invariant.
LocksInv == TypeOK /\ MutualExclusion /\ DepthCounts /\ WaitingInv /\ OwnedExist
=============================================================================
