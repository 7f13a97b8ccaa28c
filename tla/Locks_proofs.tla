---------------------------- MODULE Locks_proofs ----------------------------
(***************************************************************************)
(* LocksInv is an inductive invariant of Locks, for any set of threads,    *)
(* any finite set of Lock objects and every implementation of the mutex.   *)
(*                                                                         *)
(* Every action does one of five things to the mutex and what is entitled  *)
(* to it: a Lock object gains it or loses it, a direct request gains it or *)
(* loses it, or nothing of this changes.  A lemma about each gives Core;   *)
(* what is left for the actions are types and waiting threads.             *)
(***************************************************************************)
EXTENDS Locks, FiniteSetTheorems, TLAPS

USE DEF kind, waitVars, Owns, MayRequest

Core == MutualExclusion /\ DepthCounts /\ OwnedExist

\* What the cardinality of Held is good for.
LEMMA HeldFacts ==
  ASSUME TypeOK
  PROVE  /\ IsFiniteSet(Held) /\ Cardinality(Held) \in Nat
         /\ Cardinality(Held) = 0 <=> Held = {}
<1>1. IsFiniteSet(Held)
  BY FS_Subset, LocksAssumption DEF LocksAssumption, Held
<1> QED  BY <1>1, FS_CardinalityType, FS_EmptySet

\* An object that did not own the mutex adds one to the count.
LEMMA HeldGrows ==
  ASSUME TypeOK, NEW l \in LockObjects, ~Own[l], Own' = [Own EXCEPT ![l] = TRUE]
  PROVE  Cardinality(Held') = Cardinality(Held) + 1
<1>1. Held' = Held \cup {l} /\ l \notin Held
  BY DEF TypeOK, Held
<1> QED  BY <1>1, HeldFacts, FS_AddElement

\* An object that owned the mutex takes one from the count.
LEMMA HeldShrinks ==
  ASSUME TypeOK, NEW l \in LockObjects, Own[l], Own' = [Own EXCEPT ![l] = FALSE]
  PROVE  Cardinality(Held') = Cardinality(Held) - 1
<1>1. Held' = Held \ {l} /\ l \in Held
  BY DEF TypeOK, Held
<1> QED  BY <1>1, HeldFacts, FS_RemoveElement

\* A free mutex has nobody inside.
LEMMA FreeMeansNobody ==
  ASSUME LocksInv, owner = NoThread
  PROVE  depth = 0 /\ Held = {} /\ \A t \in Threads : ~Inside(t)
<1>1. depth = 0 /\ Cardinality(Held) = 0
  BY HeldFacts DEF LocksInv, TypeOK, DepthCounts
<1>2. \A t \in Threads : ~Inside(t)
  BY LocksAssumption DEF LocksInv, MutualExclusion, LocksAssumption
<1> QED  BY <1>1, <1>2, HeldFacts DEF LocksInv

\* Nobody but the owner is inside.
LEMMA OthersOutside ==
  ASSUME LocksInv
  PROVE  /\ \A t \in Threads : owner # t => direct[t] = 0
         /\ \A l \in LockObjects : Own[l] => scope[l] = owner /\ owner \in Threads
BY DEF LocksInv, TypeOK, MutualExclusion, OwnedExist, Inside
-----------------------------------------------------------------------------
\* A Lock object obtains the mutex.
LEMMA GainLock ==
  ASSUME LocksInv, NEW t \in Threads, NEW l \in LockObjects, ~Own[l],
         Available(t), Acquire(t),
         Own' = [Own EXCEPT ![l] = TRUE], scope' = [scope EXCEPT ![l] = t],
         direct' = direct, kind' = kind
  PROVE  Core'
<1>1. owner' = t /\ t # NoThread /\ depth' = depth + 1
  BY LocksAssumption DEF Acquire, LocksAssumption
<1>2. MutualExclusion'
  BY <1>1, FreeMeansNobody, OthersOutside
     DEF LocksInv, TypeOK, Available, MutualExclusion, Inside
<1>3. DepthCounts'
  <2>1. depth = Cardinality(Held) + direct[t]
    BY FreeMeansNobody, OthersOutside, HeldFacts, <1>1
       DEF LocksInv, TypeOK, DepthCounts, Available
  <2>2. ~recursive => depth = 0
    BY FreeMeansNobody DEF Available
  <2>3. Cardinality(Held') = Cardinality(Held) + 1 /\ Cardinality(Held) \in Nat
    BY HeldGrows, HeldFacts DEF LocksInv
  <2>4. direct[t] \in Nat /\ (~recursive => depth' <= 1)
    BY <1>1, <2>2 DEF LocksInv, TypeOK
  <2> QED  BY <1>1, <2>1, <2>3, <2>4 DEF DepthCounts
<1>4. OwnedExist'
  BY <1>1 DEF LocksInv, TypeOK, OwnedExist
<1> QED  BY <1>2, <1>3, <1>4 DEF Core

\* A Lock object releases the mutex; it may be destroyed in the same step.
LEMMA LoseLock ==
  ASSUME LocksInv, NEW t \in Threads, NEW l \in LockObjects, Own[l], scope[l] = t,
         Unlock, Own' = [Own EXCEPT ![l] = FALSE],
         NEW u, scope' = [scope EXCEPT ![l] = u],
         direct' = direct, kind' = kind
  PROVE  Core'
<1>1. owner = t /\ owner # NoThread
  BY OthersOutside, LocksAssumption DEF LocksAssumption
<1>2. depth = Cardinality(Held) + direct[t] /\ depth # 0
  BY <1>1 DEF LocksInv, DepthCounts
<1>3. Cardinality(Held') = Cardinality(Held) - 1
  BY HeldShrinks DEF LocksInv
<1>4. Cardinality(Held) # 0
  BY HeldFacts DEF LocksInv, Held
<1>5. DepthCounts'
  BY <1>1, <1>2, <1>3, <1>4, HeldFacts, LocksAssumption
     DEF LocksInv, TypeOK, DepthCounts, Unlock, LocksAssumption
<1>6. depth = 1 => direct[t] = 0 /\ \A k \in LockObjects : Own[k] => k = l
  <2> SUFFICES ASSUME depth = 1
               PROVE  direct[t] = 0 /\ \A k \in LockObjects : Own[k] => k = l
    OBVIOUS
  <2>1. Cardinality(Held) = 1 /\ direct[t] = 0
    BY <1>2, <1>4, HeldFacts DEF LocksInv, TypeOK
  <2>2. IsFiniteSet(Held) /\ l \in Held
    BY HeldFacts DEF LocksInv, Held
  <2>3. IsFiniteSet(Held \ {l}) /\ Cardinality(Held \ {l}) = 0
    BY <2>1, <2>2, FS_RemoveElement
  <2>4. Held \ {l} = {}
    BY <2>3, FS_EmptySet
  <2> QED  BY <2>1, <2>4 DEF Held
<1>7. MutualExclusion'
  <2> SUFFICES ASSUME NEW r \in Threads, Inside(r)'
               PROVE  owner' = r
    BY DEF MutualExclusion
  <2>1. Inside(r) /\ owner = r
    BY DEF LocksInv, TypeOK, MutualExclusion, Inside
  <2>2. depth # 1
    BY <1>1, <1>6, <2>1 DEF LocksInv, TypeOK, Inside
  <2> QED  BY <2>1, <2>2 DEF Unlock
<1>8. OwnedExist'
  BY DEF LocksInv, TypeOK, OwnedExist
<1> QED  BY <1>5, <1>7, <1>8 DEF Core

\* A direct request obtains the mutex.
LEMMA GainDirect ==
  ASSUME LocksInv, NEW t \in Threads, Available(t), Acquire(t),
         direct' = [direct EXCEPT ![t] = @ + 1],
         Own' = Own, scope' = scope, kind' = kind
  PROVE  Core'
<1>1. owner' = t /\ t # NoThread /\ depth' = depth + 1
  BY LocksAssumption DEF Acquire, LocksAssumption
<1>2. MutualExclusion'
  BY <1>1, FreeMeansNobody, OthersOutside
     DEF LocksInv, TypeOK, Available, MutualExclusion, Inside
<1>3. DepthCounts'
  <2>1. depth = Cardinality(Held) + direct[t]
    BY FreeMeansNobody, OthersOutside, HeldFacts, <1>1
       DEF LocksInv, TypeOK, DepthCounts, Available
  <2>2. ~recursive => depth = 0
    BY FreeMeansNobody DEF Available
  <2>3. Held' = Held /\ direct'[t] = direct[t] + 1 /\ Cardinality(Held) \in Nat
    BY HeldFacts DEF LocksInv, TypeOK, Held
  <2>4. direct[t] \in Nat /\ (~recursive => depth' <= 1)
    BY <1>1, <2>2 DEF LocksInv, TypeOK
  <2> QED  BY <1>1, <2>1, <2>3, <2>4 DEF DepthCounts
<1> QED  BY <1>2, <1>3 DEF Core, LocksInv, OwnedExist

\* A direct request is released.
LEMMA LoseDirect ==
  ASSUME LocksInv, NEW t \in Threads, direct[t] > 0, Unlock,
         direct' = [direct EXCEPT ![t] = @ - 1],
         Own' = Own, scope' = scope, kind' = kind
  PROVE  Core'
<1>1. owner = t /\ owner # NoThread /\ direct[t] \in Nat /\ direct'[t] = direct[t] - 1
  BY OthersOutside, LocksAssumption DEF LocksInv, TypeOK, LocksAssumption
<1>2. depth = Cardinality(Held) + direct[t] /\ depth # 0 /\ Held' = Held
  BY <1>1 DEF LocksInv, DepthCounts, Held
<1>3. DepthCounts'
  BY <1>1, <1>2, HeldFacts, LocksAssumption
     DEF LocksInv, TypeOK, DepthCounts, Unlock, LocksAssumption
<1>4. depth = 1 => direct[t] = 1 /\ Held = {}
  BY <1>1, <1>2, HeldFacts DEF LocksInv
<1>5. MutualExclusion'
  <2> SUFFICES ASSUME NEW r \in Threads, Inside(r)'
               PROVE  owner' = r
    BY DEF MutualExclusion
  <2>1. Inside(r) /\ owner = r
    BY <1>1 DEF LocksInv, TypeOK, MutualExclusion, Inside
  <2>2. depth # 1
    BY <1>1, <1>4, <2>1 DEF Inside, Held
  <2> QED  BY <2>1, <2>2 DEF Unlock
<1> QED  BY <1>3, <1>5 DEF Core, LocksInv, OwnedExist

\* The mutex and what is entitled to it are left alone; an object that does not
\* own may be constructed or destroyed.
LEMMA CoreUnchanged ==
  ASSUME LocksInv, UNCHANGED <<mutexVars, Own, direct, kind>>,
         \A l \in LockObjects : Own[l] => scope'[l] = scope[l]
  PROVE  Core'
<1>1. \A t \in Threads : Inside(t)' => Inside(t)
  BY DEF LocksInv, TypeOK, Inside
<1> QED
  BY <1>1 DEF Core, LocksInv, MutualExclusion, DepthCounts, OwnedExist, Held, mutexVars
-----------------------------------------------------------------------------
LEMMA LocksInit == ASSUME Init PROVE LocksInv
<1>1. TypeOK
  <2>1. recursive \in BOOLEAN /\ timing \in {"refused", "kept", "ignored"}
    BY DEF Init, Timings
  <2> QED  BY <2>1 DEF Init, TypeOK
<1>2. Held = {}
  BY DEF Init, Held
<1>3. DepthCounts
  BY <1>2, FS_EmptySet DEF Init, DepthCounts
<1> QED
  BY <1>1, <1>3, LocksAssumption
     DEF Init, LocksInv, MutualExclusion, Inside, WaitingInv, OwnedExist, LocksAssumption

\* Mutex::Request on behalf of a Lock object that exists from now on.
LEMMA RequestForStep ==
  ASSUME LocksInv, NEW t \in Threads, NEW l \in LockObjects, NEW timed \in BOOLEAN,
         waiting[t] = NoLock, ~Own[l], RequestFor(t, l, timed),
         scope' = [scope EXCEPT ![l] = t], scope[l] \in {t, NoThread},
         UNCHANGED <<kind, direct>>
  PROVE  LocksInv'
<1>1. TypeOK'
  <2>1. scope' \in [LockObjects -> Threads \cup {NoThread}]
    BY DEF LocksInv, TypeOK
  <2>2. owner' \in Threads \cup {NoThread} /\ depth' \in Nat
    BY DEF LocksInv, TypeOK, RequestFor, Blocks, Refused, Acquire, mutexVars
  <2>3. Own' \in [LockObjects -> BOOLEAN]
    BY Zenon DEF LocksInv, TypeOK, RequestFor, Blocks, Refused
  <2>4. waiting' \in [Threads -> LockObjects \cup {NoLock, Direct}]
    BY DEF LocksInv, TypeOK, RequestFor, Blocks, Refused
  <2>5. limited' \subseteq {r \in Threads : waiting'[r] # NoLock}
    BY LocksAssumption DEF LocksInv, TypeOK, RequestFor, Blocks, Refused, LocksAssumption
  <2> QED  BY <2>1, <2>2, <2>3, <2>4, <2>5 DEF LocksInv, TypeOK
<1>2. Core'
  <2>1. CASE Available(t) /\ Acquire(t) /\ Own' = [Own EXCEPT ![l] = TRUE]
    BY <2>1, GainLock
  <2>2. CASE UNCHANGED <<mutexVars, Own>>
    <3>1. \A k \in LockObjects : Own[k] => scope'[k] = scope[k]
      BY DEF LocksInv, TypeOK
    <3> QED  BY <2>2, <3>1, CoreUnchanged
  <2> QED  BY <2>1, <2>2 DEF RequestFor, Blocks, Refused
<1>3. WaitingInv'
  <2>1. \A r \in Threads : r # t /\ waiting'[r] \in LockObjects => waiting'[r] # l
    BY LocksAssumption DEF LocksInv, TypeOK, WaitingInv, RequestFor, Blocks, Refused, LocksAssumption
  <2>2. scope'[l] = t /\ \A k \in LockObjects : k # l => scope'[k] = scope[k]
    BY DEF LocksInv, TypeOK
  <2> QED
    BY <2>1, <2>2, LocksAssumption
       DEF LocksInv, TypeOK, WaitingInv, RequestFor, Blocks, Refused, Acquire, Available, mutexVars, LocksAssumption
<1> QED  BY <1>1, <1>2, <1>3 DEF Core, LocksInv

\* Every step preserves the invariant.
LEMMA LocksStep == ASSUME LocksInv, [Next]_vars PROVE LocksInv'
<1>1. ASSUME NEW t \in Threads, NEW l \in LockObjects, NEW timed \in BOOLEAN,
             Construct(t, l, timed)
      PROVE  LocksInv'
  <2>1. ~Own[l]
    BY <1>1 DEF LocksInv, OwnedExist, Construct
  <2> QED  BY <1>1, <2>1, RequestForStep DEF Construct, Idle
<1>2. ASSUME NEW t \in Threads, NEW l \in LockObjects, NEW timed \in BOOLEAN,
             LockRequest(t, l, timed)
      PROVE  LocksInv'
  <2>1. scope' = [scope EXCEPT ![l] = t]
    BY <1>2 DEF LocksInv, TypeOK, LockRequest
  <2> QED  BY <1>2, <2>1, RequestForStep DEF LockRequest, Idle
<1>3. ASSUME NEW t \in Threads, Acquired(t) PROVE LocksInv'
  <2>1. TypeOK'
    <3>1. owner' \in Threads \cup {NoThread} /\ depth' \in Nat
      BY <1>3 DEF LocksInv, TypeOK, Acquired, Acquire
    <3>2. Own' \in [LockObjects -> BOOLEAN]
      BY <1>3, Zenon DEF LocksInv, TypeOK, Acquired
    <3>3. direct' \in [Threads -> Nat]
      BY <1>3 DEF LocksInv, TypeOK, Acquired
    <3>4. waiting' \in [Threads -> LockObjects \cup {NoLock, Direct}]
      BY <1>3 DEF LocksInv, TypeOK, Acquired
    <3> QED  BY <1>3, <3>1, <3>2, <3>3, <3>4 DEF LocksInv, TypeOK, Acquired
  <2>2. Core'
    <3>1. CASE waiting[t] = Direct
      BY <1>3, <3>1, GainDirect DEF Acquired
    <3>2. CASE waiting[t] # Direct
      <4>1. waiting[t] \in LockObjects
        BY <1>3, <3>2 DEF LocksInv, TypeOK, Acquired
      <4>2. scope[waiting[t]] = t /\ ~Own[waiting[t]]
        BY <4>1 DEF LocksInv, WaitingInv
      <4>3. scope' = [scope EXCEPT ![waiting[t]] = t]
        BY <1>3, <4>1, <4>2 DEF LocksInv, TypeOK, Acquired
      <4> QED  BY <1>3, <3>2, <4>1, <4>2, <4>3, GainLock DEF Acquired
    <3> QED  BY <3>1, <3>2
  <2>3. WaitingInv'
    <3> SUFFICES ASSUME NEW r \in Threads, waiting'[r] # NoLock
                 PROVE  /\ waiting'[r] \in LockObjects =>
                             scope'[waiting'[r]] = r /\ ~Own'[waiting'[r]]
                        /\ owner' # r
      BY LocksAssumption DEF WaitingInv, LocksAssumption
    <3>1. r # t /\ waiting'[r] = waiting[r]
      BY <1>3 DEF LocksInv, TypeOK, Acquired
    <3>2. owner' = t
      BY <1>3 DEF Acquired, Acquire
    <3>3. waiting[r] \in LockObjects =>
            scope[waiting[r]] = r /\ ~Own[waiting[r]] /\ waiting[r] # waiting[t]
      BY <3>1 DEF LocksInv, WaitingInv
    <3> QED  BY <1>3, <3>1, <3>2, <3>3 DEF LocksInv, TypeOK, Acquired
  <2> QED  BY <2>1, <2>2, <2>3 DEF Core, LocksInv
<1>9. ASSUME NEW t \in Threads, TimedOut(t) PROVE LocksInv'
  <2>1. TypeOK'
    BY <1>9 DEF LocksInv, TypeOK, TimedOut, mutexVars
  <2>2. Core'
    BY <1>9, CoreUnchanged DEF TimedOut
  <2>3. WaitingInv'
    BY <1>9, LocksAssumption
       DEF LocksInv, TypeOK, WaitingInv, TimedOut, mutexVars, LocksAssumption
  <2> QED  BY <2>1, <2>2, <2>3 DEF Core, LocksInv
<1>4. ASSUME NEW t \in Threads, NEW l \in LockObjects, LockRelease(t, l)
      PROVE  LocksInv'
  <2>0. depth # 0
    BY <1>4, OthersOutside, LocksAssumption
       DEF LockRelease, LocksInv, DepthCounts, LocksAssumption
  <2>1. TypeOK'
    BY <1>4, <2>0 DEF LocksInv, TypeOK, LockRelease, Unlock
  <2>2. scope' = [scope EXCEPT ![l] = t]
    BY <1>4 DEF LocksInv, TypeOK, LockRelease
  <2>3. Core'
    BY <1>4, <2>2, LoseLock DEF LockRelease
  <2>4. WaitingInv'
    BY <1>4, LocksAssumption
       DEF LocksInv, TypeOK, WaitingInv, LockRelease, Unlock, LocksAssumption
  <2> QED  BY <2>1, <2>3, <2>4 DEF Core, LocksInv
<1>5. ASSUME NEW t \in Threads, NEW l \in LockObjects, Destroy(t, l)
      PROVE  LocksInv'
  <2>1. Own[l] => depth # 0
    BY <1>5, OthersOutside, LocksAssumption
       DEF LocksInv, DepthCounts, LocksAssumption
  <2>2. TypeOK'
    BY <1>5, <2>1 DEF LocksInv, TypeOK, Destroy, Unlock, mutexVars
  <2>3. Core'
    <3>1. CASE Own[l]
      BY <1>5, <3>1, LoseLock DEF Destroy
    <3>2. CASE ~Own[l]
      <4>1. Own' = Own /\ \A k \in LockObjects : Own[k] => scope'[k] = scope[k]
        BY <1>5, <3>2 DEF LocksInv, TypeOK, Destroy
      <4> QED  BY <1>5, <3>2, <4>1, CoreUnchanged DEF Destroy
    <3> QED  BY <3>1, <3>2
  <2>4. WaitingInv'
    BY <1>5, LocksAssumption
       DEF LocksInv, TypeOK, WaitingInv, Destroy, Idle, Unlock, mutexVars, LocksAssumption
  <2> QED  BY <2>2, <2>3, <2>4 DEF Core, LocksInv
<1>6. ASSUME NEW t \in Threads, NEW timed \in BOOLEAN, DirectRequest(t, timed)
      PROVE  LocksInv'
  <2>1. TypeOK'
    <3>1. owner' \in Threads \cup {NoThread} /\ depth' \in Nat /\ direct' \in [Threads -> Nat]
      BY <1>6 DEF LocksInv, TypeOK, DirectRequest, Blocks, Refused, Acquire, mutexVars
    <3>2. /\ waiting' \in [Threads -> LockObjects \cup {NoLock, Direct}]
          /\ limited' \subseteq {r \in Threads : waiting'[r] # NoLock}
      BY <1>6, LocksAssumption
         DEF LocksInv, TypeOK, DirectRequest, Blocks, Refused, LocksAssumption
    <3> QED  BY <1>6, <3>1, <3>2 DEF LocksInv, TypeOK, DirectRequest
  <2>2. Core'
    <3>1. CASE Available(t) /\ Acquire(t) /\ direct' = [direct EXCEPT ![t] = @ + 1]
      BY <1>6, <3>1, GainDirect DEF DirectRequest, Blocks, Refused
    <3>2. CASE UNCHANGED <<mutexVars, direct>>
      BY <1>6, <3>2, CoreUnchanged DEF DirectRequest, Blocks, Refused
    <3> QED  BY <1>6, <3>1, <3>2 DEF DirectRequest, Blocks, Refused
  <2>3. WaitingInv'
    BY <1>6, LocksAssumption
       DEF LocksInv, TypeOK, WaitingInv, DirectRequest, Blocks, Refused, Idle, Acquire, Available, mutexVars,
           LocksAssumption
  <2> QED  BY <2>1, <2>2, <2>3 DEF Core, LocksInv
<1>7. ASSUME NEW t \in Threads, DirectRelease(t) PROVE LocksInv'
  <2>0. depth # 0
    BY <1>7, OthersOutside, LocksAssumption
       DEF DirectRelease, LocksInv, TypeOK, DepthCounts, LocksAssumption
  <2>1. TypeOK'
    BY <1>7, <2>0 DEF LocksInv, TypeOK, DirectRelease, Unlock
  <2>2. Core'
    BY <1>7, LoseDirect DEF DirectRelease
  <2>3. WaitingInv'
    BY <1>7, LocksAssumption
       DEF LocksInv, TypeOK, WaitingInv, DirectRelease, Unlock, LocksAssumption
  <2> QED  BY <2>1, <2>2, <2>3 DEF Core, LocksInv
<1>8. CASE UNCHANGED vars
  BY <1>8
     DEF vars, mutexVars, LocksInv, TypeOK, MutualExclusion, Inside, DepthCounts, Held,
         WaitingInv, OwnedExist
<1> QED
  BY <1>1, <1>2, <1>3, <1>4, <1>5, <1>6, <1>7, <1>8, <1>9 DEF Next

\* The inductive invariant holds in every behaviour.
THEOREM LocksCorrect == Spec => []LocksInv
<1> QED  BY LocksInit, LocksStep, PTL DEF Spec

\* The variables keep their types: the depth of the mutex is never negative.
THEOREM LocksTypeCorrect == Spec => []TypeOK
<1>1. LocksInv => TypeOK
  BY DEF LocksInv
<1> QED  BY <1>1, LocksCorrect, PTL

\* Whoever a Lock object or a direct request lets in owns the mutex
\* (MutexBase::Lock, Mutex::Request).
THEOREM OnlyTheOwnerIsInside == Spec => []MutualExclusion
<1>1. LocksInv => MutualExclusion
  BY DEF LocksInv
<1> QED  BY <1>1, LocksCorrect, PTL

\* The mutex is locked exactly as often as Lock objects and direct requests
\* are entitled to, so the last release frees it (Lock::Release, ~Lock).
THEOREM LockedAsOftenAsHeld == Spec => []DepthCounts
<1>1. LocksInv => DepthCounts
  BY DEF LocksInv
<1> QED  BY <1>1, LocksCorrect, PTL
=============================================================================
