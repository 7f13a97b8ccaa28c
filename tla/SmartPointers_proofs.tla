------------------------- MODULE SmartPointers_proofs -------------------------
(***************************************************************************)
(* The properties of SmartPointers for any sets of objects and pointers.   *)
(* PointerInv is inductive.  An action replaces what one pointer holds, or *)
(* moves it to a second one: two lemmas about such changes carry the       *)
(* proofs of the actions.                                                  *)
(***************************************************************************)
EXTENDS SmartPointers, FiniteSetTheorems, TLAPS

LEMMA PointerInit ==
  ASSUME Init
  PROVE  PointerInv
<1>1. \A p \in Ptrs : hold[p] = Empty(p)
  BY DEF Init
<1>2. \A p \in Ptrs : Empty(p) \in Holds /\ Empty(p).Own = FALSE
  BY DEF Empty, Hold, Holds
<1>3. hold \in [Ptrs -> Holds]
  BY <1>2 DEF Init
<1> QED BY <1>1, <1>2, <1>3 DEF Init, PointerInv, TypeOK, OwnerInv

LEMMA EmptyHolds ==
  ASSUME NEW p \in Ptrs
  PROVE  Empty(p) \in Holds /\ Empty(p).Own = FALSE
BY DEF Empty, Hold, Holds

LEMMA NewStep ==
  ASSUME PointerInv, NEW o \in Objects, New(o)
  PROVE  PointerInv'
BY DEF PointerInv, TypeOK, OwnerInv, Shared, New, Empty

LEMMA DeleteRawStep ==
  ASSUME PointerInv, NEW o \in Objects, DeleteRaw(o)
  PROVE  PointerInv'
BY DEF PointerInv, TypeOK, OwnerInv, Shared, DeleteRaw, Empty

\* What the values written to a pointer are like.
LEMMA AttachedHolds ==
  ASSUME NEW p \in Ptrs, NEW h \in Holds
  PROVE  /\ Attached(p, h) \in Holds
         /\ Attached(p, h).Own => Attached(p, h) = h /\ h.Ptr # NULL
BY EmptyHolds DEF Attached

LEMMA MovedHolds ==
  ASSUME TypeOK, NEW p \in Ptrs, NEW q \in Unique
  PROVE  /\ Moved(p, q) \in Holds
         /\ Moved(p, q).Own => hold[q].Own /\ Moved(p, q).Ptr = hold[q].Ptr
<1>0. hold[q] \in Holds /\ hold[q].Ptr \in Objects \cup {SGL, NULL} /\ hold[q].Own \in BOOLEAN
  BY DEF TypeOK, Ptrs, Holds
<1>1. CASE p \in OwnPtrs /\ q \in OwnPtrs
  BY <1>0, <1>1, PointersAssumption DEF Moved
<1>2. CASE p \in Unique /\ q \in SglPtrs
  <2>1. Moved(p, q) = Hold(hold[q].Ptr, hold[q].Own /\ hold[q].Ptr # NULL)
    BY <1>2, PointersAssumption DEF Moved
  <2> QED BY <1>0, <2>1 DEF Hold, Holds
<1>3. CASE ~(p \in OwnPtrs /\ q \in OwnPtrs) /\ ~(p \in Unique /\ q \in SglPtrs)
  <2>1. Moved(p, q) = Attached(p, hold[q])
    BY <1>3 DEF Moved
  <2> QED BY <1>0, <2>1, AttachedHolds
<1> QED BY <1>1, <1>2, <1>3

LEMMA MovedWhole ==
  ASSUME TypeOK, NEW p \in Ptrs, NEW q \in Unique, hold[q].Ptr \in Objects
  PROVE  Moved(p, q) = hold[q]
<1>0. hold[q] \in Holds /\ hold[q].Ptr # NULL
  BY PointersAssumption DEF TypeOK, Ptrs
<1>1. CASE p \in OwnPtrs /\ q \in OwnPtrs
  BY <1>1, PointersAssumption DEF Moved
<1>2. CASE p \in Unique /\ q \in SglPtrs
  <2>1. Moved(p, q) = Hold(hold[q].Ptr, hold[q].Own /\ hold[q].Ptr # NULL)
    BY <1>2, PointersAssumption DEF Moved
  <2> QED BY <1>0, <2>1 DEF Hold, Holds
<1>3. CASE ~(p \in OwnPtrs /\ q \in OwnPtrs) /\ ~(p \in Unique /\ q \in SglPtrs)
  BY <1>0, <1>3 DEF Moved, Attached
<1> QED BY <1>1, <1>2, <1>3

\* Deleting what p owned takes nothing from the client or from another owner.
LEMMA DetachedOwn ==
  ASSUME PointerInv, NEW p \in Ptrs
  PROVE  /\ Detached(p) \subseteq alive \ raw
         /\ \A q \in Ptrs \ {p} : hold[q].Own => hold[q].Ptr \notin Detached(p)
<1>1. ASSUME NEW o \in Detached(p) PROVE o \in alive \ raw
  BY DEF Detached, PointerInv, OwnerInv
<1>2. ASSUME NEW q \in Ptrs \ {p}, hold[q].Own, hold[q].Ptr \in Detached(p) PROVE FALSE
  <2>1. hold[p].Own /\ hold[q].Ptr = hold[p].Ptr /\ hold[p].Ptr \in Objects
    BY <1>2 DEF Detached
  <2>2. Shared(p, q)
    BY <1>2, <2>1 DEF PointerInv, OwnerInv
  <2>3. hold[p] = hold[q]
    <3>1. hold[p] \in Holds /\ hold[q] \in Holds
      BY DEF PointerInv, TypeOK
    <3> QED BY <1>2, <2>1, <3>1 DEF Holds
  <2> QED BY <1>2, <2>2, <2>3 DEF Detached, Shared
<1> QED BY <1>1, <1>2

\* The owners other than p own what they owned, or nothing.
OthersKept(p) ==
  \A q \in Ptrs \ {p} : hold'[q].Own =>
    hold'[q] = hold[q] /\ (hold[q].Ptr \in Objects => hold[q].Ptr \in alive' \ raw')

\* What p owns is not the client's, and nobody else's unless it is shared.
OwnsAlone(p) ==
  hold'[p].Own /\ hold'[p].Ptr \in Objects =>
    /\ hold'[p].Ptr \in alive' \ raw'
    /\ \A q \in Ptrs \ {p} : hold'[q].Own /\ hold[q].Ptr = hold'[p].Ptr => Shared(p, q)

LEMMA OwnersKept ==
  ASSUME PointerInv, NEW p \in Ptrs, OthersKept(p), OwnsAlone(p)
  PROVE  OwnerInv'
BY DEF PointerInv, OwnerInv, Shared, OthersKept, OwnsAlone
-----------------------------------------------------------------------------
(* The actions *)

LEMMA DestroyStep ==
  ASSUME PointerInv, NEW p \in Ptrs, Destroy(p)
  PROVE  PointerInv'
<1> USE EmptyHolds, DetachedOwn DEF PointerInv
<1>1. TypeOK'
  BY DEF TypeOK, Destroy, Empty
<1>2. OwnerInv'
  BY OwnersKept DEF TypeOK, OwnerInv, Destroy, OthersKept, OwnsAlone
<1> QED BY <1>1, <1>2

LEMMA ResetEmptyStep ==
  ASSUME PointerInv, NEW p \in Ptrs, ResetEmpty(p)
  PROVE  PointerInv'
<1> USE EmptyHolds, DetachedOwn DEF PointerInv
<1>1. TypeOK'
  BY DEF TypeOK, ResetEmpty, Empty
<1>2. OwnerInv'
  BY OwnersKept DEF TypeOK, OwnerInv, ResetEmpty, OthersKept, OwnsAlone
<1> QED BY <1>1, <1>2

LEMMA ReleaseStep ==
  ASSUME PointerInv, NEW p \in Ptrs, Release(p)
  PROVE  PointerInv'
<1> USE EmptyHolds DEF PointerInv
<1>1. TypeOK'
  BY DEF TypeOK, Release, OwnerInv
<1>2. OwnerInv'
  <2>1. \A q \in Ptrs \ {p} : hold'[q] = hold[q]
    BY DEF TypeOK, Release
  <2>2. hold'[p].Own = FALSE
    BY DEF TypeOK, Release
  <2>3. ASSUME NEW q \in Ptrs \ {p}, hold[q].Own, hold[q].Ptr \in Objects
        PROVE  hold[q].Ptr \in alive' \ raw'
    BY <2>3, PointersAssumption DEF OwnerInv, Release, Shared, Unique
  <2> QED BY <2>1, <2>2, <2>3, OwnersKept DEF OthersKept, OwnsAlone
<1> QED BY <1>1, <1>2

LEMMA ConstructStep ==
  ASSUME PointerInv, NEW p \in Ptrs, NEW h \in Holds, Construct(p, h)
  PROVE  PointerInv'
<1> USE DEF PointerInv
<1>0. /\ \A q \in Ptrs \ {p} : hold'[q] = hold[q]
      /\ hold'[p] = Attached(p, h) /\ Attached(p, h) \in Holds
      /\ hold'[p].Own => hold'[p] = h /\ h.Ptr \in raw /\ raw' = raw \ {h.Ptr}
      /\ raw' \subseteq raw /\ alive' = alive
  BY AttachedHolds DEF TypeOK, Construct, Passes
<1>1. TypeOK'
  BY <1>0, PointersAssumption DEF TypeOK, Construct, Ptrs
<1>2. OwnerInv'
  BY <1>0, OwnersKept DEF OwnerInv, TypeOK, OthersKept, OwnsAlone
<1> QED BY <1>1, <1>2

LEMMA ConstructEmptyStep ==
  ASSUME PointerInv, NEW p \in Ptrs, ConstructEmpty(p)
  PROVE  PointerInv'
BY DEF PointerInv, TypeOK, OwnerInv, Shared, ConstructEmpty, Empty

LEMMA ConstructFromAutoStep ==
  ASSUME PointerInv, NEW p \in Ptrs, NEW o \in Objects \cup {NULL}, ConstructFromAuto(p, o)
  PROVE  PointerInv'
<1> USE DEF PointerInv
<1>0. /\ \A q \in Ptrs \ {p} : hold'[q] = hold[q]
      /\ hold'[p] = Hold(o, TRUE) /\ Hold(o, TRUE) \in Holds
      /\ Hold(o, TRUE).Ptr = o /\ Hold(o, TRUE).Own = TRUE
      /\ o \in raw \cup {NULL} /\ raw' = raw \ {o} /\ alive' = alive
  BY DEF TypeOK, ConstructFromAuto, Passes, Hold, Holds
<1>1. TypeOK'
  BY <1>0, PointersAssumption DEF TypeOK, ConstructFromAuto, Ptrs, Unique
<1>2. OwnerInv'
  <2>1. OthersKept(p)
    BY <1>0 DEF OwnerInv, OthersKept
  <2>2. OwnsAlone(p)
    <3>1. ASSUME o \in Objects PROVE o \in raw /\ o \in alive' \ raw'
      BY <1>0, <3>1, PointersAssumption DEF TypeOK
    <3>2. ASSUME o \in Objects, NEW q \in Ptrs \ {p}, hold[q].Own, hold[q].Ptr = o PROVE FALSE
      BY <3>1, <3>2 DEF OwnerInv
    <3> QED BY <1>0, <3>1, <3>2 DEF OwnsAlone
  <2> QED BY <2>1, <2>2, OwnersKept
<1> QED BY <1>1, <1>2

LEMMA ConstructFromStep ==
  ASSUME PointerInv, NEW p \in Ptrs, NEW q \in Ptrs, ConstructFrom(p, q)
  PROVE  PointerInv'
<1> USE EmptyHolds DEF PointerInv
<1>0. /\ q \in Unique /\ p # q /\ \A x \in Ptrs \ {p, q} : hold'[x] = hold[x]
      /\ hold'[q] = Empty(q) /\ hold'[p] = Moved(p, q) /\ Moved(p, q) \in Holds
      /\ hold'[p].Own => hold[q].Own /\ hold'[p].Ptr = hold[q].Ptr
      /\ UNCHANGED <<alive, raw>>
  BY MovedHolds DEF TypeOK, ConstructFrom
<1>1. TypeOK'
  BY <1>0 DEF TypeOK, ConstructFrom
<1>2. OwnerInv'
  <2>1. OthersKept(p)
    BY <1>0, PointersAssumption DEF OwnerInv, Shared, Unique, OthersKept
  <2>2. OwnsAlone(p)
    BY <1>0, PointersAssumption DEF OwnerInv, Shared, Unique, OwnsAlone
  <2> QED BY <2>1, <2>2, OwnersKept
<1> QED BY <1>1, <1>2

\* The object q owned is deleted with the temporary that took it.
LEMMA CastFailsStep ==
  ASSUME PointerInv, NEW p \in Ptrs, NEW q \in Ptrs, CastFails(p, q)
  PROVE  PointerInv'
<1> USE EmptyHolds, DetachedOwn DEF PointerInv
<1>1. TypeOK'
  BY DEF TypeOK, CastFails
<1>2. OwnerInv'
  BY OwnersKept DEF TypeOK, OwnerInv, CastFails, OthersKept, OwnsAlone
<1> QED BY <1>1, <1>2

LEMMA ShareStep ==
  ASSUME PointerInv, NEW p \in Ptrs, NEW q \in Ptrs, Share(p, q)
  PROVE  PointerInv'
<1> USE DEF PointerInv
<1>0. /\ Shared(p, q) /\ p # q /\ \A x \in Ptrs \ {p} : hold'[x] = hold[x]
      /\ hold'[p] = hold[q] /\ UNCHANGED <<alive, raw>>
  BY DEF TypeOK, Share, Shared
<1>1. TypeOK'
  BY <1>0 DEF TypeOK, Share
<1>2. OwnerInv'
  BY <1>0, OwnersKept DEF OwnerInv, Shared, OthersKept, OwnsAlone
<1> QED BY <1>1, <1>2

LEMMA ResetStep ==
  ASSUME PointerInv, NEW p \in Ptrs, NEW h \in Holds, Reset(p, h)
  PROVE  PointerInv'
<1> USE DetachedOwn DEF PointerInv
<1>0. /\ p \in live /\ UNCHANGED live /\ raw' \subseteq raw
      /\ \/ /\ h.Own => h.Ptr \in raw \cup {NULL} /\ raw' = raw \ {h.Ptr}
         \/ p \in Unique /\ h = hold[p]
  BY DEF Reset, Passes
<1>1. CASE Replaces(p, h)
  <2>0. /\ \A q \in Ptrs \ {p} : hold'[q] = hold[q]
        /\ hold'[p] = Attached(p, h) /\ Attached(p, h) \in Holds
        /\ hold'[p].Own => hold'[p] = h /\ h.Ptr \in raw /\ raw' = raw \ {h.Ptr}
        /\ alive' = alive \ Detached(p)
    BY <1>0, <1>1, AttachedHolds, PointersAssumption DEF TypeOK, Reset, Replaces, Unique
  <2>1. TypeOK'
    BY <1>0, <1>1, <2>0, PointersAssumption DEF TypeOK, Reset
  <2>2. OwnerInv'
    <3>1. OthersKept(p)
      BY <1>0, <2>0 DEF OwnerInv, OthersKept
    <3>2. OwnsAlone(p)
      BY <2>0 DEF OwnerInv, TypeOK, OwnsAlone
    <3> QED BY <3>1, <3>2, OwnersKept
  <2> QED BY <2>1, <2>2
<1>2. CASE ~Replaces(p, h)
  <2>0. UNCHANGED <<alive, hold>>
    BY <1>2 DEF Reset
  <2>1. TypeOK'
    BY <1>0, <2>0 DEF TypeOK
  <2>2. OwnerInv'
    BY <1>0, <2>0 DEF OwnerInv
  <2> QED BY <2>1, <2>2
<1> QED BY <1>1, <1>2

LEMMA ResetReferenceStep ==
  ASSUME PointerInv, NEW p \in Ptrs, NEW o \in Objects, ResetReference(p, o)
  PROVE  PointerInv'
<1> USE DetachedOwn DEF PointerInv
<1>0. Hold(o, FALSE) \in Holds /\ Hold(o, FALSE).Own = FALSE
  BY DEF Hold, Holds
<1>1. TypeOK'
  BY <1>0 DEF TypeOK, ResetReference
<1>2. OwnerInv'
  BY <1>0, OwnersKept DEF TypeOK, OwnerInv, ResetReference, OthersKept, OwnsAlone
<1> QED BY <1>1, <1>2

\* p takes over what q holds and q becomes empty.
LEMMA TakeOverStep ==
  ASSUME PointerInv, NEW p \in Ptrs, NEW q \in Ptrs, p \in live, q \in live \cap Unique,
         p # q, alive' = alive \ Detached(p), UNCHANGED <<raw, live>>,
         hold' = [hold EXCEPT ![p] = Attached(p, hold[q]), ![q] = Empty(q)]
  PROVE  PointerInv'
<1> USE EmptyHolds, DetachedOwn DEF PointerInv
<1>0. /\ \A x \in Ptrs \ {p, q} : hold'[x] = hold[x]
      /\ hold'[q] = Empty(q) /\ hold'[p] = Attached(p, hold[q]) /\ hold'[p] \in Holds
      /\ hold'[p].Own => hold'[p] = hold[q]
  BY AttachedHolds DEF TypeOK
<1>1. TypeOK'
  BY <1>0 DEF TypeOK
<1>2. OwnerInv'
  <2>1. OthersKept(p)
    BY <1>0, PointersAssumption DEF OwnerInv, Shared, Unique, OthersKept
  <2>2. OwnsAlone(p)
    <3>1. SUFFICES ASSUME hold'[p].Own, hold'[p].Ptr \in Objects
                   PROVE  /\ hold'[p].Ptr \in alive' \ raw'
                          /\ \A x \in Ptrs \ {p} : hold'[x].Own => hold[x].Ptr # hold'[p].Ptr
      BY DEF OwnsAlone
    <3>2. hold[q].Own /\ hold[q].Ptr = hold'[p].Ptr
      BY <1>0, <3>1
    <3>3. hold'[p].Ptr \in alive \ raw /\ hold'[p].Ptr \notin Detached(p)
      BY <3>1, <3>2 DEF OwnerInv
    <3>4. ASSUME NEW x \in Ptrs \ {p}, hold'[x].Own, hold[x].Ptr = hold'[p].Ptr PROVE FALSE
      <4>1. x # q /\ hold'[x] = hold[x]
        BY <1>0, <3>4
      <4>2. Shared(q, x)
        BY <3>1, <3>2, <3>4, <4>1 DEF OwnerInv
      <4> QED BY <4>2, PointersAssumption DEF Shared, Unique
    <3>5. hold'[p].Ptr \in alive' \ raw'
      BY <3>3
    <3> QED BY <3>4, <3>5
  <2> QED BY <2>1, <2>2, OwnersKept
<1> QED BY <1>1, <1>2

LEMMA ResetFromStep ==
  ASSUME PointerInv, NEW p \in Ptrs, NEW q \in Ptrs, ResetFrom(p, q)
  PROVE  PointerInv'
<1>1. CASE (p \in OwnPtrs /\ q \in SglPtrs) \/ Replaces(p, hold[q])
  <2>1. p # q
    BY <1>1, PointersAssumption DEF ResetFrom, Replaces, Unique
  <2> QED BY <1>1, <2>1, TakeOverStep DEF ResetFrom
<1>2. CASE ~((p \in OwnPtrs /\ q \in SglPtrs) \/ Replaces(p, hold[q]))
  <2>1. UNCHANGED <<alive, raw, live, hold>>
    BY <1>2 DEF ResetFrom
  <2> QED BY <2>1 DEF PointerInv, TypeOK, OwnerInv
<1> QED BY <1>1, <1>2

\* Where nothing is replaced, what q owned belongs to nobody: p has it already
\* without owning it (LeaksOnlyIfHeldAlready).
LEMMA ResetFromReferenceStep ==
  ASSUME PointerInv, NEW p \in Ptrs, NEW q \in Ptrs, ResetFromReference(p, q)
  PROVE  PointerInv'
<1> USE EmptyHolds DEF PointerInv
<1>1. CASE Replaces(p, hold[q])
  BY <1>1, TakeOverStep DEF ResetFromReference
<1>2. CASE ~Replaces(p, hold[q])
  <2>0. hold' = [hold EXCEPT ![q] = Empty(q)] /\ UNCHANGED <<alive, raw, live>> /\ q \in live
    BY <1>2 DEF ResetFromReference
  <2>1. TypeOK'
    BY <2>0 DEF TypeOK
  <2>2. OwnerInv'
    <3>1. OthersKept(q)
      BY <2>0 DEF TypeOK, OwnerInv, OthersKept
    <3>2. OwnsAlone(q)
      BY <2>0 DEF TypeOK, OwnsAlone
    <3> QED BY <3>1, <3>2, OwnersKept
  <2> QED BY <2>1, <2>2
<1> QED BY <1>1, <1>2

LEMMA ResetShareStep ==
  ASSUME PointerInv, NEW p \in Ptrs, NEW q \in Ptrs, ResetShare(p, q)
  PROVE  PointerInv'
<1> USE DetachedOwn DEF PointerInv
<1>0. /\ p \in RefPtrs /\ q \in RefPtrs /\ \A x \in Ptrs \ {p} : hold'[x] = hold[x]
      /\ hold'[p] = hold[q] /\ hold'[p] \in Holds /\ UNCHANGED <<raw, live>>
      /\ p \in live /\ q \in live
      /\ alive' = IF hold[p] = hold[q] THEN alive ELSE alive \ Detached(p)
  BY DEF TypeOK, ResetShare
<1>1. TypeOK'
  BY <1>0 DEF TypeOK, ResetShare
<1>2. OwnerInv'
  <2>1. OthersKept(p)
    BY <1>0 DEF OwnerInv, OthersKept
  <2>2. OwnsAlone(p)
    <3>1. ASSUME hold'[p].Own, hold'[p].Ptr \in Objects PROVE hold'[p].Ptr \in alive' \ raw'
      <4>1. hold[q].Own /\ hold[q].Ptr = hold'[p].Ptr /\ hold'[p].Ptr \in alive \ raw
        BY <1>0, <3>1 DEF OwnerInv
      <4>2. hold[p] # hold[q] => q # p /\ hold'[p].Ptr \notin Detached(p)
        BY <4>1
      <4> QED BY <1>0, <4>1, <4>2
    <3>2. ASSUME hold'[p].Own, hold'[p].Ptr \in Objects, NEW x \in Ptrs \ {p},
                 hold'[x].Own, hold[x].Ptr = hold'[p].Ptr
          PROVE  Shared(p, x)
      BY <1>0, <3>2 DEF OwnerInv, Shared
    <3> QED BY <3>1, <3>2 DEF OwnsAlone
  <2> QED BY <2>1, <2>2, OwnersKept
<1> QED BY <1>1, <1>2
-----------------------------------------------------------------------------
(* Theorems *)

LEMMA PointerStep ==
  ASSUME PointerInv, [Next]_vars
  PROVE  PointerInv'
<1>1. CASE UNCHANGED vars
  BY <1>1 DEF PointerInv, TypeOK, OwnerInv, vars, Shared, Empty
<1>2. ASSUME NEW o \in Objects, New(o) \/ DeleteRaw(o) PROVE PointerInv'
  BY <1>2, NewStep, DeleteRawStep
<1>3. ASSUME NEW p \in Ptrs, ConstructEmpty(p) \/ Release(p) \/ Destroy(p) \/ ResetEmpty(p)
      PROVE  PointerInv'
  BY <1>3, ConstructEmptyStep, ReleaseStep, DestroyStep, ResetEmptyStep
<1>4. ASSUME NEW p \in Ptrs, NEW h \in Holds, Construct(p, h) \/ Reset(p, h) PROVE PointerInv'
  BY <1>4, ConstructStep, ResetStep
<1>5. ASSUME NEW p \in Ptrs, NEW o \in Objects \cup {NULL}, ConstructFromAuto(p, o)
      PROVE  PointerInv'
  BY <1>5, ConstructFromAutoStep
<1>6. ASSUME NEW p \in Ptrs, NEW o \in Objects, ResetReference(p, o) PROVE PointerInv'
  BY <1>6, ResetReferenceStep
<1>7. ASSUME NEW p \in Ptrs, NEW q \in Ptrs,
             ConstructFrom(p, q) \/ CastFails(p, q) \/ Share(p, q)
      PROVE  PointerInv'
  BY <1>7, ConstructFromStep, CastFailsStep, ShareStep
<1>8. ASSUME NEW p \in Ptrs, NEW q \in Ptrs,
             ResetFrom(p, q) \/ ResetFromReference(p, q) \/ ResetShare(p, q)
      PROVE  PointerInv'
  BY <1>8, ResetFromStep, ResetFromReferenceStep, ResetShareStep
<1> QED BY <1>1, <1>2, <1>3, <1>4, <1>5, <1>6, <1>7, <1>8 DEF Next

\* At every point an owner's object exists, is not the client's to delete, and
\* has no second owner except another ref_ptr (Attach, Detach and release of
\* own_ptr and sgl_own_ptr, and the deleter of ref_ptr).
THEOREM PointerSafety == Spec => []PointerInv
<1>1. Init => PointerInv
  BY PointerInit
<1>2. PointerInv /\ [Next]_vars => PointerInv'
  BY PointerStep
<1> QED BY <1>1, <1>2, PTL DEF Spec

\* The pointers stay well formed, the singleton is never owned, and a pointer
\* that is gone holds nothing.
THEOREM TypeCorrect == Spec => []TypeOK
<1>1. PointerInv => TypeOK
  BY DEF PointerInv
<1> QED BY <1>1, PointerSafety, PTL

\* Two pointers that are not shared never own the same object.
LEMMA OnlyOwner ==
  ASSUME PointerInv, NEW o \in Objects
  PROVE  Cardinality(Owning(o, Unique)) <= 1
<1>1. CASE Owning(o, Unique) = {}
  <2>1. Cardinality(Owning(o, Unique)) = 0
    BY <1>1, FS_EmptySet
  <2> QED BY <2>1
<1>2. CASE Owning(o, Unique) # {}
  <2>1. PICK p \in Unique : hold[p] = Hold(o, TRUE)
    BY <1>2 DEF Owning
  <2>2. ASSUME NEW q \in Unique, hold[q] = Hold(o, TRUE) PROVE q = p
    <3>1. Hold(o, TRUE).Own = TRUE /\ Hold(o, TRUE).Ptr = o
      BY DEF Hold
    <3>2. q = p \/ Shared(p, q)
      BY <2>1, <2>2, <3>1 DEF PointerInv, OwnerInv, Ptrs
    <3> QED BY <3>2, PointersAssumption DEF Shared, Unique
  <2>3. Owning(o, Unique) = {p}
    BY <2>1, <2>2 DEF Owning
  <2>4. Cardinality(Owning(o, Unique)) = 1
    BY <2>3, FS_Singleton
  <2> QED BY <2>4
<1> QED BY <1>1, <1>2

\* What a pointer or the client has to delete exists, and only one of the
\* client, the own_ptrs and sgl_own_ptrs, and a group of ref_ptrs has to.
THEOREM OneOwner == Spec => []SingleOwner
<1>1. ASSUME PointerInv PROVE SingleOwner
  <2> SUFFICES ASSUME NEW o \in Objects
               PROVE  /\ Owned(o) => o \in alive
                      /\ o \in raw => Owning(o, Ptrs) = {}
                      /\ Owning(o, Unique) # {} => Owning(o, RefPtrs) = {}
                      /\ Cardinality(Owning(o, Unique)) <= 1
    BY DEF SingleOwner
  <2>0. Hold(o, TRUE).Own = TRUE /\ Hold(o, TRUE).Ptr = o
    BY DEF Hold
  <2>1. Owned(o) => o \in alive
    BY <1>1, <2>0 DEF PointerInv, TypeOK, OwnerInv, Owned, Owning
  <2>2. o \in raw => Owning(o, Ptrs) = {}
    BY <1>1, <2>0 DEF PointerInv, OwnerInv, Owning
  <2>3. ASSUME NEW p \in Owning(o, Unique), NEW q \in Owning(o, RefPtrs) PROVE FALSE
    <3>1. p \in Ptrs /\ q \in Ptrs /\ p \in Unique /\ q \in RefPtrs
      BY DEF Owning, Ptrs
    <3>2. q = p \/ Shared(p, q)
      BY <1>1, <2>0, <3>1 DEF PointerInv, OwnerInv, Owning
    <3> QED BY <3>1, <3>2, PointersAssumption DEF Shared, Unique
  <2> QED BY <1>1, <2>1, <2>2, <2>3, OnlyOwner
<1>2. PointerInv => SingleOwner
  BY <1>1
<1> QED BY <1>2, PointerSafety, PTL
-----------------------------------------------------------------------------
(* What a step does to the owned objects *)

\* Somebody owns o before the step, and after it.
OwnedNow(o)  == o \in raw \/ \E p \in Ptrs : hold[p] = Hold(o, TRUE)
OwnedThen(o) == o \in raw' \/ \E p \in Ptrs : hold'[p] = Hold(o, TRUE)

\* A pointer holds o already, does not own it, and stays as it is.
HeldAlready(o) == \E p \in live \cap Unique : hold[p] = Hold(o, FALSE) /\ hold'[p] = hold[p]

LeakStep(o) == o \in alive \cap alive' /\ OwnedNow(o) => OwnedThen(o) \/ HeldAlready(o)

LEMMA OwningFacts ==
  ASSUME NEW o \in Objects
  PROVE  /\ Owned(o) <=> OwnedNow(o)
         /\ Owned(o)' <=> OwnedThen(o)
         /\ Hold(o, TRUE) \in Holds /\ Hold(o, TRUE).Ptr = o /\ Hold(o, TRUE).Own = TRUE
         /\ \A h \in Holds : h.Ptr = o => IF h.Own THEN h = Hold(o, TRUE) ELSE h = Hold(o, FALSE)
<1>1. /\ Hold(o, TRUE) \in Holds /\ Hold(o, TRUE).Ptr = o /\ Hold(o, TRUE).Own = TRUE
      /\ \A h \in Holds : h.Ptr = o => IF h.Own THEN h = Hold(o, TRUE) ELSE h = Hold(o, FALSE)
  BY DEF Hold, Holds
<1>2. Owned(o) <=> OwnedNow(o)
  BY DEF Owned, Owning, OwnedNow
<1>3. Owned(o)' <=> OwnedThen(o)
  BY DEF Owned, Owning, OwnedThen
<1> QED BY <1>1, <1>2, <1>3

\* A pointer that does not exist has nothing to delete.
LEMMA UnusedOwnsNothing ==
  ASSUME PointerInv, NEW p \in Ptrs \ live
  PROVE  hold[p].Own = FALSE /\ hold[p].Ptr \notin Objects /\ Detached(p) = {}
<1>1. hold[p] = Empty(p)
  BY DEF PointerInv, TypeOK
<1>2. Empty(p).Ptr \notin Objects
  BY PointersAssumption DEF Empty, Hold
<1> QED BY <1>1, <1>2, EmptyHolds DEF Detached

\* Detaching p deletes what it owned, or a ref_ptr that shares it remains.
LEMMA DetachKeepsOthers ==
  ASSUME PointerInv, NEW p \in Ptrs, NEW o \in Objects, o \in alive \ Detached(p),
         NEW x \in Ptrs, hold[x] = Hold(o, TRUE)
  PROVE  \E y \in Ptrs \ {p} : hold[y] = Hold(o, TRUE)
<1>1. CASE x # p
  BY <1>1
<1>2. CASE x = p
  <2>1. hold[p].Own = TRUE /\ hold[p].Ptr = o
    BY <1>2, OwningFacts
  <2>2. p \in RefPtrs /\ \E q \in RefPtrs \ {p} : hold[q] = hold[p]
    BY <2>1 DEF Detached
  <2> QED BY <1>2, <2>2 DEF Ptrs
<1> QED BY <1>1, <1>2

\* So an action that detaches and replaces one pointer loses no object.
LEMMA ReplaceLeaksNothing ==
  ASSUME PointerInv, NEW p \in Ptrs, NEW o \in Objects, alive' = alive \ Detached(p),
         \A x \in Ptrs \ {p} : hold'[x] = hold[x],
         o \in raw => o \in raw' \/ hold'[p] = Hold(o, TRUE)
  PROVE  LeakStep(o)
<1>1. ASSUME o \in alive', NEW x \in Ptrs, hold[x] = Hold(o, TRUE) PROVE OwnedThen(o)
  <2>1. PICK y \in Ptrs \ {p} : hold[y] = Hold(o, TRUE)
    BY <1>1, DetachKeepsOthers
  <2> QED BY <2>1 DEF OwnedThen
<1> QED BY <1>1 DEF LeakStep, OwnedNow, OwnedThen

\* Nor does one that moves what q holds to p.
LEMMA MoveLeaksNothing ==
  ASSUME PointerInv, NEW p \in Ptrs, NEW q \in Unique, NEW o \in Objects, p # q,
         alive' = alive \ Detached(p), raw' = raw,
         \A x \in Ptrs \ {p, q} : hold'[x] = hold[x],
         hold[q].Ptr \in Objects => hold'[p] = hold[q]
  PROVE  LeakStep(o)
<1>1. ASSUME o \in alive', NEW x \in Ptrs, hold[x] = Hold(o, TRUE) PROVE OwnedThen(o)
  <2>1. PICK y \in Ptrs \ {p} : hold[y] = Hold(o, TRUE)
    BY <1>1, DetachKeepsOthers
  <2>2. CASE y = q
    <3>1. hold[q].Ptr = o
      BY <2>1, <2>2 DEF Hold
    <3> QED BY <2>1, <2>2, <3>1 DEF OwnedThen
  <2>3. CASE y # q
    BY <2>1, <2>3 DEF OwnedThen
  <2> QED BY <2>2, <2>3
<1> QED BY <1>1 DEF LeakStep, OwnedNow, OwnedThen

LEMMA ConstructLeak ==
  ASSUME PointerInv, NEW p \in Ptrs, NEW o \in Objects,
         \/ ConstructEmpty(p)
         \/ \E h \in Holds : Construct(p, h)
         \/ \E x \in Objects \cup {NULL} : ConstructFromAuto(p, x)
         \/ \E q \in Ptrs : ConstructFrom(p, q) \/ Share(p, q)
  PROVE  LeakStep(o)
<1>0. p \notin live /\ Detached(p) = {} /\ alive' = alive \ Detached(p)
  BY UnusedOwnsNothing DEF ConstructEmpty, Construct, ConstructFromAuto, ConstructFrom, Share
<1>1. CASE ConstructEmpty(p)
  BY <1>0, <1>1, ReplaceLeaksNothing DEF ConstructEmpty
<1>2. ASSUME NEW h \in Holds, Construct(p, h) PROVE LeakStep(o)
  <2>1. /\ \A x \in Ptrs \ {p} : hold'[x] = hold[x]
        /\ o \in raw /\ o \notin raw' => h.Own = TRUE /\ h.Ptr = o
        /\ hold'[p] = Attached(p, h)
    BY <1>2 DEF Construct, Passes, PointerInv, TypeOK, Holds
  <2>2. h.Own = TRUE /\ h.Ptr = o => Attached(p, h) = Hold(o, TRUE)
    BY OwningFacts, PointersAssumption DEF Attached
  <2> QED BY <1>0, <2>1, <2>2, ReplaceLeaksNothing
<1>3. ASSUME NEW x \in Objects \cup {NULL}, ConstructFromAuto(p, x) PROVE LeakStep(o)
  <2>1. /\ \A y \in Ptrs \ {p} : hold'[y] = hold[y]
        /\ hold'[p] = Hold(x, TRUE) /\ raw' = raw \ {x}
    BY <1>3 DEF ConstructFromAuto, Passes, PointerInv, TypeOK, Hold
  <2> QED BY <1>0, <2>1, ReplaceLeaksNothing
<1>4. ASSUME NEW q \in Ptrs, ConstructFrom(p, q) PROVE LeakStep(o)
  <2>1. /\ q \in Unique /\ p # q /\ raw' = raw /\ hold'[p] = Moved(p, q)
        /\ \A x \in Ptrs \ {p, q} : hold'[x] = hold[x]
    BY <1>4 DEF ConstructFrom, PointerInv, TypeOK
  <2>2. hold[q].Ptr \in Objects => Moved(p, q) = hold[q]
    BY <2>1, MovedWhole DEF PointerInv
  <2> QED BY <1>0, <2>1, <2>2, MoveLeaksNothing
<1>5. ASSUME NEW q \in Ptrs, Share(p, q) PROVE LeakStep(o)
  BY <1>0, <1>5, ReplaceLeaksNothing DEF Share, PointerInv, TypeOK
<1> QED BY <1>1, <1>2, <1>3, <1>4, <1>5

LEMMA ReleaseLeak ==
  ASSUME PointerInv, NEW p \in Ptrs, NEW o \in Objects,
         Destroy(p) \/ ResetEmpty(p) \/ Release(p) \/ \E q \in Ptrs : CastFails(q, p)
  PROVE  LeakStep(o)
<1>0. \A x \in Ptrs \ {p} : hold'[x] = hold[x]
  BY DEF Destroy, ResetEmpty, Release, CastFails, PointerInv, TypeOK
<1>1. CASE Destroy(p) \/ ResetEmpty(p) \/ \E q \in Ptrs : CastFails(q, p)
  BY <1>0, <1>1, ReplaceLeaksNothing DEF Destroy, ResetEmpty, CastFails
<1>2. CASE Release(p)
  <2>1. raw \subseteq raw'
    BY <1>2 DEF Release
  <2>2. hold[p] = Hold(o, TRUE) => o \in raw'
    BY <1>2, OwningFacts DEF Release
  <2> QED BY <1>0, <2>1, <2>2 DEF LeakStep, OwnedNow, OwnedThen
<1> QED BY <1>1, <1>2

LEMMA ResetLeak ==
  ASSUME PointerInv, NEW p \in Ptrs, NEW o \in Objects,
         \/ \E h \in Holds : Reset(p, h)
         \/ \E x \in Objects : ResetReference(p, x)
         \/ \E q \in Ptrs : ResetFrom(p, q) \/ ResetFromReference(p, q) \/ ResetShare(p, q)
  PROVE  LeakStep(o)
<1>0. /\ hold \in [Ptrs -> Holds] /\ hold[p] \in Holds /\ hold[p].Own \in BOOLEAN
      /\ Hold(o, TRUE).Ptr = o
      /\ hold[p].Ptr = o => hold[p] = Hold(o, TRUE) \/ hold[p] = Hold(o, FALSE)
  <2>1. hold \in [Ptrs -> Holds] /\ hold[p] \in Holds /\ hold[p].Own \in BOOLEAN
    BY DEF PointerInv, TypeOK, Holds
  <2> QED BY <2>1 DEF Hold, Holds
<1>1. ASSUME NEW h \in Holds, Reset(p, h) PROVE LeakStep(o)
  <2>1. CASE Replaces(p, h)
    <3>1. /\ \A x \in Ptrs \ {p} : hold'[x] = hold[x]
          /\ o \in raw /\ o \notin raw' => h.Own = TRUE /\ h.Ptr = o
          /\ hold'[p] = Attached(p, h) /\ alive' = alive \ Detached(p)
      BY <1>0, <1>1, <2>1 DEF Reset, Passes, Holds
    <3>2. h.Own = TRUE /\ h.Ptr = o => Attached(p, h) = Hold(o, TRUE)
      BY OwningFacts, PointersAssumption DEF Attached
    <3> QED BY <3>1, <3>2, ReplaceLeaksNothing
  <2>2. CASE ~Replaces(p, h)
    <3>1. /\ p \in live \cap Unique /\ h.Ptr = hold[p].Ptr /\ UNCHANGED hold
          /\ o \in raw /\ o \notin raw' => h.Ptr = o
      BY <1>1, <2>2 DEF Reset, Passes, Replaces, Ptrs
    <3>2. h.Ptr = o => hold[p] = Hold(o, TRUE) \/ hold[p] = Hold(o, FALSE)
      BY <1>0, <3>1
    <3> QED BY <3>1, <3>2 DEF LeakStep, OwnedNow, OwnedThen, HeldAlready
  <2> QED BY <2>1, <2>2
<1>2. ASSUME NEW x \in Objects, ResetReference(p, x) PROVE LeakStep(o)
  BY <1>0, <1>2, ReplaceLeaksNothing DEF ResetReference
<1>3. ASSUME NEW q \in Unique, p # q, raw' = raw, alive' = alive \ Detached(p),
             hold' = [hold EXCEPT ![p] = Attached(p, hold[q]), ![q] = Empty(q)]
      PROVE  LeakStep(o)
  <2>1. hold[q].Ptr \in Objects => hold'[p] = hold[q]
    BY <1>0, <1>3, PointersAssumption DEF Attached
  <2> QED BY <1>0, <1>3, <2>1, MoveLeaksNothing
<1>4. ASSUME NEW q \in Ptrs, ResetFrom(p, q) PROVE LeakStep(o)
  <2>1. CASE (p \in OwnPtrs /\ q \in SglPtrs) \/ Replaces(p, hold[q])
    <3>1. p # q
      BY <1>4, <2>1, PointersAssumption DEF ResetFrom, Replaces, Unique
    <3> QED BY <1>3, <1>4, <2>1, <3>1 DEF ResetFrom
  <2>2. CASE ~((p \in OwnPtrs /\ q \in SglPtrs) \/ Replaces(p, hold[q]))
    BY <1>4, <2>2 DEF ResetFrom, LeakStep, OwnedNow, OwnedThen
  <2> QED BY <2>1, <2>2
<1>5. ASSUME NEW q \in Ptrs, ResetFromReference(p, q) PROVE LeakStep(o)
  <2>1. CASE Replaces(p, hold[q])
    BY <1>3, <1>5, <2>1 DEF ResetFromReference
  <2>2. CASE ~Replaces(p, hold[q])
    <3>1. /\ p \in live \cap Unique /\ p # q /\ hold[q].Ptr = hold[p].Ptr /\ raw' = raw
          /\ \A x \in Ptrs \ {q} : hold'[x] = hold[x]
      BY <1>0, <1>5, <2>2 DEF ResetFromReference, Replaces
    <3>2. hold[q] = Hold(o, TRUE) => hold[p] = Hold(o, TRUE) \/ hold[p] = Hold(o, FALSE)
      BY <1>0, <3>1
    <3> QED BY <3>1, <3>2 DEF LeakStep, OwnedNow, OwnedThen, HeldAlready
  <2> QED BY <2>1, <2>2
<1>6. ASSUME NEW q \in Ptrs, ResetShare(p, q) PROVE LeakStep(o)
  <2>1. CASE hold[p] = hold[q]
    BY <1>0, <1>6, <2>1 DEF ResetShare, LeakStep, OwnedNow, OwnedThen
  <2>2. CASE hold[p] # hold[q]
    BY <1>0, <1>6, <2>2, ReplaceLeaksNothing DEF ResetShare
  <2> QED BY <2>1, <2>2
<1> QED BY <1>1, <1>2, <1>4, <1>5, <1>6

\* An object that somebody had to delete stays somebody's, unless a pointer that
\* holds it already is given the ownership and does nothing (the tests for the
\* same pointer in reset of own_ptr and sgl_own_ptr).
THEOREM LeaksNothingElse == Spec => LeaksOnlyIfHeldAlready
<1>1. ASSUME PointerInv, [Next]_vars, NEW o \in Objects PROVE LeakStep(o)
  <2>1. CASE UNCHANGED vars
    BY <2>1 DEF vars, LeakStep, OwnedNow, OwnedThen
  <2>2. ASSUME NEW x \in Objects, New(x) \/ DeleteRaw(x) PROVE LeakStep(o)
    BY <2>2 DEF New, DeleteRaw, LeakStep, OwnedNow, OwnedThen
  <2> QED BY <1>1, <2>1, <2>2, ConstructLeak, ReleaseLeak, ResetLeak DEF Next
<1>2. ASSUME PointerInv, [Next]_vars
      PROVE  \A o \in alive \cap alive' :
               Owned(o) /\ ~Owned(o)' =>
                 \E p \in live \cap Unique : hold[p] = Hold(o, FALSE) /\ hold'[p] = hold[p]
  <2>1. \A o \in alive : o \in Objects
    BY <1>2 DEF PointerInv, TypeOK
  <2> QED BY <1>1, <1>2, <2>1, OwningFacts DEF LeakStep, HeldAlready
<1> QED BY <1>2, PointerSafety, PTL DEF Spec, LeaksOnlyIfHeldAlready
-----------------------------------------------------------------------------
(* What a deletion, and an empty auto_ptr, do to the pointers *)

\* Deleting what p owned meets no pointer but those that held it unowned.
LEMMA DetachLeavesUnowned ==
  ASSUME PointerInv, NEW p \in Ptrs, NEW o \in Detached(p), NEW x \in Ptrs \ {p},
         hold'[x] = hold[x], hold'[x].Ptr = o
  PROVE  x \in live /\ hold[x].Own = FALSE /\ hold[x].Ptr = o /\ hold'[x] = Hold(o, FALSE)
<1>1. hold[x] \in Holds /\ o \in Objects
  BY DEF PointerInv, TypeOK, Detached
<1>2. x \in live
  BY <1>1, UnusedOwnsNothing
<1>3. hold[x].Own = FALSE
  BY <1>1, DetachedOwn DEF Holds
<1>4. hold[x] = Hold(o, FALSE)
  BY <1>1, <1>3 DEF Hold, Holds
<1> QED BY <1>2, <1>3, <1>4

\* So an action that deletes what p owned has only to answer for p.
LEMMA DetachDeletes ==
  ASSUME PointerInv, NEW p \in Ptrs, alive' = alive \/ alive' = alive \ Detached(p), live' \subseteq Ptrs,
         \A x \in Ptrs \ {p} : hold'[x] = hold[x] \/ hold'[x].Ptr \notin Objects,
         \/ hold'[p].Ptr \notin Objects
         \/ hold[p].Own = FALSE
         \/ hold'[p].Ptr \notin Detached(p)
         \/ p \in live /\ live' = live /\ \E o \in Objects : hold'[p] = Hold(o, FALSE)
  PROVE  DeletedStep
<1> SUFFICES ASSUME NEW o \in alive \ alive', NEW x \in live', hold'[x].Ptr = o
             PROVE  /\ x \in live /\ hold[x].Ptr = o /\ hold'[x] = Hold(o, FALSE)
                    /\ hold[x].Own => live' = live
  BY DEF DeletedStep
<1>1. o \in Detached(p) /\ o \in Objects /\ x \in Ptrs /\ hold[p].Own /\ hold[p].Ptr = o
  BY DEF Detached
<1>2. CASE x # p
  <2>1. hold'[x] = hold[x]
    BY <1>1, <1>2
  <2>2. x \in Ptrs \ {p}
    BY <1>1, <1>2
  <2>3. x \in live /\ hold[x].Own = FALSE /\ hold[x].Ptr = o /\ hold'[x] = Hold(o, FALSE)
    BY <1>1, <2>1, <2>2, DetachLeavesUnowned
  <2> QED BY <2>3
<1>3. CASE x = p
  <2>1. p \in live /\ live' = live
    BY <1>1, <1>3
  <2>2. PICK y \in Objects : hold'[p] = Hold(y, FALSE)
    BY <1>1, <1>3
  <2>3. y = o
    BY <1>3, <2>2 DEF Hold
  <2> QED BY <1>1, <1>3, <2>1, <2>2, <2>3
<1> QED BY <1>2, <1>3

\* The value an empty pointer holds is no object, and not NULL in a sgl_own_ptr.
LEMMA EmptyFacts ==
  ASSUME NEW p \in Ptrs
  PROVE  /\ Empty(p).Ptr \notin Objects
         /\ p \in SglPtrs => Empty(p).Ptr = SGL
BY PointersAssumption DEF Empty, Hold

LEMMA AttachedNotNull ==
  ASSUME NEW p \in SglPtrs, NEW h
  PROVE  Attached(p, h).Ptr # NULL
BY PointersAssumption DEF Attached, Empty, Hold

LEMMA ConstructGood ==
  ASSUME PointerInv, NEW p \in Ptrs,
         \/ ConstructEmpty(p)
         \/ \E h \in Holds : Construct(p, h)
         \/ \E x \in Objects \cup {NULL} : ConstructFromAuto(p, x)
         \/ \E q \in Ptrs : ConstructFrom(p, q) \/ Share(p, q)
  PROVE  DeletedStep /\ NullStep
<1>0. p \notin live /\ alive' = alive /\ hold \in [Ptrs -> Holds]
  BY DEF PointerInv, TypeOK, ConstructEmpty, Construct, ConstructFromAuto, ConstructFrom, Share
<1>1. DeletedStep
  BY <1>0 DEF DeletedStep
<1>2. CASE ConstructEmpty(p)
  BY <1>1, <1>2 DEF ConstructEmpty, NullStep
<1>3. ASSUME NEW h \in Holds, Construct(p, h) PROVE NullStep
  BY <1>0, <1>3, AttachedNotNull DEF Construct, NullStep, Ptrs, Unique
<1>4. ASSUME NEW x \in Objects \cup {NULL}, ConstructFromAuto(p, x) PROVE NullStep
  BY <1>0, <1>4 DEF ConstructFromAuto, NullStep, Ptrs, Unique, Hold
<1>5. ASSUME NEW q \in Ptrs, ConstructFrom(p, q) PROVE NullStep
  <2>1. ASSUME p \in SglPtrs, hold'[p].Ptr = NULL PROVE q \in SglPtrs /\ hold[q].Ptr = NULL
    <3>1. hold'[p] = Moved(p, q) /\ q \in Unique
      BY <1>0, <1>5 DEF ConstructFrom
    <3>2. q \in SglPtrs
      BY <2>1, <3>1, AttachedNotNull, PointersAssumption DEF Moved, Unique
    <3>3. Moved(p, q) = Hold(hold[q].Ptr, hold[q].Own /\ hold[q].Ptr # NULL)
      BY <2>1, <3>2, PointersAssumption DEF Moved, Unique
    <3> QED BY <2>1, <3>1, <3>2, <3>3 DEF Hold
  <2>2. ASSUME NEW x \in SglPtrs \ {p}, hold'[x].Ptr = NULL PROVE hold[x].Ptr = NULL
    BY <1>0, <1>5, <2>2, EmptyFacts, PointersAssumption DEF ConstructFrom, Ptrs, Unique
  <2> QED BY <1>0, <2>1, <2>2 DEF NullStep
<1>6. ASSUME NEW q \in Ptrs, Share(p, q) PROVE NullStep
  BY <1>0, <1>6, PointersAssumption DEF Share, NullStep, Ptrs, Unique
<1> QED BY <1>1, <1>2, <1>3, <1>4, <1>5, <1>6

\* These leave one pointer empty and change no other.
LEMMA ReleaseGood ==
  ASSUME PointerInv, NEW p \in Ptrs,
         Destroy(p) \/ ResetEmpty(p) \/ Release(p) \/ \E q \in Ptrs : CastFails(q, p)
  PROVE  DeletedStep /\ NullStep
<1>1. /\ hold'[p] = Empty(p) /\ \A x \in Ptrs \ {p} : hold'[x] = hold[x]
      /\ alive' = alive \/ alive' = alive \ Detached(p)
      /\ live' \subseteq Ptrs
  BY DEF Destroy, ResetEmpty, Release, CastFails, PointerInv, TypeOK
<1>2. DeletedStep
  BY <1>1, EmptyFacts, DetachDeletes
<1>3. NullStep
  BY <1>1, EmptyFacts, PointersAssumption DEF NullStep, Ptrs, Unique
<1> QED BY <1>2, <1>3

LEMMA ResetGood ==
  ASSUME PointerInv, NEW p \in Ptrs,
         \/ \E h \in Holds : Reset(p, h)
         \/ \E o \in Objects : ResetReference(p, o)
         \/ \E q \in Ptrs : ResetFrom(p, q) \/ ResetFromReference(p, q) \/ ResetShare(p, q)
  PROVE  DeletedStep /\ NullStep
<1>0. p \in live /\ live' = live /\ live' \subseteq Ptrs /\ hold \in [Ptrs -> Holds]
  BY DEF Reset, ResetReference, ResetFrom, ResetFromReference, ResetShare, PointerInv, TypeOK
<1>1. ASSUME UNCHANGED <<alive, hold>> PROVE DeletedStep /\ NullStep
  BY <1>1 DEF DeletedStep, NullStep
<1>2. ASSUME NEW h \in Holds, Reset(p, h), Replaces(p, h) PROVE DeletedStep /\ NullStep
  <2>1. /\ alive' = alive \ Detached(p) /\ hold'[p] = Attached(p, h)
        /\ \A x \in Ptrs \ {p} : hold'[x] = hold[x]
    BY <1>0, <1>2 DEF Reset
  <2>2. ASSUME hold'[p].Ptr \in Detached(p) PROVE \E o \in Objects : hold'[p] = Hold(o, FALSE)
    <3>1. hold[p].Ptr \in Objects /\ hold[p].Own /\ hold'[p].Ptr = hold[p].Ptr
      BY <2>2 DEF Detached
    <3>2. hold'[p] = h
      BY <2>1, <3>1, EmptyFacts DEF Attached
    <3>3. p \notin Unique
      BY <1>2, <3>1, <3>2, PointersAssumption DEF Replaces, Unique
    <3>4. h.Ptr \in Objects /\ h.Ptr \notin raw
      BY <3>1, <3>2 DEF PointerInv, OwnerInv
    <3>5. h.Own = FALSE
      BY <1>2, <3>3, <3>4, PointersAssumption DEF Reset, Passes, Holds
    <3>6. h = Hold(h.Ptr, FALSE)
      BY <3>5 DEF Hold, Holds
    <3> QED BY <3>2, <3>4, <3>6
  <2>3. DeletedStep
    BY <1>0, <2>1, <2>2, DetachDeletes
  <2>4. NullStep
    BY <2>1, AttachedNotNull DEF NullStep, Ptrs, Unique
  <2> QED BY <2>3, <2>4
<1>3. ASSUME NEW o \in Objects, ResetReference(p, o) PROVE DeletedStep /\ NullStep
  <2>1. /\ alive' = alive \ Detached(p) /\ hold'[p] = Hold(o, FALSE)
        /\ \A x \in Ptrs \ {p} : hold'[x] = hold[x]
    BY <1>0, <1>3 DEF ResetReference
  <2>2. DeletedStep
    BY <1>0, <2>1, DetachDeletes
  <2>3. NullStep
    BY <2>1, PointersAssumption DEF NullStep, Ptrs, Unique, Hold
  <2> QED BY <2>2, <2>3
<1>4. ASSUME NEW q \in Ptrs \cap Unique, p # q, alive' = alive \ Detached(p),
             hold' = [hold EXCEPT ![p] = Attached(p, hold[q]), ![q] = Empty(q)],
             (p \in OwnPtrs /\ q \in SglPtrs) \/ Replaces(p, hold[q])
      PROVE  DeletedStep /\ NullStep
  <2>1. /\ hold'[p] = Attached(p, hold[q]) /\ hold'[q] = Empty(q)
        /\ \A x \in Ptrs \ {p, q} : hold'[x] = hold[x]
    BY <1>0, <1>4
  <2>2. ASSUME hold'[p].Ptr \in Detached(p) PROVE \E o \in Objects : hold'[p] = Hold(o, FALSE)
    <3>1. hold'[p].Ptr \in Objects
      BY <2>2 DEF Detached
    <3>2. hold'[p] = hold[q] /\ hold[q] \in Holds
      BY <1>0, <2>1, <3>1, EmptyFacts DEF Attached
    <3>3. hold[q].Own = FALSE
      BY <1>4, <2>2, <3>2, DetachedOwn DEF Holds
    <3>4. hold[q] = Hold(hold[q].Ptr, FALSE)
      BY <3>2, <3>3 DEF Hold, Holds
    <3> QED BY <3>1, <3>2, <3>4
  <2>3. DeletedStep
    BY <1>0, <1>4, <2>1, <2>2, EmptyFacts, DetachDeletes
  <2>4. NullStep
    BY <2>1, AttachedNotNull, EmptyFacts, PointersAssumption DEF NullStep, Ptrs, Unique
  <2> QED BY <2>3, <2>4
<1>5. ASSUME NEW q \in Ptrs, ResetFrom(p, q) PROVE DeletedStep /\ NullStep
  <2>1. CASE (p \in OwnPtrs /\ q \in SglPtrs) \/ Replaces(p, hold[q])
    <3>1. p # q
      BY <1>5, <2>1, PointersAssumption DEF ResetFrom, Replaces, Unique
    <3> QED BY <1>4, <1>5, <2>1, <3>1 DEF ResetFrom
  <2>2. CASE ~((p \in OwnPtrs /\ q \in SglPtrs) \/ Replaces(p, hold[q]))
    BY <1>1, <1>5, <2>2 DEF ResetFrom
  <2> QED BY <2>1, <2>2
<1>6. ASSUME NEW q \in Ptrs, ResetFromReference(p, q) PROVE DeletedStep /\ NullStep
  <2>1. CASE Replaces(p, hold[q])
    BY <1>4, <1>6, <2>1 DEF ResetFromReference
  <2>2. CASE ~Replaces(p, hold[q])
    <3>1. /\ alive' = alive /\ hold'[q] = Empty(q) /\ \A x \in Ptrs \ {q} : hold'[x] = hold[x]
      BY <1>0, <1>6, <2>2 DEF ResetFromReference
    <3> QED BY <3>1, EmptyFacts, PointersAssumption DEF DeletedStep, NullStep, Ptrs, Unique
  <2> QED BY <2>1, <2>2
<1>7. ASSUME NEW q \in Ptrs, ResetShare(p, q) PROVE DeletedStep /\ NullStep
  <2>1. /\ p \in RefPtrs /\ hold'[p] = hold[q] /\ \A x \in Ptrs \ {p} : hold'[x] = hold[x]
        /\ alive' = IF hold[p] = hold[q] THEN alive ELSE alive \ Detached(p)
    BY <1>0, <1>7 DEF ResetShare
  <2>2. CASE hold[p] = hold[q]
    BY <2>1, <2>2 DEF DeletedStep, NullStep, Ptrs, Unique
  <2>3. ASSUME hold[p] # hold[q], hold'[p].Ptr \in Detached(p)
        PROVE  \E o \in Objects : hold'[p] = Hold(o, FALSE)
    <3>1. hold[q] \in Holds /\ hold[q].Ptr \in Objects /\ q # p
      BY <1>0, <2>1, <2>3 DEF Detached
    <3>2. hold[q].Own = FALSE
      BY <2>1, <2>3, <3>1, DetachedOwn DEF Holds
    <3>3. hold[q] = Hold(hold[q].Ptr, FALSE)
      BY <3>1, <3>2 DEF Hold, Holds
    <3> QED BY <2>1, <3>1, <3>3
  <2>4. CASE hold[p] # hold[q]
    <3>1. DeletedStep
      BY <1>0, <2>1, <2>3, <2>4, DetachDeletes
    <3>2. NullStep
      BY <2>1, PointersAssumption DEF NullStep, Ptrs, Unique
    <3> QED BY <3>1, <3>2
  <2> QED BY <2>2, <2>4
<1>8. ASSUME NEW h \in Holds, Reset(p, h), ~Replaces(p, h) PROVE DeletedStep /\ NullStep
  BY <1>1, <1>8 DEF Reset
<1> QED BY <1>2, <1>3, <1>5, <1>6, <1>7, <1>8

\* A deletion leaves only pointers behind that held the object unowned, and the
\* pointer that replaced it by a reference to the same object; a sgl_own_ptr
\* turns NULL only when it is constructed from something empty.
THEOREM PointersGood == Spec => PointersStayGood
<1>1. ASSUME PointerInv, [Next]_vars PROVE DeletedStep /\ NullStep
  <2>1. CASE UNCHANGED vars
    BY <2>1 DEF vars, DeletedStep, NullStep
  <2>2. ASSUME NEW o \in Objects, New(o) PROVE DeletedStep /\ NullStep
    BY <2>2 DEF New, DeletedStep, NullStep
  <2>3. ASSUME NEW o \in Objects, DeleteRaw(o) PROVE DeletedStep /\ NullStep
    <3>1. alive' = alive \ {o} /\ o \in raw /\ UNCHANGED <<live, hold>>
      BY <2>3 DEF DeleteRaw
    <3>2. ASSUME NEW p \in live, hold[p].Ptr = o PROVE hold[p] = Hold(o, FALSE)
      <4>1. p \in Ptrs /\ hold[p] \in Holds /\ hold[p].Own = FALSE
        BY <1>1, <3>1, <3>2 DEF PointerInv, TypeOK, OwnerInv, Holds
      <4> QED BY <3>2, <4>1 DEF Hold, Holds
    <3> QED BY <3>1, <3>2 DEF DeletedStep, NullStep
  <2> QED BY <1>1, <2>1, <2>2, <2>3, ConstructGood, ReleaseGood, ResetGood DEF Next
<1> QED BY <1>1, PointerSafety, PTL DEF Spec, PointersStayGood
=============================================================================
