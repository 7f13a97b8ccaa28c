---------------------------- MODULE SmartPointers ----------------------------
(***************************************************************************)
(* own_ptr, sgl_own_ptr and ref_ptr of src/MMSmartPointer.h: who has to    *)
(* delete an object.  A pointer holds Ptr and Own; a ref_ptr is a          *)
(* boost::shared_ptr (external) whose deleter says Own.                    *)
(*                                                                         *)
(* The client creates objects and owns them (raw) until it hands them to   *)
(* a pointer; it gives away only what it owns, or what the pointer owns    *)
(* already (p.reset(p.get())), and otherwise passes only references to     *)
(* objects that exist.                                                     *)
(*                                                                         *)
(* Two things are assumed.  Memory is there: when a ref_ptr takes over     *)
(* from an own_ptr, a bad_alloc for boost's counter would delete an object *)
(* that the own_ptr has not let go of yet.  And no pointer is a member of  *)
(* one of the objects: reset deletes the old object before it lets the     *)
(* source go, which must not die with it.                                  *)
(***************************************************************************)
EXTENDS FiniteSets, Naturals

CONSTANTS
  Objects, OwnPtrs, SglPtrs, RefPtrs,
  SGL,             \* the singleton of the sgl_own_ptrs
  NULL

ASSUME PointersAssumption ==
  /\ SGL # NULL /\ SGL \notin Objects /\ NULL \notin Objects
  /\ OwnPtrs \cap SglPtrs = {}
  /\ RefPtrs \cap (OwnPtrs \cup SglPtrs) = {}

VARIABLES
  alive,           \* objects that exist
  raw,             \* objects that the client has to delete
  live,            \* pointers that exist
  hold             \* what each pointer holds

vars == <<alive, raw, live, hold>>

Unique == OwnPtrs \cup SglPtrs
Ptrs   == Unique \cup RefPtrs
Holds  == [Ptr : Objects \cup {SGL, NULL}, Own : BOOLEAN]

Hold(ptr, own) == [Ptr |-> ptr, Own |-> own]

\* What release and the constructor without arguments leave in p.
Empty(p) == IF p \in SglPtrs THEN Hold(SGL, FALSE) ELSE Hold(NULL, FALSE)

\* MUTANT of Attached: sgl_own_ptr uses the Attach of its base class.
AttachedByBase(p, h) == Hold(h.Ptr, h.Own /\ h.Ptr # NULL)

\* Attach of the class of p; NULL is never owned.
Attached(p, h) == IF h.Ptr = NULL THEN Empty(p) ELSE h

Init ==
  /\ alive = {} /\ raw = {} /\ live = {}
  /\ hold = [p \in Ptrs |-> Empty(p)]
-----------------------------------------------------------------------------
\* Detach, or the last ref_ptr of the object going away.
Detached(p) ==
  IF /\ hold[p].Own /\ hold[p].Ptr \in Objects
     /\ p \in RefPtrs => \A q \in RefPtrs \ {p} : hold[q] # hold[p]
  THEN {hold[p].Ptr} ELSE {}

\* The client passes a pointer together with the duty to delete, or without.
Passes(h) ==
  /\ IF h.Own THEN h.Ptr \in raw \cup {NULL} ELSE h.Ptr \in alive \cup {SGL, NULL}
  /\ raw' = IF h.Own THEN raw \ {h.Ptr} ELSE raw

New(o) ==
  /\ o \notin alive
  /\ \A p \in Ptrs : hold[p].Ptr # o
  /\ alive' = alive \cup {o} /\ raw' = raw \cup {o}
  /\ UNCHANGED <<live, hold>>

DeleteRaw(o) ==
  /\ o \in raw
  /\ alive' = alive \ {o} /\ raw' = raw \ {o}
  /\ UNCHANGED <<live, hold>>
-----------------------------------------------------------------------------
(* Constructors, release and destructor *)

ConstructEmpty(p) ==
  /\ p \notin live
  /\ live' = live \cup {p}
  /\ UNCHANGED <<alive, raw, hold>>

\* From T* with or without ownership, or from T&.
Construct(p, h) ==
  /\ p \notin live
  /\ Passes(h)
  /\ live' = live \cup {p}
  /\ hold' = [hold EXCEPT ![p] = Attached(p, h)]
  /\ UNCHANGED alive

\* From an auto_ptr, which may be empty: Own is set whatever it held.
ConstructFromAuto(p, o) ==
  /\ p \in Unique \ live
  /\ Passes(Hold(o, TRUE))
  /\ live' = live \cup {p}
  /\ hold' = [hold EXCEPT ![p] = Hold(o, TRUE)]
  /\ UNCHANGED alive

\* From another pointer or its proxy reference, which loses what it held; a
\* ref_ptr gets its counter.
\* An own_ptr copies both members of another one; what comes from a sgl_own_ptr
\* is taken as it is, even if an empty auto_ptr has made it NULL.
Moved(p, q) ==
  CASE p \in OwnPtrs /\ q \in OwnPtrs -> hold[q]
    [] p \in Unique  /\ q \in SglPtrs -> Hold(hold[q].Ptr, hold[q].Own /\ hold[q].Ptr # NULL)
    [] OTHER -> Attached(p, hold[q])

ConstructFrom(p, q) ==
  /\ p \notin live /\ q \in live \cap Unique
  /\ live' = live \cup {p}
  /\ hold' = [hold EXCEPT ![p] = Moved(p, q), ![q] = Empty(q)]
  /\ UNCHANGED <<alive, raw>>

\* MUTANT of CastFails: the argument lets go of its object as if it were moved.
CastFailsReleased(p, q) ==
  /\ p \in OwnPtrs \ live /\ q \in live \cap OwnPtrs
  /\ live' = live \cup {p}
  /\ hold' = [hold EXCEPT ![q] = Empty(q)]
  /\ UNCHANGED <<alive, raw>>
\* A dynamic_cast of an own_ptr that fails.  The temporary argument has taken the
\* object from q, keeps it, and deletes it if it was owned.
CastFails(p, q) ==
  /\ p \in OwnPtrs \ live /\ q \in live \cap OwnPtrs
  /\ alive' = alive \ Detached(q)
  /\ live' = live \cup {p}
  /\ hold' = [hold EXCEPT ![q] = Empty(q)]
  /\ UNCHANGED raw

\* ref_ptr from ref_ptr.
Share(p, q) ==
  /\ p \in RefPtrs \ live /\ q \in live \cap RefPtrs
  /\ live' = live \cup {p}
  /\ hold' = [hold EXCEPT ![p] = hold[q]]
  /\ UNCHANGED <<alive, raw>>

\* MUTANT of Release: Own stays as it was.
ReleaseKeepsOwn(p) ==
  /\ p \in live \cap Unique
  /\ raw' = IF hold[p].Own THEN raw \cup ({hold[p].Ptr} \cap Objects) ELSE raw
  /\ hold' = [hold EXCEPT ![p].Ptr = Empty(p).Ptr]
  /\ UNCHANGED <<alive, live>>
\* The caller gets the pointer, and the duty to delete if there was one.
Release(p) ==
  /\ p \in live \cap Unique
  /\ raw' = IF hold[p].Own THEN raw \cup ({hold[p].Ptr} \cap Objects) ELSE raw
  /\ hold' = [hold EXCEPT ![p] = Empty(p)]
  /\ UNCHANGED <<alive, live>>

Destroy(p) ==
  /\ p \in live
  /\ alive' = alive \ Detached(p)
  /\ live' = live \ {p}
  /\ hold' = [hold EXCEPT ![p] = Empty(p)]
  /\ UNCHANGED raw
-----------------------------------------------------------------------------
(* reset, and the assignments, which call it *)

ResetEmpty(p) ==
  /\ p \in live
  /\ alive' = alive \ Detached(p)
  /\ hold' = [hold EXCEPT ![p] = Empty(p)]
  /\ UNCHANGED <<raw, live>>

\* MUTANT of Replaces: the test is missing.
ReplacesAlways(p, h) == TRUE
\* Whether reset replaces what p holds: own_ptr and sgl_own_ptr do nothing if it
\* is the same pointer, whoever owns it.
Replaces(p, h) == p \in RefPtrs \/ h.Ptr # hold[p].Ptr

\* reset(T*, bool); reset(auto_ptr) is the same with own.
Reset(p, h) ==
  /\ p \in live
  /\ \/ Passes(h)
     \/ p \in Unique /\ h = hold[p] /\ UNCHANGED raw
  /\ IF Replaces(p, h)
     THEN /\ alive' = alive \ Detached(p)
          /\ hold' = [hold EXCEPT ![p] = Attached(p, h)]
     ELSE UNCHANGED <<alive, hold>>
  /\ UNCHANGED live

\* reset(T&) makes no test.
ResetReference(p, o) ==
  /\ p \in live /\ o \in alive
  /\ alive' = alive \ Detached(p)
  /\ hold' = [hold EXCEPT ![p] = Hold(o, FALSE)]
  /\ UNCHANGED <<raw, live>>

\* reset from another pointer of the class, or of an own_ptr from a sgl_own_ptr,
\* which is not tested.  The source is released after the deletion, which does
\* not touch it.
ResetFrom(p, q) ==
  /\ p \in live \cap Unique /\ q \in live \cap Unique
  /\ p \in SglPtrs => q \in SglPtrs
  /\ IF (p \in OwnPtrs /\ q \in SglPtrs) \/ Replaces(p, hold[q])
     THEN /\ alive' = alive \ Detached(p)
          /\ hold' = [hold EXCEPT ![p] = Attached(p, hold[q]), ![q] = Empty(q)]
     ELSE UNCHANGED <<alive, hold>>
  /\ UNCHANGED <<raw, live>>

\* reset from a proxy reference, as in p = f(): the other pointer has let go
\* when the test is made.
ResetFromReference(p, q) ==
  /\ p \in live \cap Unique /\ q \in live \cap Unique /\ p # q
  /\ p \in OwnPtrs => q \in OwnPtrs
  /\ IF Replaces(p, hold[q])
     THEN /\ alive' = alive \ Detached(p)
          /\ hold' = [hold EXCEPT ![p] = Attached(p, hold[q]), ![q] = Empty(q)]
     ELSE hold' = [hold EXCEPT ![q] = Empty(q)] /\ UNCHANGED alive
  /\ UNCHANGED <<raw, live>>

\* ref_ptr::reset(ref_ptr)
ResetShare(p, q) ==
  /\ p \in live \cap RefPtrs /\ q \in live \cap RefPtrs
  /\ alive' = IF hold[p] = hold[q] THEN alive ELSE alive \ Detached(p)
  /\ hold' = [hold EXCEPT ![p] = hold[q]]
  /\ UNCHANGED <<raw, live>>

Next ==
  \/ \E o \in Objects : New(o) \/ DeleteRaw(o)
  \/ \E p \in Ptrs :
       \/ ConstructEmpty(p) \/ Release(p) \/ Destroy(p) \/ ResetEmpty(p)
       \/ \E h \in Holds : Construct(p, h) \/ Reset(p, h)
       \/ \E o \in Objects \cup {NULL} : ConstructFromAuto(p, o)
       \/ \E o \in Objects : ResetReference(p, o)
       \/ \E q \in Ptrs :
            \/ ConstructFrom(p, q) \/ CastFails(p, q) \/ Share(p, q)
            \/ ResetFrom(p, q) \/ ResetFromReference(p, q) \/ ResetShare(p, q)

Spec == Init /\ [][Next]_vars
-----------------------------------------------------------------------------
(* Properties *)

Owning(o, ps) == {p \in ps : hold[p] = Hold(o, TRUE)}
Owned(o) == o \in raw \/ Owning(o, Ptrs) # {}

\* Types; the singleton is never owned, and an empty pointer is really empty.
TypeOK ==
  /\ alive \subseteq Objects /\ raw \subseteq alive /\ live \subseteq Ptrs
  /\ hold \in [Ptrs -> Holds]
  /\ \A p \in Ptrs : hold[p].Own => hold[p].Ptr # SGL
  /\ \A p \in Ptrs \ live : hold[p] = Empty(p)

\* No object is deleted twice or used by its owner after it was deleted: what a
\* pointer or the client owns exists, and the client, one own_ptr or
\* sgl_own_ptr, or a group of ref_ptrs owns it, never two of them.
SingleOwner ==
  \A o \in Objects :
    /\ Owned(o) => o \in alive
    /\ o \in raw => Owning(o, Ptrs) = {}
    /\ Owning(o, Unique) # {} => Owning(o, RefPtrs) = {}
    /\ Cardinality(Owning(o, Unique)) <= 1

\* No object loses its owner without being deleted, with one exception: some
\* pointer holds it without owning it, and holds it the same way afterwards,
\* because it was given the ownership of what it holds already.  The test for
\* the same pointer then keeps Own as it was.
LeaksOnlyIfHeldAlready ==
  [][\A o \in alive \cap alive' :
       Owned(o) /\ ~Owned(o)' =>
         \E p \in live \cap Unique :
           hold[p] = Hold(o, FALSE) /\ hold'[p] = hold[p]]_vars

\* Whom a deletion leaves behind with the pointer: those that held the object
\* without owning it, and the owner itself when a reset replaced it by a
\* reference to the same object, which reset(T&) and the reset of an own_ptr
\* from a sgl_own_ptr do not test for.
DeletedStep ==
  \A o \in alive \ alive', p \in live' :
    hold'[p].Ptr = o =>
      /\ p \in live /\ hold[p].Ptr = o /\ hold'[p] = Hold(o, FALSE)
      /\ hold[p].Own => live' = live
\* A sgl_own_ptr turns NULL, and its operator! into a lie, in a constructor only,
\* from an empty auto_ptr or from one that is NULL already.
NullStep ==
  \A p \in SglPtrs :
    hold'[p].Ptr = NULL /\ hold[p].Ptr # NULL =>
      p \notin live /\ (hold'[p].Own \/ \E q \in SglPtrs : hold[q].Ptr = NULL)
PointersStayGood == [][DeletedStep /\ NullStep]_vars
-----------------------------------------------------------------------------
(* The inductive invariant: an owner's object exists, is not the client's, and *)
(* has no other owner, unless the two share it.                                *)

Shared(p, q) == p \in RefPtrs /\ q \in RefPtrs

OwnerInv ==
  \A p \in Ptrs : hold[p].Own /\ hold[p].Ptr \in Objects =>
    /\ hold[p].Ptr \in alive \ raw
    /\ \A q \in Ptrs : hold[q].Own /\ hold[q].Ptr = hold[p].Ptr => q = p \/ Shared(p, q)

PointerInv == TypeOK /\ OwnerInv
=============================================================================
