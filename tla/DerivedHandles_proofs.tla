------------------------ MODULE DerivedHandles_proofs ------------------------
(***************************************************************************)
(* Proofs about DerivedHandles, for all sets of parents and children.      *)
(*                                                                         *)
(* What became of an object can be read off the lives of the wrappers that *)
(* lead into it: its own, and those that borrow from it and free it all    *)
(* the same.  The order in which cleaners run and references are deleted   *)
(* does not matter.                                                        *)
(***************************************************************************)
EXTENDS DerivedHandles, TLAPS

-----------------------------------------------------------------------------
LEMMA InitEstablishes == Init => DerivedInvariant
BY DerivedAssumption DEF Init, DerivedInvariant, TypeOK, Lives, InUse, ObjectStates,
   ObjectAsFreed, MemoryAsFreed, FreedByBorrower, FreeRan, ParentIsInUse, ChildrenOf,
   Wrappers, Borrowed

\* Objects stay as they are while no wrapper is made and no free begins.
LEMMA ObjectsStay ==
  ASSUME DerivedInvariant, object' = object,
         \A v \in Wrappers : /\ life[v]' = "unborn" <=> life[v] = "unborn"
                             /\ FreeRan(v)' <=> FreeRan(v),
         NEW w \in Wrappers
  PROVE  ObjectAsFreed(w)'
<1>1. FreedByBorrower(w)' <=> FreedByBorrower(w)
  BY DerivedAssumption DEF FreedByBorrower, ChildrenOf, Wrappers
<1>2. ObjectAsFreed(w)
  BY DEF DerivedInvariant
<1>3. QED
  BY <1>1, <1>2 DEF ObjectAsFreed, Frees, Owners

\* A wrapper is made with the object C gave it, if any; nothing was made from
\* it before.
LEMMA MakePreserves ==
  ASSUME DerivedInvariant, NEW w \in Wrappers, NEW stage \in {"building", "held"},
         Make(w, stage),
         w \in Children => life[ParentOf[w]] \in {"building", "held"}
  PROVE  DerivedInvariant'
<1> USE DerivedAssumption DEF DerivedInvariant, TypeOK, Make, Wrappers
<1>1. TypeOK'
  BY DEF Lives, InUse, ObjectStates, ObjectOf
<1>2. ASSUME NEW v \in Wrappers PROVE FreedByBorrower(v)' <=> FreedByBorrower(v)
  BY DEF FreedByBorrower, ChildrenOf, FreeRan
<1>3. ASSUME NEW v \in Wrappers PROVE ObjectAsFreed(v)'
  <2>1. CASE v = w
    <3>1. ~FreedByBorrower(w)
      BY DEF FreedByBorrower, ChildrenOf, FreeRan, ParentIsInUse
    <3>2. object'[w] = ObjectOf(w) /\ life'[w] = stage
      OBVIOUS
    <3>3. QED
      BY <1>2, <2>1, <3>1, <3>2 DEF ObjectAsFreed, ObjectOf, FreeRan
  <2>2. CASE v # w
    <3>1. object'[v] = object[v] /\ life'[v] = life[v]
      BY <2>2
    <3>2. QED
      BY <1>2, <3>1 DEF ObjectAsFreed, FreeRan
  <2>3. QED
    BY <2>1, <2>2
<1>4. ASSUME NEW v \in Wrappers PROVE MemoryAsFreed(v)'
  BY DEF MemoryAsFreed
<1>5. ASSUME NEW c \in Children PROVE ParentIsInUse(c)'
  BY DEF ParentIsInUse, InUse
<1>6. QED
  BY <1>1, <1>3, <1>4, <1>5

LEMMA ConstructPreserves ==
  ASSUME DerivedInvariant, NEW p \in Parents, Construct(p)
  PROVE  DerivedInvariant'
BY MakePreserves, DerivedAssumption DEF Construct, Wrappers

LEMMA DerivePreserves ==
  ASSUME DerivedInvariant, NEW c \in Children, Derive(c)
  PROVE  DerivedInvariant'
BY MakePreserves DEF Derive, Wrappers

\* Steps of the application that change neither objects nor memory.
LEMMA FinishPreserves ==
  ASSUME DerivedInvariant, NEW p \in Parents, Finish(p)
  PROVE  DerivedInvariant'
<1> USE DerivedAssumption DEF DerivedInvariant, TypeOK, Finish, Wrappers
<1>1. TypeOK'
  BY DEF Lives, InUse
<1>2. ASSUME NEW v \in Wrappers PROVE ObjectAsFreed(v)'
  BY ObjectsStay DEF FreeRan
<1>3. ASSUME NEW v \in Wrappers PROVE MemoryAsFreed(v)'
  BY DEF MemoryAsFreed
<1>4. ASSUME NEW c \in Children PROVE ParentIsInUse(c)'
  BY DEF ParentIsInUse, InUse
<1>5. QED
  BY <1>1, <1>2, <1>3, <1>4

\* When a constructor throws, the children it made become garbage with it.
LEMMA GiveUpPreserves ==
  ASSUME DerivedInvariant, NEW p \in Parents, GiveUp(p)
  PROVE  DerivedInvariant'
<1> USE DerivedAssumption DEF DerivedInvariant, TypeOK, GiveUp, Wrappers
<1>1. TypeOK'
  BY DEF Lives
<1>2. ASSUME NEW v \in Wrappers PROVE ObjectAsFreed(v)'
  BY ObjectsStay DEF FreeRan
<1>3. ASSUME NEW v \in Wrappers PROVE MemoryAsFreed(v)'
  BY DEF MemoryAsFreed
<1>4. ASSUME NEW c \in Children PROVE ParentIsInUse(c)'
  BY DEF ParentIsInUse, ChildrenOf, InUse
<1>5. QED
  BY <1>1, <1>2, <1>3, <1>4

LEMMA MutatePreserves ==
  ASSUME DerivedInvariant, NEW p \in Parents, Mutate(p)
  PROVE  DerivedInvariant'
<1> USE DerivedAssumption DEF DerivedInvariant, Mutate
<1>1. TypeOK' /\ \A c \in stale' : ParentOf[c] \in Mutable
  BY DEF TypeOK, ChildrenOf, Borrowed
<1>2. ASSUME NEW v \in Wrappers PROVE ObjectAsFreed(v)'
  BY ObjectsStay DEF FreeRan
<1>3. QED
  BY <1>1, <1>2 DEF MemoryAsFreed, ParentIsInUse

\* A parent is dropped only when no child that keeps it is held.
LEMMA DropPreserves ==
  ASSUME DerivedInvariant, NEW w \in Wrappers, Drop(w)
  PROVE  DerivedInvariant'
<1> USE DerivedAssumption DEF DerivedInvariant, TypeOK, Drop, Wrappers
<1>1. TypeOK'
  BY DEF Lives
<1>2. ASSUME NEW v \in Wrappers PROVE ObjectAsFreed(v)'
  BY ObjectsStay DEF FreeRan
<1>3. ASSUME NEW v \in Wrappers PROVE MemoryAsFreed(v)'
  BY DEF MemoryAsFreed
<1>4. ASSUME NEW c \in Children PROVE ParentIsInUse(c)'
  BY DEF ParentIsInUse, Holds, InUse
<1>5. QED
  BY <1>1, <1>2, <1>3, <1>4

\* Raw.free of w, up to and including the C free function.
FreeBegins(w) ==
    /\ life[w] \in {"held", "garbage"}
    /\ \E l \in {"freeing", "deleting"} : life' = [life EXCEPT ![w] = l]
    /\ IF Frees(w) THEN CFree(w) ELSE UNCHANGED object

\* A borrower that frees leaves its parent's object corrupt, an owner its own
\* released, unless a borrower was there before it.
LEMMA ObjectsAfterFree ==
  ASSUME DerivedInvariant, NEW w \in Wrappers, FreeBegins(w), NEW v \in Wrappers
  PROVE  ObjectAsFreed(v)'
<1> USE DerivedAssumption
<1> DEFINE Borrowers(u) == ChildrenOf(u) \cap Borrowed \cap (Freeing \ Disowned)
<1>1. FreeRan(w)' /\ ~FreeRan(w) /\ life[w] # "unborn" /\ life[w]' # "unborn"
  BY DEF FreeBegins, DerivedInvariant, TypeOK, FreeRan
<1>2. \A u \in Wrappers : u # w => life[u]' = life[u] /\ (FreeRan(u)' <=> FreeRan(u))
  BY DEF FreeBegins, DerivedInvariant, TypeOK, FreeRan
<1>3. \A u \in Wrappers : FreedByBorrower(u)' <=> FreedByBorrower(u) \/ w \in Borrowers(u)
  BY <1>1, <1>2 DEF FreedByBorrower, ChildrenOf, Wrappers
<1>4. ObjectAsFreed(v)
  BY DEF DerivedInvariant
<1>5. CASE ~Frees(w)
  <2>1. object' = object /\ w \notin Borrowers(v)
    BY <1>5 DEF FreeBegins, Frees
  <2>2. CASE v = w
    BY <1>1, <1>3, <1>4, <1>5, <2>1, <2>2 DEF ObjectAsFreed
  <2>3. CASE v # w
    BY <1>2, <1>3, <1>4, <2>1, <2>3 DEF ObjectAsFreed
  <2>4. QED
    BY <2>2, <2>3
<1>6. CASE Frees(w) /\ w \in Owners
  <2>1. OwnerOf(w) = w /\ w \notin Borrowers(v)
    BY <1>6 DEF OwnerOf, Owners, Borrowed
  <2>2. CASE v = w
    <3>1. object'[w] = IF object[w] = "owned" THEN "released" ELSE "corrupt"
      BY <1>6, <2>1 DEF FreeBegins, CFree, DerivedInvariant, TypeOK
    <3>2. QED
      BY <1>1, <1>3, <1>4, <1>6, <2>1, <2>2, <3>1 DEF ObjectAsFreed
  <2>3. CASE v # w
    <3>1. object'[v] = object[v]
      BY <1>6, <2>1, <2>3 DEF FreeBegins, CFree, DerivedInvariant, TypeOK
    <3>2. QED
      BY <1>2, <1>3, <1>4, <2>1, <2>3, <3>1 DEF ObjectAsFreed
  <2>4. QED
    BY <2>2, <2>3
<1>7. CASE Frees(w) /\ w \notin Owners
  <2>1. /\ w \in Borrowed /\ w \in Freeing \ Disowned
        /\ OwnerOf(w) = ParentOf[w] /\ ParentOf[w] \in Wrappers /\ ParentOf[w] # w
    BY <1>7 DEF Frees, Owners, OwnerOf, Borrowed, Wrappers
  <2>2. object' = [object EXCEPT ![ParentOf[w]] = "corrupt"]
    BY <1>7, <2>1 DEF FreeBegins, CFree
  <2>3. CASE v = ParentOf[w]
    <3>1. w \in Borrowers(v) /\ object'[v] = "corrupt"
      BY <2>1, <2>2, <2>3 DEF ChildrenOf, Borrowed, DerivedInvariant, TypeOK
    <3>2. QED
      BY <1>3, <3>1 DEF ObjectAsFreed
  <2>4. CASE v # ParentOf[w]
    <3>1. w \notin Borrowers(v) /\ object'[v] = object[v]
      BY <2>2, <2>4 DEF ChildrenOf, DerivedInvariant, TypeOK
    <3>2. CASE v = w
      BY <1>1, <1>3, <1>4, <1>7, <3>1, <3>2 DEF ObjectAsFreed
    <3>3. CASE v # w
      BY <1>2, <1>3, <1>4, <3>1, <3>3 DEF ObjectAsFreed
    <3>4. QED
      BY <3>2, <3>3
  <2>5. QED
    BY <2>3, <2>4
<1>8. QED
  BY <1>5, <1>6, <1>7

LEMMA FreeKeepsTypes ==
  ASSUME DerivedInvariant, NEW w \in Wrappers, FreeBegins(w)
  PROVE  /\ life' \in [Wrappers -> Lives]
         /\ object' \in [Wrappers -> ObjectStates]
<1> USE DerivedAssumption DEF DerivedInvariant, TypeOK, FreeBegins
<1>1. OwnerOf(w) \in Wrappers
  BY DEF OwnerOf, Borrowed, Wrappers
<1>2. object' \in [Wrappers -> ObjectStates]
  BY <1>1 DEF CFree, ObjectStates
<1>3. QED
  BY <1>2 DEF Lives, InUse

LEMMA FreeObjectPreserves ==
  ASSUME DerivedInvariant, NEW w \in Wrappers, FreeObject(w)
  PROVE  DerivedInvariant'
<1> USE DerivedAssumption DEF DerivedInvariant, TypeOK, FreeObject, Wrappers
<1>1. FreeBegins(w)
  BY DEF FreeBegins
<1>2. ASSUME NEW v \in Wrappers PROVE MemoryAsFreed(v)'
  BY DEF MemoryAsFreed
<1>3. ASSUME NEW c \in Children PROVE ParentIsInUse(c)'
  BY DEF ParentIsInUse, InUse
<1>4. QED
  BY <1>1, <1>2, <1>3, FreeKeepsTypes, ObjectsAfterFree

\* Reference.delete frees a reference the application holds; it stays in use.
LEMMA DeletePreserves ==
  ASSUME DerivedInvariant, NEW p \in Parents, Delete(p)
  PROVE  DerivedInvariant'
<1> USE DerivedAssumption DEF DerivedInvariant, TypeOK, Delete, Wrappers
<1>1. FreeBegins(p)
  BY DEF FreeBegins, Frees
<1>2. ASSUME NEW v \in Wrappers PROVE MemoryAsFreed(v)'
  BY DEF MemoryAsFreed
<1>3. ASSUME NEW c \in Children PROVE ParentIsInUse(c)'
  BY DEF ParentIsInUse, InUse
<1>4. QED
  BY <1>1, <1>2, <1>3, FreeKeepsTypes, ObjectsAfterFree

LEMMA FreeMemoryPreserves ==
  ASSUME DerivedInvariant, NEW w \in Wrappers, FreeMemory(w)
  PROVE  DerivedInvariant'
<1> USE DerivedAssumption DEF DerivedInvariant, TypeOK, FreeMemory, Wrappers
<1>1. TypeOK'
  BY DEF Lives
<1>2. ASSUME NEW v \in Wrappers PROVE ObjectAsFreed(v)'
  BY ObjectsStay DEF FreeRan
<1>3. ASSUME NEW v \in Wrappers PROVE MemoryAsFreed(v)'
  <2>1. CASE v = w
    <3>1. life'[w] = "cleaned" /\ memFreed'[w] = (w \notin Disowned)
      OBVIOUS
    <3>2. QED
      BY <2>1, <3>1 DEF MemoryAsFreed
  <2>2. CASE v # w
    <3>1. life'[v] = life[v] /\ memFreed'[v] = memFreed[v]
      BY <2>2
    <3>2. MemoryAsFreed(v)
      OBVIOUS
    <3>3. QED
      BY <3>1, <3>2 DEF MemoryAsFreed
  <2>3. QED
    BY <2>1, <2>2
<1>4. ASSUME NEW c \in Children PROVE ParentIsInUse(c)'
  BY DEF ParentIsInUse, InUse
<1>5. QED
  BY <1>1, <1>2, <1>3, <1>4

LEMMA DeleteMemoryPreserves ==
  ASSUME DerivedInvariant, NEW p \in Parents, DeleteMemory(p)
  PROVE  DerivedInvariant'
<1> USE DerivedAssumption DEF DerivedInvariant, TypeOK, DeleteMemory, Wrappers
<1>1. TypeOK'
  BY DEF Lives, InUse
<1>2. ASSUME NEW v \in Wrappers PROVE ObjectAsFreed(v)'
  BY ObjectsStay DEF FreeRan
<1>3. ASSUME NEW v \in Wrappers PROVE MemoryAsFreed(v)'
  BY DEF MemoryAsFreed
<1>4. ASSUME NEW c \in Children PROVE ParentIsInUse(c)'
  BY DEF ParentIsInUse, InUse
<1>5. QED
  BY <1>1, <1>2, <1>3, <1>4

LEMMA NextPreserves ==
  ASSUME DerivedInvariant, [Next]_vars
  PROVE  DerivedInvariant'
<1>1. CASE UNCHANGED vars
  <2>1. life' = life /\ object' = object /\ memFreed' = memFreed /\ stale' = stale
    BY <1>1 DEF vars
  <2>2. ASSUME NEW v \in Wrappers PROVE ObjectAsFreed(v)'
    BY <2>1, ObjectsStay DEF FreeRan
  <2>3. QED
    BY <2>1, <2>2 DEF DerivedInvariant, TypeOK, MemoryAsFreed, ParentIsInUse
<1>2. CASE Next
  BY <1>2, ConstructPreserves, FinishPreserves, GiveUpPreserves, MutatePreserves,
     DeletePreserves, DeleteMemoryPreserves, DerivePreserves, DropPreserves,
     FreeObjectPreserves, FreeMemoryPreserves DEF Next
<1>3. QED
  BY <1>1, <1>2

\* In every program an object is corrupt exactly when a wrapper that borrowed
\* it was freed with the free function of its class (TreeEntry of a Tree,
\* Signature of a Commit), and otherwise released exactly when its own wrapper
\* was freed or deleted.  No class is assumed to be disciplined.
THEOREM DerivedIsInvariant == Spec => []DerivedInvariant
BY InitEstablishes, NextPreserves, PTL DEF Spec

-----------------------------------------------------------------------------
\* What the invariant says of an object that only its own wrapper frees.
FollowsLife(w) ==
    object[w] = IF w \notin Owners \/ life[w] = "unborn" THEN "none"
                ELSE IF FreeRan(w) THEN "released" ELSE "owned"

LEMMA ResourceFollowsLife ==
  ASSUME DerivedInvariant, NEW w \in Resources
  PROVE  /\ w \in Wrappers /\ w \notin Disowned /\ OwnerOf(w) = w
         /\ FollowsLife(w) /\ MemoryAsFreed(w)
<1> USE DerivedAssumption DEF Resources, FreesAlone
<1>1. w \in Wrappers /\ w \notin Disowned /\ OwnerOf(w) = w
  BY DEF Wrappers, OwnerOf, Borrowed
<1>2. w \in Owners => Frees(w)
  BY DEF Owners, Frees
<1>3. ~FreedByBorrower(w)
  BY DEF FreedByBorrower
<1>4. ObjectAsFreed(w) /\ MemoryAsFreed(w)
  BY <1>1 DEF DerivedInvariant
<1>5. QED
  BY <1>1, <1>2, <1>3, <1>4 DEF ObjectAsFreed, FollowsLife

\* No disciplined wrapper the application holds leads to something that is
\* gone (RawWrapperBase.kt:8-15).
THEOREM DisciplinedHandlesAreAlive == Spec => []DisciplinedHandleIsAlive
<1> USE DerivedAssumption
<1>1. DerivedInvariant => DisciplinedHandleIsAlive
  <2> SUFFICES ASSUME DerivedInvariant, NEW w \in Parents \cup Lazy,
                      life[w] = "held", w \notin Disowned, Disciplined(w)
               PROVE  TargetIsAlive(w)
    BY DEF DisciplinedHandleIsAlive
  <2> USE DEF DerivedInvariant
  <2>1. ASSUME NEW v \in Resources, life[v] \in {"building", "held"} PROVE IsThere(v)
    BY <2>1, ResourceFollowsLife DEF FollowsLife, MemoryAsFreed, FreeRan, IsThere
  <2>2. CASE w \in Parents
    <3>1. OwnerOf(w) = w /\ w \notin Backed /\ w \notin stale
      BY <2>2 DEF OwnerOf, Borrowed, TypeOK
    <3>2. w \in Resources
      BY <3>1 DEF Disciplined
    <3>3. QED
      BY <2>1, <3>1, <3>2 DEF TargetIsAlive
  <2>3. CASE w \in Lazy
    <3>1. BorrowsSafely(w)
      BY <2>3 DEF Disciplined
    <3>2. ASSUME w \in Borrowed \cup Backed PROVE IsThere(ParentOf[w])
      <4>1. life[ParentOf[w]] \in {"building", "held"}
        BY <2>3, <3>1, <3>2 DEF BorrowsSafely, ParentIsInUse, InUse, Wrappers
      <4>2. ParentOf[w] \in Resources
        BY <3>2 DEF Disciplined, OwnerOf
      <4>3. QED
        BY <2>1, <4>1, <4>2
    <3>3. ASSUME w \in Own PROVE IsThere(w)
      <4>1. w \in Resources
        BY <3>3 DEF Disciplined, OwnerOf, Borrowed
      <4>2. QED
        BY <2>1, <4>1
    <3>4. w \notin stale
      BY <2>3, <3>1 DEF BorrowsSafely, TypeOK, Borrowed
    <3>5. IsThere(OwnerOf(w))
      BY <2>3, <3>2, <3>3 DEF OwnerOf, Borrowed
    <3>6. QED
      BY <3>2, <3>4, <3>5 DEF TargetIsAlive
  <2>4. QED
    BY <2>2, <2>3
<1>2. QED
  BY <1>1, DerivedIsInvariant, PTL

-----------------------------------------------------------------------------
(* Implementation of OwnedResource                                         *)

LEMMA OneAdvances ==
  ASSUME NEW h \in Resources, NEW from, NEW to,
         PhaseOf(h) \in from, PhaseOf(h)' = to,
         \A g \in Resources : g # h => PhaseOf(g)' = PhaseOf(g)
  PROVE  Resource!Advance(h, from, to)
BY DEF ResourcePhase, Resource!Advance

LEMMA NoneAdvances ==
  ASSUME \A g \in Resources : PhaseOf(g)' = PhaseOf(g)
  PROVE  UNCHANGED ResourcePhase
BY DEF ResourcePhase

\* Making a wrapper acquires its object or opens the region of a structure.
LEMMA MakeRefines ==
  ASSUME DerivedInvariant, NEW w \in Wrappers, NEW stage \in {"building", "held"},
         Make(w, stage)
  PROVE  [Resource!Next]_ResourcePhase
<1> USE DerivedAssumption DEF DerivedInvariant, TypeOK, Make, PhaseOf, Resources, Wrappers
<1>1. \A g \in Resources : g # w => PhaseOf(g)' = PhaseOf(g)
  OBVIOUS
<1>2. CASE w \in Resources /\ w \in Owners
  <2>1. PhaseOf(w) = "absent" /\ PhaseOf(w)' = "held"
    BY <1>2, ResourceFollowsLife DEF ObjectOf, FollowsLife, MemoryAsFreed
  <2>2. QED
    BY <1>1, <1>2, <2>1, OneAdvances DEF Resource!Next, Resource!Acquire
<1>3. CASE w \in Resources /\ w \notin Owners
  <2>1. PhaseOf(w) = "absent" /\ PhaseOf(w)' = "open"
    BY <1>3, ResourceFollowsLife DEF ObjectOf, FollowsLife, MemoryAsFreed
  <2>2. QED
    BY <1>1, <1>3, <2>1, OneAdvances DEF Resource!Next, Resource!Open
<1>4. CASE w \notin Resources
  BY <1>1, <1>4, NoneAdvances
<1>5. QED
  BY <1>2, <1>3, <1>4

\* The application's other steps move no resource.
LEMMA OthersRefine ==
  ASSUME DerivedInvariant,
         \/ UNCHANGED vars
         \/ \E p \in Parents : Finish(p) \/ GiveUp(p) \/ Mutate(p)
         \/ \E w \in Wrappers : Drop(w)
  PROVE  UNCHANGED ResourcePhase
<1> USE DerivedAssumption DEF DerivedInvariant, TypeOK, Wrappers
<1>1. object' = object /\ memFreed' = memFreed
  BY DEF vars, Finish, GiveUp, Mutate, Drop
<1>2. \A g \in Wrappers : life[g]' = "unborn" <=> life[g] = "unborn"
  BY DEF vars, Finish, GiveUp, Mutate, Drop
<1>3. \A g \in Resources : PhaseOf(g)' = PhaseOf(g)
  BY <1>1, <1>2 DEF PhaseOf, Resources
<1>4. QED
  BY <1>3, NoneAdvances

\* The free function of a wrapper leaves the objects of other resources alone.
LEMMA FreesNoOther ==
  ASSUME DerivedInvariant, NEW w \in Wrappers, FreeBegins(w), NEW v \in Resources, v # w
  PROVE  object'[v] = object[v]
<1>1. v \in Wrappers /\ object \in [Wrappers -> ObjectStates]
  BY ResourceFollowsLife DEF DerivedInvariant, TypeOK
<1>2. CASE Frees(w)
  <2>1. OwnerOf(w) # v
    BY <1>2, DerivedAssumption
       DEF Resources, FreesAlone, ChildrenOf, Frees, Wrappers, OwnerOf, Borrowed
  <2>2. QED
    BY <1>1, <1>2, <2>1 DEF FreeBegins, CFree
<1>3. CASE ~Frees(w)
  BY <1>3 DEF FreeBegins
<1>4. QED
  BY <1>2, <1>3

\* Raw.free releases the object of the resource it belongs to, or none.
LEMMA FreeBeginsRefines ==
  ASSUME DerivedInvariant, NEW w \in Wrappers, FreeBegins(w), memFreed' = memFreed
  PROVE  [Resource!Next]_ResourcePhase
<1>1. \A g \in Resources : PhaseOf(g)' = PhaseOf(g) \/ g = w
  <2> SUFFICES ASSUME NEW g \in Resources, g # w PROVE PhaseOf(g)' = PhaseOf(g)
    OBVIOUS
  <2>1. object'[g] = object[g]
    BY FreesNoOther
  <2>2. life'[g] = life[g]
    BY ResourceFollowsLife DEF FreeBegins, DerivedInvariant, TypeOK
  <2>3. QED
    BY <2>1, <2>2 DEF PhaseOf
<1>2. CASE w \in Resources
  <2>1. /\ life[w] \in {"held", "garbage"} /\ life'[w] \in {"freeing", "deleting"}
        /\ ~memFreed[w] /\ ~memFreed'[w]
    BY <1>2, ResourceFollowsLife DEF FreeBegins, DerivedInvariant, TypeOK, MemoryAsFreed
  <2>2. FollowsLife(w)'
    <3>1. DerivedInvariant => ~FreedByBorrower(w)' /\ ObjectAsFreed(w)'
      BY <1>2, ResourceFollowsLife, ObjectsAfterFree
         DEF Resources, FreesAlone, FreedByBorrower
    <3>2. w \in Owners => Frees(w)
      BY <1>2, DerivedAssumption DEF Resources, FreesAlone, Owners, Frees
    <3>3. QED
      BY <3>1, <3>2 DEF ObjectAsFreed, FollowsLife
  <2>3. FollowsLife(w)
    BY <1>2, ResourceFollowsLife
  <2>4. CASE w \in Owners
    <3>1. PhaseOf(w) = "held" /\ PhaseOf(w)' = "released"
      BY <2>1, <2>2, <2>3, <2>4 DEF FollowsLife, FreeRan, PhaseOf
    <3>2. QED
      BY <1>1, <1>2, <3>1, OneAdvances DEF Resource!Next, Resource!Release
  <2>5. CASE w \notin Owners
    <3>1. PhaseOf(w)' = PhaseOf(w)
      BY <2>1, <2>2, <2>3, <2>5 DEF FollowsLife, PhaseOf
    <3>2. QED
      BY <1>1, <3>1, NoneAdvances
  <2>6. QED
    BY <2>4, <2>5
<1>3. CASE w \notin Resources
  BY <1>1, <1>3, NoneAdvances
<1>4. QED
  BY <1>2, <1>3

LEMMA FreeObjectRefines ==
  ASSUME DerivedInvariant, NEW w \in Wrappers, FreeObject(w)
  PROVE  [Resource!Next]_ResourcePhase
BY FreeBeginsRefines DEF FreeObject, FreeBegins

LEMMA DeleteRefines ==
  ASSUME DerivedInvariant, NEW p \in Parents, Delete(p)
  PROVE  [Resource!Next]_ResourcePhase
BY FreeBeginsRefines, DerivedAssumption DEF Delete, FreeBegins, Frees, Wrappers

\* The memory of a resource goes last.
LEMMA MemoryRefines ==
  ASSUME DerivedInvariant, NEW w \in Wrappers, FreeMemory(w) \/ DeleteMemory(w)
  PROVE  [Resource!Next]_ResourcePhase
<1> USE DEF DerivedInvariant, TypeOK, FreeMemory, DeleteMemory, PhaseOf
<1>1. \A g \in Resources : g # w => PhaseOf(g)' = PhaseOf(g)
  BY ResourceFollowsLife
<1>2. CASE w \in Resources
  <2>1. w \notin Disowned /\ FollowsLife(w) /\ MemoryAsFreed(w)
    BY <1>2, ResourceFollowsLife
  <2>2. /\ life[w] \in {"freeing", "deleting"} /\ life'[w] \in {"cleaned", "deleted"}
        /\ object'[w] = object[w] /\ memFreed'[w]
    BY <2>1
  <2>3. object[w] \in {"none", "released"} /\ ~memFreed[w]
    BY <2>1, <2>2 DEF FollowsLife, FreeRan, MemoryAsFreed
  <2>4. PhaseOf(w) \in {"open", "released"} /\ PhaseOf(w)' = "reclaimed"
    BY <2>2, <2>3
  <2>5. QED
    BY <1>1, <1>2, <2>4, OneAdvances DEF Resource!Next, Resource!Reclaim
<1>3. CASE w \notin Resources
  BY <1>1, <1>3, NoneAdvances
<1>4. QED
  BY <1>2, <1>3

LEMMA NextRefines ==
  ASSUME DerivedInvariant, [Next]_vars
  PROVE  [Resource!Next]_ResourcePhase
<1>1. ASSUME NEW p \in Parents, Construct(p) PROVE [Resource!Next]_ResourcePhase
  BY <1>1, MakeRefines DEF Construct, Wrappers
<1>2. ASSUME NEW c \in Children, Derive(c) PROVE [Resource!Next]_ResourcePhase
  BY <1>2, MakeRefines DEF Derive, Wrappers
<1>3. ASSUME NEW p \in Parents, DeleteMemory(p) PROVE [Resource!Next]_ResourcePhase
  BY <1>3, MemoryRefines DEF Wrappers
<1>4. ASSUME NEW w \in Wrappers, FreeMemory(w) PROVE [Resource!Next]_ResourcePhase
  BY <1>4, MemoryRefines
<1>5. CASE \/ UNCHANGED vars
           \/ \E p \in Parents : Finish(p) \/ GiveUp(p) \/ Mutate(p)
           \/ \E w \in Wrappers : Drop(w)
  BY <1>5, OthersRefine
<1>6. QED
  BY <1>1, <1>2, <1>3, <1>4, <1>5, DeleteRefines, FreeObjectRefines DEF Next

\* Every such object is freed by the wrapper that owns it, once, and its memory
\* after it, in whatever order parents and children are cleaned.
THEOREM DerivedImplementResource == Spec => ImplementsResource
<1>1. Init => Resource!Init
  BY DerivedAssumption DEF Init, Resource!Init, ResourcePhase, PhaseOf, Resources, Wrappers
<1>2. DerivedInvariant /\ [Next]_vars => [Resource!Next]_ResourcePhase
  BY NextRefines
<1>3. QED
  BY <1>1, <1>2, DerivedIsInvariant, PTL DEF Spec, ImplementsResource, Resource!Spec
=============================================================================
