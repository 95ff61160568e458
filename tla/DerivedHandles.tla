---------------------------- MODULE DerivedHandles ----------------------------
(***************************************************************************)
(* Wrappers that are made from another wrapper: entries of trees, indexes  *)
(* and reflogs, ids and signatures of commits, iterators, options inside   *)
(* options.  RawLifetime is about one handle; here are two that point into *)
(* the same C object.                                                      *)
(*                                                                         *)
(* A parent owns a C object, or is a structure in its arena.  A child has  *)
(* an object of its own, which C made for it, or borrows: its pointer      *)
(* leads into the object or into the structure of its parent.  The binding *)
(* wraps both alike, XxxRaw(Memory(), pointer), and frees what became      *)
(* garbage in any order, with the free function of the child's class, if   *)
(* that class declares one.                                                *)
(***************************************************************************)
EXTENDS Naturals, FiniteSets

CONSTANTS
    Parents,
    Structures, \* parents without a C object: options, RevSpec
    Children,
    ParentOf,   \* [Children -> Parents]
    Own,        \* C made an object for the child: resolve(), commit.tree
    Backed,     \* has an object that refers to the parent's: Commit, Tree
    Embedded,   \* a val of the parent, made by its constructor: commit.tree, id
    Freeing,    \* the child's class declares a C free function
    Disowned,   \* raw.move() right after construction: ConfigIterator
    Lazy,       \* keeps using the pointer, after construction
    Keeping,    \* refers to its parent: inner classes, InnerIterator
    Mutable,    \* parents with calls that replace what they contain
    Deletable   \* parents with a call that ends in raw.free(): Reference.delete

Wrappers == Parents \cup Children
Owners   == (Parents \ Structures) \cup Own
Borrowed == Children \ Own

ASSUME DerivedAssumption ==
    /\ Parents \cap Children = {}
    /\ ParentOf \in [Children -> Parents]
    /\ Structures \cup Mutable \subseteq Parents
    /\ Deletable \subseteq Parents \ Structures
    /\ Own \cup Embedded \cup Freeing \cup Disowned \subseteq Children
    /\ Lazy \cup Keeping \subseteq Children
    /\ Backed \subseteq Own

VARIABLES
    life,      \* construction, reachability and cleaning of each wrapper
    object,    \* the C object of an owner
    memFreed,  \* Memory.isFreed of each wrapper
    stale      \* borrowed children whose part of the parent was replaced

vars == <<life, object, memFreed, stale>>

\* A wrapper the application, or what it holds, refers to.
InUse == {"building", "held", "deleting", "deleted"}
Lives == InUse \cup {"unborn", "garbage", "freeing", "cleaned"}
ObjectStates == {"none", "owned", "released", "corrupt"}

TypeOK ==
    /\ life \in [Wrappers -> Lives]
    /\ object \in [Wrappers -> ObjectStates]
    /\ memFreed \in [Wrappers -> BOOLEAN]
    /\ stale \in SUBSET Borrowed

Init ==
    /\ life     = [w \in Wrappers |-> "unborn"]
    /\ object   = [w \in Wrappers |-> "none"]
    /\ memFreed = [w \in Wrappers |-> FALSE]
    /\ stale    = {}

ChildrenOf(p) == {c \in Children : ParentOf[c] = p}

-----------------------------------------------------------------------------
(* The application                                                         *)

\* The C object a wrapper acquires when it is made.
ObjectOf(w) == IF w \in Owners THEN "owned" ELSE "none"

Make(w, stage) ==
    /\ life[w] = "unborn"
    /\ life' = [life EXCEPT ![w] = stage]
    /\ object' = [object EXCEPT ![w] = ObjectOf(w)]
    /\ UNCHANGED <<memFreed, stale>>

Construct(p) == Make(p, "building")

\* A val of a parent under construction, or an operation of the parent that
\* answers a wrapper.
Derive(c) ==
    /\ life[ParentOf[c]] = IF c \in Embedded THEN "building" ELSE "held"
    /\ Make(c, "held")

\* The vals are initialised; some of them may be null.
Finish(p) ==
    /\ life[p] = "building"
    /\ life' = [life EXCEPT ![p] = "held"]
    /\ UNCHANGED <<object, memFreed, stale>>

\* The initialiser of a val threw: the wrapper, which has its cleaner already,
\* and the vals before are garbage.
GiveUp(p) ==
    /\ life[p] = "building"
    /\ life' = [w \in Wrappers |->
                   IF w = p \/ (w \in ChildrenOf(p) /\ life[w] = "held")
                   THEN "garbage" ELSE life[w]]
    /\ UNCHANGED <<object, memFreed, stale>>

\* A C call that replaces what the parent contains: the next entry of an
\* iterator, an entry removed from an index, a reflog or a tree builder.
Mutate(p) ==
    /\ p \in Mutable
    /\ life[p] = "held"
    /\ stale' = stale \cup {c \in ChildrenOf(p) \cap Borrowed : life[c] # "unborn"}
    /\ UNCHANGED <<life, object, memFreed>>

\* Mutated form of Holds: a nested class where the code has an inner one.
HoldsVals(v, w) ==
    /\ life[v] \in InUse
    /\ v \in Parents
    /\ w \in ChildrenOf(v) \cap Embedded

\* What keeps a wrapper from becoming garbage besides the application.
Holds(v, w) ==
    /\ life[v] \in InUse
    /\ \/ v \in Keeping /\ w = ParentOf[v]
       \/ v \in Parents /\ w \in ChildrenOf(v) \cap Embedded

\* The application drops its last reference.  The cleaner of a wrapper that
\* was deleted finds the flag set and does nothing.
Drop(w) ==
    /\ life[w] \in {"held", "deleted"}
    /\ ~ \E v \in Wrappers : Holds(v, w)
    /\ life' = [life EXCEPT ![w] = IF @ = "held" THEN "garbage" ELSE "cleaned"]
    /\ UNCHANGED <<object, memFreed, stale>>

-----------------------------------------------------------------------------
(* Raw.free, of any wrapper that is still held by the application, and of  *)
(* one garbage wrapper at a time by the cleaner worker                     *)

\* Mutated form of Frees: nobody called move().
FreesRegardless(w) == w \in (Parents \ Structures) \cup Freeing

\* Mutated form of Frees: every derived wrapper is moved.
FreesParentsOnly(w) == w \in Parents \ Structures

\* Whether freed.compareAndSet wins and the class has something to free.
Frees(w) == w \in (Parents \ Structures) \cup (Freeing \ Disowned)

\* The owner of what the wrapper's pointer leads to.
OwnerOf(w) == IF w \in Borrowed THEN ParentOf[w] ELSE w

\* The C free function: of the owner's object as a whole, once, or of a part
\* of it, which the owner is going to free again or has freed already.
CFree(w) ==
    object' = [object EXCEPT ![OwnerOf(w)] =
                  IF w \in Owners /\ @ = "owned" THEN "released" ELSE "corrupt"]

FreeObject(w) ==
    /\ life[w] = "garbage"
    /\ \A v \in Wrappers : life[v] # "freeing"
    /\ life' = [life EXCEPT ![w] = "freeing"]
    /\ IF Frees(w) THEN CFree(w) ELSE UNCHANGED object
    /\ UNCHANGED <<memFreed, stale>>

\* After move() the whole of Raw.free is skipped, the memory included.
FreeMemory(w) ==
    /\ life[w] = "freeing"
    /\ life' = [life EXCEPT ![w] = "cleaned"]
    /\ memFreed' = [memFreed EXCEPT ![w] = w \notin Disowned]
    /\ UNCHANGED <<object, stale>>

\* Reference.delete(): git_reference_delete, then raw.free().
Delete(p) ==
    /\ p \in Deletable
    /\ life[p] = "held"
    /\ life' = [life EXCEPT ![p] = "deleting"]
    /\ CFree(p)
    /\ UNCHANGED <<memFreed, stale>>

DeleteMemory(p) ==
    /\ life[p] = "deleting"
    /\ life' = [life EXCEPT ![p] = "deleted"]
    /\ memFreed' = [memFreed EXCEPT ![p] = TRUE]
    /\ UNCHANGED <<object, stale>>

-----------------------------------------------------------------------------
Next ==
    \/ \E p \in Parents :
          \/ Construct(p) \/ Finish(p) \/ GiveUp(p)
          \/ Mutate(p) \/ Delete(p) \/ DeleteMemory(p)
    \/ \E c \in Children : Derive(c)
    \/ \E w \in Wrappers : Drop(w) \/ FreeObject(w) \/ FreeMemory(w)

Spec == Init /\ [][Next]_vars

\* The runtime keeps collecting garbage; the application owes nothing.
FairSpec == Spec /\ \A w \in Wrappers : WF_vars(FreeObject(w)) /\ WF_vars(FreeMemory(w))

-----------------------------------------------------------------------------
(* Properties                                                              *)

\* What the pointer of a wrapper leads to.
IsThere(w) == IF w \in Owners THEN object[w] = "owned" ELSE ~memFreed[w]

TargetIsAlive(w) ==
    /\ IsThere(OwnerOf(w))
    /\ w \in Backed => IsThere(ParentOf[w])
    /\ w \notin stale

\* RawWrapperBase.kt:10-11 answers a freed object with "This object has been
\* freed".  A held wrapper whose flag is not set is not answered so: what its
\* pointer leads to must be there.
HeldHandleIsAlive ==
    \A w \in Parents \cup Lazy :
        life[w] = "held" /\ w \notin Disowned => TargetIsAlive(w)

\* An owner's own wrapper frees its object, and no child that only points
\* into it does.
FreesAlone(w) ==
    /\ w \in Own => w \in Freeing \ Disowned
    /\ ChildrenOf(w) \cap Borrowed \cap (Freeing \ Disowned) = {}

\* What has an owner that can be relied on.
Resources == {w \in Parents \cup Own : FreesAlone(w)}

\* A child that goes on using its parent keeps it, and the parent neither
\* goes before it is garbage nor replaces what the child points to.
BorrowsSafely(c) ==
    /\ c \in Borrowed \cup Backed => c \in Keeping /\ ParentOf[c] \notin Deletable
    /\ c \in Borrowed => ParentOf[c] \notin Mutable

Disciplined(w) ==
    /\ OwnerOf(w) \in Resources
    /\ w \in Backed => ParentOf[w] \in Resources
    /\ w \in Lazy => BorrowsSafely(w)

\* One class that frees or uses what it should not does no harm beyond the
\* objects it points into: every held wrapper that is disciplined itself
\* leads to something that is there (RawWrapperBase.kt:8-15).
DisciplinedHandleIsAlive ==
    \A w \in Parents \cup Lazy :
        life[w] = "held" /\ w \notin Disowned /\ Disciplined(w) => TargetIsAlive(w)

\* Every such object is released in the end, once the owner's wrapper is
\* garbage, however many children were made from it.
GarbageIsReleased ==
    \A w \in Owners \cap Resources : life[w] = "garbage" ~> object[w] # "owned"

\* Resources as a client of the C library sees them.
PhaseOf(w) ==
    IF life[w] = "unborn" THEN "absent"
    ELSE IF object[w] = "corrupt" THEN "corrupt"
    ELSE IF object[w] = "owned" THEN (IF memFreed[w] THEN "dangling" ELSE "held")
    ELSE IF memFreed[w] THEN "reclaimed"
    ELSE IF object[w] = "released" THEN "released" ELSE "open"

ResourcePhase == [w \in Resources |-> PhaseOf(w)]

Resource == INSTANCE OwnedResource WITH Handles <- Resources, phase <- ResourcePhase

\* Each such object is freed by the wrapper that owns it, once, and its memory
\* after it, whatever the order in which parents and children are cleaned.
ImplementsResource == Resource!Spec

-----------------------------------------------------------------------------
(* The inductive strengthening                                             *)

\* Raw.free has got past its compare-and-set.
FreeRan(w) == life[w] \in {"freeing", "cleaned", "deleting", "deleted"}

\* A wrapper that borrowed from w and frees nevertheless has done so.
FreedByBorrower(w) ==
    \E c \in ChildrenOf(w) \cap Borrowed \cap (Freeing \ Disowned) : FreeRan(c)

\* What every object comes to, as the lives of the wrappers tell: corrupt
\* exactly when a borrower freed it (TreeEntry of a Tree, Signature of a
\* Commit), whether before or after its owner did; otherwise released exactly
\* when its own wrapper freed it.
ObjectAsFreed(w) ==
    object[w] = IF FreedByBorrower(w) THEN "corrupt"
                ELSE IF w \notin Owners \/ life[w] = "unborn" THEN "none"
                ELSE IF FreeRan(w) /\ Frees(w) THEN "released" ELSE "owned"

MemoryAsFreed(w) ==
    memFreed[w] <=> life[w] \in {"cleaned", "deleted"} /\ w \notin Disowned

\* A child that keeps its parent finds it in use.
ParentIsInUse(c) ==
    /\ life[c] # "unborn" => life[ParentOf[c]] # "unborn"
    /\ life[c] = "held" /\ c \in Keeping => life[ParentOf[c]] \in InUse

DerivedInvariant ==
    /\ TypeOK
    /\ \A w \in Wrappers : ObjectAsFreed(w) /\ MemoryAsFreed(w)
    /\ \A w \in Wrappers : life[w] \in {"deleting", "deleted"} => w \in Deletable
    /\ \A c \in Children : ParentIsInUse(c)
    /\ \A c \in stale : ParentOf[c] \in Mutable
=============================================================================
