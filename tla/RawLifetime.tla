----------------------------- MODULE RawLifetime -----------------------------
(***************************************************************************)
(* The life of one native handle: memory/Raw.kt, common/memory/Memory.kt,  *)
(* memory/RawWrapper(Base).kt, memory/CallbackAble.kt and the XxxRaw       *)
(* classes generated from raw-declare.ftl.                                 *)
(*                                                                         *)
(* Application threads construct wrappers, call C functions through them,  *)
(* close them and convert them; the cleaner worker of the Kotlin/Native    *)
(* runtime frees what became garbage.  A handle stands for a wrapper, its  *)
(* Raw, its Memory and the C object behind its pointer.  Each step that    *)
(* another thread can observe is an action of its own.                     *)
(***************************************************************************)
EXTENDS Naturals, FiniteSets

CONSTANTS
    Handles,        \* the wrappers a run may create
    Owning,         \* those whose class declares a C free function
    Closeable,      \* those with an operation that ends in raw.free()
    Convertible,    \* those with an operation that calls raw.move()
    Threads,        \* application threads
    CleanerWorker,  \* the runtime's thread that runs cleaners
    NoHandle        \* "this actor is inside no operation"

ASSUME LifetimeAssumption ==
    /\ Owning \cup Closeable \cup Convertible \subseteq Handles
    /\ CleanerWorker \notin Threads
    /\ NoHandle \notin Handles

VARIABLES
    life,      \* construction and reachability of the Kotlin wrapper
    freed,     \* Raw.freed
    moved,     \* history: handles whose freed flag was set by Raw.move
    cobj,      \* the C object the wrapper owns
    arena,     \* Memory.arena, lazily created
    memFreed,  \* Memory.isFreed
    cleaners,  \* cleaners attached to the wrapper that have not run
    pc,        \* the step each actor is at
    target,    \* the handle it is working on
    outcome    \* how each thread's last operation ended

vars == <<life, freed, moved, cobj, arena, memFreed, cleaners, pc, target, outcome>>

Actors == Threads \cup {CleanerWorker}

ConstructSteps == {"initial", "onFailure", "onFailureMemory"}
UseSteps       == {"checked", "calling"}
FreeSteps      == {"free", "beforeFree", "memoryFree"}
MoveSteps      == {"move", "afterMove"}
Steps          == ConstructSteps \cup UseSteps \cup FreeSteps \cup MoveSteps

Lives    == {"unborn", "building", "reachable", "garbage", "failed", "nullFailed"}
Outcomes == {"ok", "threw", "freedError", "closeFreedError"}

TypeOK ==
    /\ life \in [Handles -> Lives]
    /\ freed \in [Handles -> BOOLEAN]
    /\ moved \in SUBSET Handles
    /\ cobj \in [Handles -> {"none", "owned", "released", "corrupt"}]
    /\ arena \in [Handles -> {"none", "live", "cleared"}]
    /\ memFreed \in [Handles -> BOOLEAN]
    /\ cleaners \in [Handles -> SUBSET {"base", "override"}]
    /\ pc \in [Actors -> Steps \cup {"idle"}]
    /\ target \in [Actors -> Handles \cup {NoHandle}]
    /\ outcome \in [Threads -> Outcomes]

Init ==
    /\ life     = [h \in Handles |-> "unborn"]
    /\ freed    = [h \in Handles |-> FALSE]
    /\ moved    = {}
    /\ cobj     = [h \in Handles |-> "none"]
    /\ arena    = [h \in Handles |-> "none"]
    /\ memFreed = [h \in Handles |-> FALSE]
    /\ cleaners = [h \in Handles |-> {}]
    /\ pc       = [a \in Actors |-> "idle"]
    /\ target   = [a \in Actors |-> NoHandle]
    /\ outcome  = [t \in Threads |-> "ok"]

-----------------------------------------------------------------------------
(* Control points                                                          *)

Idle(a) == pc[a] = "idle"

At(a, h, step) == pc[a] = step /\ target[a] = h

Goto(a, h, step) ==
    /\ pc' = [pc EXCEPT ![a] = step]
    /\ target' = [target EXCEPT ![a] = h]

\* The actor's operation is over.
Leave(a) == Goto(a, NoHandle, "idle")

Return(t, result) == Leave(t) /\ outcome' = [outcome EXCEPT ![t] = result]

-----------------------------------------------------------------------------
(* What the C side and the arena do                                        *)

\* git_xxx_free(pointer): a null pointer is accepted, a pointer to an object
\* that is already gone corrupts the heap.
CFree(state) ==
    IF state = "none" THEN "none"
    ELSE IF state = "owned" THEN "released" ELSE "corrupt"

CObjectOf(h) == IF h \in Owning THEN "owned" ELSE "none"

\* Memory.alloc: creates the arena when it is absent or was cleared; the
\* flag isFreed is not consulted.
Alloc(h) == arena' = [arena EXCEPT ![h] = "live"]

\* Mutated form of FreeMemory: arenaInitialized is never seen set.
FreeMemoryKeepsArena(h) ==
    /\ memFreed' = [memFreed EXCEPT ![h] = TRUE]
    /\ UNCHANGED arena

\* Memory.free: the first caller clears the arena, if there is one.
FreeMemory(h) ==
    /\ memFreed' = [memFreed EXCEPT ![h] = TRUE]
    /\ arena' = [arena EXCEPT ![h] =
                    IF ~memFreed[h] /\ @ = "live" THEN "cleared" ELSE @]

\* What a C call through this handle may still touch.
Usable(h) == IF h \in Owning THEN cobj[h] = "owned" ELSE ~memFreed[h]

-----------------------------------------------------------------------------
(* Construction                                                            *)

\* XxxRaw(memory = Memory(), secondary = memory.allocPointerTo(), initial):
\* the default arguments allocate before the initial block runs.
BeginConstruct(t, h) ==
    /\ Idle(t)
    /\ life[h] = "unborn"
    /\ life' = [life EXCEPT ![h] = "building"]
    /\ Alloc(h)
    /\ Goto(t, h, "initial")
    /\ UNCHANGED <<freed, moved, cobj, memFreed, cleaners, outcome>>

\* Mutated form of Attach: an override that forgets to attach a cleaner.
AttachNothing(h) == cleaners' = [cleaners EXCEPT ![h] = {}]

\* RawWrapper attaches one cleaner; a class that overrides the property
\* attaches its own as well.
Attach(h) ==
    \E attached \in {{"base"}, {"base", "override"}} :
        cleaners' = [cleaners EXCEPT ![h] = attached]

\* The block stored the object and returned: the wrapper exists.
InitialSucceeds(t, h) ==
    /\ At(t, h, "initial")
    /\ life' = [life EXCEPT ![h] = "reachable"]
    /\ cobj' = [cobj EXCEPT ![h] = CObjectOf(h)]
    /\ Attach(h)
    /\ Return(t, "ok")
    /\ UNCHANGED <<freed, moved, arena, memFreed>>

\* The block threw, before or after the object was handed out.
InitialFails(t, h) ==
    /\ At(t, h, "initial")
    /\ \E state \in {"none", CObjectOf(h)} : cobj' = [cobj EXCEPT ![h] = state]
    /\ Goto(t, h, "onFailure")
    /\ UNCHANGED <<life, freed, moved, arena, memFreed, cleaners, outcome>>

\* The C function reported success and stored no object: value!! throws
\* outside the runCatching, so nothing is cleaned up.
InitialNull(t, h) ==
    /\ At(t, h, "initial")
    /\ h \in Owning
    /\ life' = [life EXCEPT ![h] = "nullFailed"]
    /\ Return(t, "threw")
    /\ UNCHANGED <<freed, moved, cobj, arena, memFreed, cleaners>>

\* Mutated form of FreeOnFailure: a free function without its onFailure call.
FreeNothingOnFailure(t, h) ==
    /\ At(t, h, "onFailure")
    /\ Goto(t, h, "onFailureMemory")
    /\ UNCHANGED <<life, freed, moved, cobj, arena, memFreed, cleaners, outcome>>

\* onFailure: the class's free function on whatever the pointer holds ...
FreeOnFailure(t, h) ==
    /\ At(t, h, "onFailure")
    /\ cobj' = [cobj EXCEPT ![h] = CFree(@)]
    /\ Goto(t, h, "onFailureMemory")
    /\ UNCHANGED <<life, freed, moved, arena, memFreed, cleaners, outcome>>

\* ... then memory.free(), and getOrThrow rethrows.
MemoryOnFailure(t, h) ==
    /\ At(t, h, "onFailureMemory")
    /\ FreeMemory(h)
    /\ life' = [life EXCEPT ![h] = "failed"]
    /\ Return(t, "threw")
    /\ UNCHANGED <<freed, moved, cobj, cleaners>>

\* XxxRaw(Memory(), pointer): wraps an object a C function returned; the
\* fresh Memory has no arena yet.
Adopt(t, h) ==
    /\ Idle(t)
    /\ life[h] = "unborn"
    /\ life' = [life EXCEPT ![h] = "reachable"]
    /\ cobj' = [cobj EXCEPT ![h] = CObjectOf(h)]
    /\ Attach(h)
    /\ outcome' = [outcome EXCEPT ![t] = "ok"]
    /\ UNCHANGED <<freed, moved, arena, memFreed, pc, target>>

-----------------------------------------------------------------------------
(* Operations on a constructed wrapper; each starts with the raw getter,   *)
(* which throws when the flag is set and otherwise hands out the pointer.  *)

GetRaw(t, h, step, error) ==
    /\ Idle(t)
    /\ life[h] = "reachable"
    /\ IF freed[h]
       THEN Return(t, error)
       ELSE Goto(t, h, step) /\ UNCHANGED outcome
    /\ UNCHANGED <<life, freed, moved, cobj, arena, memFreed, cleaners>>

BeginUse(t, h) == GetRaw(t, h, "checked", "freedError")

\* Arguments are copied into raw.memory by some operations, then C runs.
CallC(t, h) ==
    /\ At(t, h, "checked")
    /\ Goto(t, h, "calling")
    /\ Alloc(h) \/ UNCHANGED arena
    /\ UNCHANGED <<life, freed, moved, cobj, memFreed, cleaners, outcome>>

ReturnFromC(t, h) ==
    /\ At(t, h, "calling")
    /\ Return(t, "ok")
    /\ UNCHANGED <<life, freed, moved, cobj, arena, memFreed, cleaners>>

\* close(): raw.free()
BeginClose(t, h) == h \in Closeable /\ GetRaw(t, h, "free", "closeFreedError")

\* asObject(), peelToXxx(), asHostKey(): raw.move() and then raw again, for
\* the new wrapper's memory and handler.
BeginConvert(t, h) == h \in Convertible /\ GetRaw(t, h, "move", "freedError")

Move(t, h) ==
    /\ At(t, h, "move")
    /\ freed' = [freed EXCEPT ![h] = TRUE]
    /\ moved' = IF freed[h] THEN moved ELSE moved \cup {h}
    /\ Goto(t, h, "afterMove")
    /\ UNCHANGED <<life, cobj, arena, memFreed, cleaners, outcome>>

AfterMove(t, h) ==
    /\ At(t, h, "afterMove")
    /\ Return(t, IF freed[h] THEN "freedError" ELSE "ok")
    /\ UNCHANGED <<life, freed, moved, cobj, arena, memFreed, cleaners>>

-----------------------------------------------------------------------------
(* Raw.free, run by a closing thread or by the cleaner worker              *)

FreeReturns(a) ==
    /\ Leave(a)
    /\ outcome' = [t \in Threads |-> IF t = a THEN "ok" ELSE outcome[t]]

\* Mutated form of CasFreed: the flag is set and its old value ignored.
SetFreed(a, h) ==
    /\ At(a, h, "free")
    /\ freed' = [freed EXCEPT ![h] = TRUE]
    /\ Goto(a, h, "beforeFree")
    /\ UNCHANGED <<life, moved, cobj, arena, memFreed, cleaners, outcome>>

\* Mutated form of CasFreed: beforeFree was never installed.
CasFreedSkipsObject(a, h) ==
    /\ At(a, h, "free")
    /\ freed' = [freed EXCEPT ![h] = TRUE]
    /\ IF freed[h]
       THEN FreeReturns(a)
       ELSE Goto(a, h, "memoryFree") /\ UNCHANGED outcome
    /\ UNCHANGED <<life, moved, cobj, arena, memFreed, cleaners>>

\* freed.compareAndSet(false, true): the loser does nothing.
CasFreed(a, h) ==
    /\ At(a, h, "free")
    /\ freed' = [freed EXCEPT ![h] = TRUE]
    /\ IF freed[h]
       THEN FreeReturns(a)
       ELSE Goto(a, h, "beforeFree") /\ UNCHANGED outcome
    /\ UNCHANGED <<life, moved, cobj, arena, memFreed, cleaners>>

\* beforeFree?.invoke(): the class's free function, if it declares one.
BeforeFree(a, h) ==
    /\ At(a, h, "beforeFree")
    /\ cobj' = [cobj EXCEPT ![h] = CFree(@)]
    /\ Goto(a, h, "memoryFree")
    /\ UNCHANGED <<life, freed, moved, arena, memFreed, cleaners, outcome>>

MemoryFree(a, h) ==
    /\ At(a, h, "memoryFree")
    /\ FreeMemory(h)
    /\ FreeReturns(a)
    /\ UNCHANGED <<life, freed, moved, cobj, cleaners>>

-----------------------------------------------------------------------------
(* Garbage collection                                                      *)

\* Mutated form of Drop: a wrapper on a stack is collected.
DropWhileUsed(h) ==
    /\ life[h] = "reachable"
    /\ life' = [life EXCEPT ![h] = "garbage"]
    /\ UNCHANGED <<freed, moved, cobj, arena, memFreed, cleaners, pc, target, outcome>>

\* The application drops its last reference; a thread inside an operation
\* still holds the wrapper on its stack.
Drop(h) ==
    /\ life[h] = "reachable"
    /\ \A t \in Threads : target[t] # h
    /\ life' = [life EXCEPT ![h] = "garbage"]
    /\ UNCHANGED <<freed, moved, cobj, arena, memFreed, cleaners, pc, target, outcome>>

\* One worker runs the cleaners of garbage wrappers, each cleaner once, in
\* no particular order; every one of them ends in Raw.free.
RunCleaner(h) ==
    /\ Idle(CleanerWorker)
    /\ life[h] = "garbage"
    /\ \E c \in cleaners[h] : cleaners' = [cleaners EXCEPT ![h] = @ \ {c}]
    /\ Goto(CleanerWorker, h, "free")
    /\ UNCHANGED <<life, freed, moved, cobj, arena, memFreed, outcome>>

-----------------------------------------------------------------------------
Construct(t, h) ==
    \/ BeginConstruct(t, h)
    \/ InitialSucceeds(t, h)
    \/ InitialFails(t, h)
    \/ InitialNull(t, h)
    \/ FreeOnFailure(t, h)
    \/ MemoryOnFailure(t, h)
    \/ Adopt(t, h)

Operate(t, h) ==
    \/ BeginUse(t, h)
    \/ CallC(t, h)
    \/ ReturnFromC(t, h)
    \/ BeginClose(t, h)
    \/ BeginConvert(t, h)
    \/ Move(t, h)
    \/ AfterMove(t, h)

RawFree(a, h) == CasFreed(a, h) \/ BeforeFree(a, h) \/ MemoryFree(a, h)

Next ==
    \E h \in Handles :
        \/ \E t \in Threads : Construct(t, h) \/ Operate(t, h)
        \/ \E a \in Actors : RawFree(a, h)
        \/ Drop(h)
        \/ RunCleaner(h)

\* The runtime keeps collecting garbage and running cleaners; no thread is
\* obliged to finish, start or drop anything.
Fairness ==
    \A h \in Handles : WF_vars(RunCleaner(h)) /\ WF_vars(RawFree(CleanerWorker, h))

Spec == Init /\ [][Next]_vars

FairSpec == Spec /\ Fairness

-----------------------------------------------------------------------------
(* Properties                                                              *)

\* No C object is handed to its free function twice, and none that was never
\* acquired: close, both cleaners and a failed constructor together release
\* it at most once (Raw.kt:22-28).
NoInvalidFree == \A h \in Handles : cobj[h] # "corrupt"

\* The memory of a handle is freed only after its C object is: the free
\* functions read the handle that the arena stores (Raw.kt:25-26).
RegionOutlivesObject == \A h \in Handles : memFreed[h] => cobj[h] # "owned"

\* A constructor that rethrows a GitError leaves neither object nor memory
\* behind; one that fails on value!! leaves no object, and its arena for ever:
\* no wrapper exists whose cleaner would clear it (raw-declare.ftl:56-79).
WhatFailureLeaves ==
    \A h \in Handles :
        /\ life[h] = "failed" => cobj[h] # "owned" /\ arena[h] # "live" /\ memFreed[h]
        /\ life[h] = "nullFailed" => cobj[h] = "none" /\ arena[h] = "live" /\ ~memFreed[h]

\* One application thread; the cleaner worker still runs beside it.
SoleThread == \A s, t \in Threads : s = t

\* The check in the raw getter and the use of the pointer are two steps: it
\* takes a close() in another thread to come between them.
Undisturbed(h) == SoleThread \/ h \notin Closeable

\* While a thread is inside a C call, what the handle points to is alive: of
\* a class without close() whatever the other threads and the cleaner worker
\* do, of the others with one application thread (RawWrapperBase.kt:8-15).
NoUseAfterFree ==
    \A t \in Threads :
        pc[t] = "calling" /\ Undisturbed(target[t]) => Usable(target[t])

\* A garbage wrapper that was not moved is eventually released, whoever
\* closed it before, and its memory is freed (RawWrapper.kt:13).
GarbageIsReleased ==
    \A h \in Handles :
        (life[h] = "garbage" /\ h \notin moved) ~> (cobj[h] # "owned" /\ memFreed[h])

\* The arena does not outlive the wrapper either: where no close() comes
\* between check and use, nothing allocates in a Memory that was freed
\* (Memory.kt:15-25).
ArenaIsReclaimed ==
    \A h \in Handles :
        (life[h] = "garbage" /\ h \notin moved /\ Undisturbed(h)) ~> (arena[h] # "live")

\* Memory.alloc after Memory.free: it takes a close() between the check of
\* another thread and its call, and what is allocated then is cleared by no
\* later free, neither close nor cleaner (Memory.kt:15-25).
Revived(h) == memFreed[h] /\ arena[h] = "live"

RevivedArenaIsLost ==
    [][\A h \in Handles : Revived(h) => ~Undisturbed(h) /\ Revived(h)']_vars

\* RawWrapperBase.kt:11, "This object has been freed": whoever is told so is
\* told of an object whose C object is gone.
FreedErrorIsTruthful ==
    [][\A t \in Threads, h \in Handles :
          (target[t] = h /\ outcome'[t] = "freedError" /\ Idle(t)')
              => cobj[h] # "owned"]_vars

\* The wrapper as a resource: the phase an observer of the C library sees.
\* "corrupt" and "dangling" are no phases of the abstract resource.
PhaseOf(h) ==
    IF life[h] = "unborn" THEN "absent"
    ELSE IF cobj[h] = "corrupt" THEN "corrupt"
    ELSE IF cobj[h] = "owned" THEN (IF memFreed[h] THEN "dangling" ELSE "held")
    ELSE IF memFreed[h] THEN "reclaimed"
    ELSE IF cobj[h] = "released" THEN "released" ELSE "open"

ResourcePhase == [h \in Handles |-> PhaseOf(h)]

Resource == INSTANCE OwnedResource WITH phase <- ResourcePhase

\* Every behaviour of the handles is one of the abstract resource: acquired
\* once, released once, its region given back last.
ImplementsResource == Resource!Spec

-----------------------------------------------------------------------------
(* The inductive strengthening                                             *)

Born(h) == life[h] \in {"reachable", "garbage"}

\* Nothing exists before construction starts.
UnbornIsBlank(h) ==
    life[h] = "unborn" => ~freed[h] /\ ~memFreed[h] /\ cobj[h] = "none"

\* A wrapper that nobody freed still has its object and its memory.
UnfreedIsIntact(h) ==
    Born(h) /\ ~freed[h] => ~memFreed[h] /\ cobj[h] = CObjectOf(h)

\* What holds of its target at each control point of an actor.
ConstructState(a) ==
    /\ pc[a] \in ConstructSteps =>
         /\ target[a] \in Handles
         /\ a \in Threads
         /\ life[target[a]] = "building"
         /\ ~freed[target[a]] /\ ~memFreed[target[a]]
    /\ pc[a] = "initial"         => cobj[target[a]] = "none" /\ arena[target[a]] = "live"
    /\ pc[a] = "onFailure"       => cobj[target[a]] \in {"none", "owned"}
    /\ pc[a] = "onFailureMemory" => cobj[target[a]] \in {"none", "released"}

OperateState(a) ==
    /\ pc[a] \in UseSteps \cup FreeSteps \cup MoveSteps =>
         target[a] \in Handles /\ Born(target[a])
    /\ pc[a] = "beforeFree" =>
         /\ freed[target[a]] /\ ~memFreed[target[a]]
         /\ cobj[target[a]] = CObjectOf(target[a])
    /\ pc[a] = "memoryFree" =>
         /\ freed[target[a]] /\ ~memFreed[target[a]]
         /\ cobj[target[a]] \in {"none", "released"}

\* The steps at most one actor at a time can be in, for each handle.
ExclusiveSteps == ConstructSteps \cup {"beforeFree", "memoryFree"}

Exclusive ==
    \A a, b \in Actors :
        (pc[a] \in ExclusiveSteps /\ pc[b] \in ExclusiveSteps /\ target[a] = target[b])
            => a = b

LifetimeInvariant ==
    /\ TypeOK
    /\ \A h \in Handles : UnbornIsBlank(h) /\ UnfreedIsIntact(h)
    /\ \A a \in Actors : ConstructState(a) /\ OperateState(a)
    /\ Exclusive
    /\ NoInvalidFree
    /\ RegionOutlivesObject

-----------------------------------------------------------------------------
(* Who will release what is still held                                     *)

Freeing(a, h) == target[a] = h /\ pc[a] \in {"beforeFree", "memoryFree"}

\* As long as nobody freed it, a wrapper has a cleaner that will; once the
\* flag is set, the actor that set it is at work or has done it, or it was
\* Raw.move.
HasReleaser(h) ==
    Born(h) =>
        IF freed[h]
        THEN memFreed[h] \/ h \in moved \/ \E a \in Actors : Freeing(a, h)
        ELSE cleaners[h] # {} \/ At(CleanerWorker, h, "free")

\* What Raw.move took from the wrapper stays where it is: every later free
\* finds the flag set.
MovedIsKept(h) ==
    h \in moved =>
        /\ Born(h) /\ freed[h]
        /\ cobj[h] = CObjectOf(h) /\ ~memFreed[h]
        /\ \A a \in Actors : ~Freeing(a, h)

\* A conversion asks for raw again after move: the flag is set by then.
ConversionFindsFlag(t) == pc[t] = "afterMove" => freed[target[t]]

\* The safety side of GarbageIsReleased: at no moment is a C object or its
\* memory left behind without somebody whose next step leads to its release,
\* but for what move() took; and that is never released (Raw.kt:22-34).
ReleaseInvariant ==
    /\ \A h \in Handles : HasReleaser(h) /\ MovedIsKept(h)
    /\ \A t \in Threads : ConversionFindsFlag(t)
=============================================================================
