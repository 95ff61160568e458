--------------------------- MODULE CallbackLifetime ---------------------------
(***************************************************************************)
(* The payloads behind C callbacks: memory/CallbackAble.kt, the wrappers   *)
(* that implement it, and the calls that make a payload of their own       *)
(* (Tag.forEach, Odb.forEach, submodules(), ...).                          *)
(*                                                                         *)
(* C keeps an opaque pointer made by a StableRef.  A StableRef is a root   *)
(* of the garbage collector until it is disposed; asStableRef().get() of a *)
(* disposed one is an access to freed memory.  Most payloads are inner     *)
(* classes, so the payload refers to its wrapper: whether a wrapper can    *)
(* become garbage depends on a reference its own cleaner must dispose.     *)
(***************************************************************************)
EXTENDS Integers

CONSTANTS
    Wrappers,       \* wrappers that implement CallbackAble
    Capturing,      \* those whose payload is an inner class
    Disposing,      \* those that override the cleaner to dispose the reference
    Copied,         \* options whose struct a longer-lived C object copies
    Closing,        \* those with a close() that frees the C object
    Calls,          \* calls with a payload of their own
    DisposedAfter,  \* ... that dispose it after errorCheck()
    DisposedInside, \* ... that dispose it in the callback; the rest never do
    MaxItems        \* the items C iterates over in one call

ASSUME CallbackAssumption ==
    /\ Capturing \cup Disposing \cup Copied \cup Closing \subseteq Wrappers
    /\ Copied \subseteq Capturing
    /\ DisposedAfter \cup DisposedInside \subseteq Calls
    /\ DisposedAfter \cap DisposedInside = {}
    /\ Wrappers \cap Calls = {}
    /\ MaxItems \in Nat

VARIABLES
    ref,       \* the StableRef of each wrapper and call
    held,      \* wrappers the application refers to
    copies,    \* wrappers whose payload pointer a live C object has copied
    inside,    \* how C was entered with the wrapper's payload
    cleaners,  \* cleaners of each wrapper that have not run
    cstruct,   \* the wrapper's own C object or structure
    call,      \* progress of each call
    items      \* callbacks it has received

vars == <<ref, held, copies, inside, cleaners, cstruct, call, items>>

TypeOK ==
    /\ ref \in [Wrappers \cup Calls -> {"none", "live", "disposed", "corrupt"}]
    /\ held \in SUBSET Wrappers
    /\ copies \in SUBSET Copied
    /\ inside \in [Wrappers -> {"no", "direct", "copy"}]
    /\ cleaners \in [Wrappers -> SUBSET {"base", "override"}]
    /\ cstruct \in [Wrappers -> {"none", "live", "freed"}]
    /\ call \in [Calls -> {"idle", "running", "inCallback", "stopped", "ok", "threw"}]
    /\ items \in [Calls -> 0 .. MaxItems]

Init ==
    /\ ref      = [p \in Wrappers \cup Calls |-> "none"]
    /\ held     = {}
    /\ copies   = {}
    /\ inside   = [w \in Wrappers |-> "no"]
    /\ cleaners = [w \in Wrappers |-> {}]
    /\ cstruct  = [w \in Wrappers |-> "none"]
    /\ call     = [o \in Calls |-> "idle"]
    /\ items    = [o \in Calls |-> 0]

-----------------------------------------------------------------------------
\* StableRef.dispose(): a second time it releases what is not there.
Dispose(p) == ref' = [ref EXCEPT ![p] = IF @ = "live" THEN "disposed" ELSE "corrupt"]

\* Mutated form of Reachable: the payload class is not an inner class.
ReachableByApplication(w) == w \in held \/ inside[w] = "direct"

\* What the collector can still reach.  An inner-class payload holds its
\* wrapper, and a live StableRef holds the payload; a wrapper passed to the
\* C call in progress is on the caller's stack.
Reachable(w) ==
    \/ w \in held
    \/ inside[w] = "direct"
    \/ w \in Capturing /\ ref[w] = "live"

Constructed(w) == cstruct[w] # "none"

-----------------------------------------------------------------------------
(* Wrappers                                                                *)

\* Mutated form of Construct: the class keeps the inherited cleaner only.
ConstructWithBaseCleaner(w) ==
    /\ ~Constructed(w)
    /\ ref' = [ref EXCEPT ![w] = "live"]
    /\ cstruct' = [cstruct EXCEPT ![w] = "live"]
    /\ cleaners' = [cleaners EXCEPT ![w] = {"base"}]
    /\ held' = held \cup {w}
    /\ UNCHANGED <<copies, inside, call, items>>

\* The StableRef is made by a property initialiser and stored in the struct;
\* RawWrapper attaches its cleaner, the class perhaps a second one.
Construct(w) ==
    /\ ~Constructed(w)
    /\ ref' = [ref EXCEPT ![w] = "live"]
    /\ cstruct' = [cstruct EXCEPT ![w] = "live"]
    /\ cleaners' = [cleaners EXCEPT ![w] =
                        IF w \in Disposing THEN {"base", "override"} ELSE {"base"}]
    /\ held' = held \cup {w}
    /\ UNCHANGED <<copies, inside, call, items>>

Drop(w) ==
    /\ w \in held
    /\ held' = held \ {w}
    /\ UNCHANGED <<ref, copies, inside, cleaners, cstruct, call, items>>

\* OdbPackWriter.close(): raw.free(), and the reference stays.
Close(w) ==
    /\ w \in Closing \cap held
    /\ inside[w] = "no"
    /\ cstruct[w] = "live"
    /\ cstruct' = [cstruct EXCEPT ![w] = "freed"]
    /\ UNCHANGED <<ref, held, copies, inside, cleaners, call, items>>

\* Remote.connect(callbacks), git_rebase_init(options): C copies the structure
\* into an object with a life of its own.
CopyInto(w) ==
    /\ w \in Copied \cap held
    /\ cstruct[w] = "live"
    /\ copies' = copies \cup {w}
    /\ UNCHANGED <<ref, held, inside, cleaners, cstruct, call, items>>

\* The application drops the C object that has the copy, and it is freed.
DropCopy(w) ==
    /\ w \in copies
    /\ inside[w] # "copy"
    /\ copies' = copies \ {w}
    /\ UNCHANGED <<ref, held, inside, cleaners, cstruct, call, items>>

\* C runs and may call back: through the wrapper itself, unless it is freed
\* already (the raw getter throws), or through the copy.
EnterC(w) ==
    /\ inside[w] = "no"
    /\ \E how \in {"direct", "copy"} :
         /\ IF how = "direct" THEN w \in held /\ cstruct[w] = "live" ELSE w \in copies
         /\ inside' = [inside EXCEPT ![w] = how]
    /\ UNCHANGED <<ref, held, copies, cleaners, cstruct, call, items>>

LeaveC(w) ==
    /\ inside[w] # "no"
    /\ inside' = [inside EXCEPT ![w] = "no"]
    /\ UNCHANGED <<ref, held, copies, cleaners, cstruct, call, items>>

\* Mutated form of RunCleaner: both cleaners dispose the reference.
RunCleanerDisposes(w, cleaner) ==
    /\ Constructed(w)
    /\ ~Reachable(w)
    /\ cleaner \in cleaners[w]
    /\ cleaners' = [cleaners EXCEPT ![w] = @ \ {cleaner}]
    /\ Dispose(w)
    /\ cstruct' = [cstruct EXCEPT ![w] = "freed"]
    /\ UNCHANGED <<held, copies, inside, call, items>>

\* RawWrapper's cleaner frees the raw; CallbackAble.createCleaner disposes
\* the reference and frees the raw, which a second time does nothing.
RunCleaner(w, cleaner) ==
    /\ Constructed(w)
    /\ ~Reachable(w)
    /\ cleaner \in cleaners[w]
    /\ cleaners' = [cleaners EXCEPT ![w] = @ \ {cleaner}]
    /\ IF cleaner = "override" THEN Dispose(w) ELSE UNCHANGED ref
    /\ cstruct' = [cstruct EXCEPT ![w] = "freed"]
    /\ UNCHANGED <<held, copies, inside, call, items>>

-----------------------------------------------------------------------------
(* Calls with a payload of their own                                       *)

StartCall(o) ==
    /\ call[o] = "idle"
    /\ ref' = [ref EXCEPT ![o] = "live"]
    /\ call' = [call EXCEPT ![o] = "running"]
    /\ UNCHANGED <<held, copies, inside, cleaners, cstruct, items>>

\* C calls the static function with the next item; it resolves the payload.
EnterCallback(o) ==
    /\ call[o] = "running"
    /\ items[o] < MaxItems
    /\ items' = [items EXCEPT ![o] = @ + 1]
    /\ call' = [call EXCEPT ![o] = "inCallback"]
    /\ UNCHANGED <<ref, held, copies, inside, cleaners, cstruct>>

\* Mutated form of LeaveCallback: every callback disposes its payload.
LeaveCallbackDisposing(o) ==
    /\ call[o] = "inCallback"
    /\ Dispose(o)
    /\ \E next \in {"running", "stopped"} : call' = [call EXCEPT ![o] = next]
    /\ UNCHANGED <<held, copies, inside, cleaners, cstruct, items>>

\* The application's function returns; a result other than zero makes C stop
\* and return it.  The callback of submodules() disposes and returns zero.
LeaveCallback(o) ==
    /\ call[o] = "inCallback"
    /\ IF o \in DisposedInside
       THEN Dispose(o) /\ call' = [call EXCEPT ![o] = "running"]
       ELSE /\ UNCHANGED ref
            /\ \E next \in {"running", "stopped"} : call' = [call EXCEPT ![o] = next]
    /\ UNCHANGED <<held, copies, inside, cleaners, cstruct, items>>

\* C returns zero, errorCheck() passes and the call disposes its payload.
ReturnOk(o) ==
    /\ call[o] = "running"
    /\ IF o \in DisposedAfter THEN Dispose(o) ELSE UNCHANGED ref
    /\ call' = [call EXCEPT ![o] = "ok"]
    /\ UNCHANGED <<held, copies, inside, cleaners, cstruct, items>>

\* C returns an error, its own or the callback's: errorCheck() throws.
ReturnError(o) ==
    /\ call[o] \in {"running", "stopped"}
    /\ call' = [call EXCEPT ![o] = "threw"]
    /\ UNCHANGED <<ref, held, copies, inside, cleaners, cstruct, items>>

-----------------------------------------------------------------------------
WrapperStep(w) ==
    \/ Construct(w)
    \/ Drop(w)
    \/ Close(w)
    \/ CopyInto(w)
    \/ DropCopy(w)
    \/ EnterC(w)
    \/ LeaveC(w)
    \/ \E cleaner \in cleaners[w] : RunCleaner(w, cleaner)

CallStep(o) ==
    \/ StartCall(o)
    \/ EnterCallback(o)
    \/ LeaveCallback(o)
    \/ ReturnOk(o)
    \/ ReturnError(o)

Next ==
    \/ \E w \in Wrappers : WrapperStep(w)
    \/ \E o \in Calls : CallStep(o)

\* The runtime keeps running the cleaners of what it collected.
Fairness ==
    \A w \in Wrappers : WF_vars(\E cleaner \in cleaners[w] : RunCleaner(w, cleaner))

Spec == Init /\ [][Next]_vars

FairSpec == Spec /\ Fairness

-----------------------------------------------------------------------------
(* Properties                                                              *)

\* Whenever C can call back, the payload it will resolve is alive: for the
\* wrappers, although C objects copy the pointer and outlive the application's
\* last reference, and for calls, also when the callback stopped the
\* iteration.  submodules() (Repository.kt:975) breaks it at the second item.
CallbackFindsPayload ==
    /\ \A w \in Wrappers : inside[w] # "no" => ref[w] = "live"
    /\ \A o \in Calls : call[o] = "inCallback" => ref[o] = "live"

\* With submodules() among the calls: it finds its payload at its first item
\* and never again; every other call, and every wrapper, always does.
PayloadLastsAsLongAsItsOwner ==
    /\ \A w \in Wrappers : inside[w] # "no" => ref[w] = "live"
    /\ \A o \in Calls :
         call[o] = "inCallback" =>
             (ref[o] = "live" <=> (o \in DisposedInside => items[o] = 1))

\* A wrapper whose payload does not refer back to it is cleaned up once the
\* application dropped it, whichever of its cleaners runs first: structure
\* freed and, if its class takes care of it, reference disposed.
PlainWrapperIsReleased ==
    \A w \in Wrappers \ Capturing :
        (Constructed(w) /\ w \notin held /\ inside[w] = "no")
            ~> (cstruct[w] = "freed" /\ (w \in Disposing => ref[w] = "disposed"))

\* KGit2.kt:19, isCleanersLeakCheckerActive: no cleaner is left over once
\* neither the application nor C needs the wrapper.
CleanersAreRun ==
    \A w \in Wrappers :
        (Constructed(w) /\ w \notin held \cup copies /\ inside[w] = "no") ~> (cleaners[w] = {})

\* The references that are disposed by one place of the code.
Disciplined == Wrappers \cup (Calls \ DisposedInside)

\* A reference as a resource: made once, disposed at most once.  "corrupt" is
\* no phase of the abstract resource.
ReferencePhase ==
    [p \in Disciplined |->
        IF ref[p] = "none" THEN "absent"
        ELSE IF ref[p] = "live" THEN "held"
        ELSE IF ref[p] = "disposed" THEN "released" ELSE "corrupt"]

Reference == INSTANCE OwnedResource WITH Handles <- Disciplined, phase <- ReferencePhase

\* Every such StableRef is disposed at most once, by a cleaner or by its call.
ReferencesImplementResource == Reference!Spec

-----------------------------------------------------------------------------
(* The inductive strengthening                                             *)

\* What is reachable still has everything; an inner-class payload keeps its
\* wrapper reachable for ever.  What is left to clean up has its cleaner.
WrapperState(w) ==
    /\ ref[w] = "none" <=> ~Constructed(w)
    /\ ~Constructed(w) => w \notin held \cup copies /\ inside[w] = "no" /\ cleaners[w] = {}
    /\ w \in held \/ inside[w] = "direct" \/ w \in Capturing =>
         ref[w] \in {"none", "live"} /\ (w \in Closing \/ cstruct[w] \in {"none", "live"})
    /\ inside[w] = "direct" => cstruct[w] = "live"
    /\ inside[w] = "copy" => w \in copies
    /\ "override" \in cleaners[w] <=> w \in Disposing /\ ref[w] = "live"
    /\ cstruct[w] = "live" => "base" \in cleaners[w]
    /\ ref[w] # "corrupt"

\* The callbacks of a call that have returned.
Finished(o) == IF call[o] = "inCallback" THEN items[o] - 1 ELSE items[o]

\* A call's reference lives as long as C may call back, unless a callback
\* disposes it.
CallState(o) ==
    /\ call[o] = "idle" <=> ref[o] = "none"
    /\ call[o] = "idle" => items[o] = 0
    /\ call[o] = "inCallback" => items[o] > 0
    /\ IF o \in DisposedInside
       THEN /\ call[o] # "idle" /\ Finished(o) = 0 => ref[o] = "live"
            /\ Finished(o) = 1 => ref[o] = "disposed"
            /\ Finished(o) > 1 => ref[o] = "corrupt"
       ELSE /\ call[o] \in {"running", "inCallback", "stopped"} => ref[o] = "live"
            /\ ref[o] # "corrupt"

CallbackInvariant ==
    /\ TypeOK
    /\ \A w \in Wrappers : WrapperState(w)
    /\ \A o \in Calls : CallState(o)
=============================================================================
