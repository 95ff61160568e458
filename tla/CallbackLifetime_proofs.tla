----------------------- MODULE CallbackLifetime_proofs -----------------------
(***************************************************************************)
(* Proofs about CallbackLifetime, for every set of wrappers and calls.     *)
(*                                                                         *)
(* The argument is about reachability: a cleaner runs only when nothing    *)
(* reaches the wrapper, and what C may call back through either reaches it *)
(* (the caller's stack) or belongs to a wrapper whose payload does.        *)
(***************************************************************************)
EXTENDS CallbackLifetime, TLAPS

-----------------------------------------------------------------------------
(* The invariant                                                           *)

\* Nothing is constructed at the start.
LEMMA InitEstablishes == Init => CallbackInvariant
BY CallbackAssumption DEF Init, CallbackInvariant, TypeOK, WrapperState, CallState, Constructed, Finished

\* Steps of one wrapper keep every wrapper's and every call's state.
LEMMA WrapperStepPreserves ==
  ASSUME CallbackInvariant, NEW w \in Wrappers, WrapperStep(w)
  PROVE  CallbackInvariant'
<1> USE CallbackAssumption DEF CallbackInvariant, TypeOK, WrapperState, CallState, Constructed, Finished
<1>1. CASE Construct(w)
  BY <1>1 DEF Construct
<1>2. CASE Drop(w)
  BY <1>2 DEF Drop
<1>3. CASE CopyInto(w)
  BY <1>3 DEF CopyInto
<1>4. CASE DropCopy(w)
  BY <1>4 DEF DropCopy
<1>5. CASE EnterC(w)
  BY <1>5 DEF EnterC
<1>6. CASE LeaveC(w)
  BY <1>6 DEF LeaveC
<1>7. ASSUME NEW cleaner \in cleaners[w], RunCleaner(w, cleaner)
      PROVE  CallbackInvariant'
  <2> USE <1>7 DEF RunCleaner, Dispose, Reachable
  <2>1. TypeOK'
    OBVIOUS
  <2>2. \A v \in Wrappers : WrapperState(v)'
    OBVIOUS
  <2>3. \A o \in Calls : CallState(o)'
    OBVIOUS
  <2>4. QED
    BY <2>1, <2>2, <2>3
<1>8. CASE Close(w)
  BY <1>8 DEF Close
<1>9. QED
  BY <1>1, <1>2, <1>3, <1>4, <1>5, <1>6, <1>7, <1>8 DEF WrapperStep

\* Steps of one call keep its reference alive until it returned.
LEMMA CallStepPreserves ==
  ASSUME CallbackInvariant, NEW o \in Calls, CallStep(o)
  PROVE  CallbackInvariant'
<1> USE CallbackAssumption
        DEF CallbackInvariant, TypeOK, WrapperState, CallState, Constructed, Finished
<1>1. CASE StartCall(o)
  BY <1>1 DEF StartCall
<1>2. CASE EnterCallback(o)
  BY <1>2 DEF EnterCallback
<1>3. CASE LeaveCallback(o)
  BY <1>3 DEF LeaveCallback, Dispose
<1>4. CASE ReturnOk(o)
  BY <1>4 DEF ReturnOk, Dispose
<1>5. CASE ReturnError(o)
  BY <1>5 DEF ReturnError
<1>6. QED
  BY <1>1, <1>2, <1>3, <1>4, <1>5 DEF CallStep

\* Every step preserves the invariant.
LEMMA NextPreserves ==
  ASSUME CallbackInvariant, [Next]_vars
  PROVE  CallbackInvariant'
<1>1. CASE UNCHANGED vars
  BY <1>1 DEF vars, CallbackInvariant, TypeOK, WrapperState, CallState, Constructed, Finished
<1>2. CASE Next
  BY <1>2, WrapperStepPreserves, CallStepPreserves DEF Next
<1>3. QED
  BY <1>1, <1>2

\* A reachable wrapper keeps its reference and its structure, a call its
\* reference until it is over or a callback disposes it, and what is left to
\* clean up has a cleaner that will do it.
THEOREM CallbackInvariantHolds == Spec => []CallbackInvariant
BY InitEstablishes, NextPreserves, PTL DEF Spec

\* Whatever the application drops and whenever the collector runs, C never
\* calls back with a payload that is gone, but for the later items of a call
\* that disposes it in the callback (Repository.kt:975).
THEOREM PayloadIsThere == Spec => []PayloadLastsAsLongAsItsOwner
<1>1. CallbackInvariant => PayloadLastsAsLongAsItsOwner
  <2> SUFFICES ASSUME CallbackInvariant
               PROVE  PayloadLastsAsLongAsItsOwner
    OBVIOUS
  <2>1. ASSUME NEW w \in Wrappers, inside[w] # "no"
        PROVE  ref[w] = "live"
    BY <2>1, CallbackAssumption DEF CallbackInvariant, TypeOK, WrapperState, Constructed
  <2>2. ASSUME NEW o \in Calls, call[o] = "inCallback"
        PROVE  ref[o] = "live" <=> (o \in DisposedInside => items[o] = 1)
    BY <2>2, CallbackAssumption DEF CallbackInvariant, TypeOK, CallState, Finished
  <2>3. QED
    BY <2>1, <2>2 DEF PayloadLastsAsLongAsItsOwner
<1>2. QED
  BY <1>1, CallbackInvariantHolds, PTL

\* So every payload is alive when no call disposes its own in the callback,
\* or C has one item at most: a repository with one submodule is safe.
THEOREM PayloadIsAlive ==
  ASSUME DisposedInside = {} \/ MaxItems <= 1
  PROVE  Spec => []CallbackFindsPayload
<1>1. CallbackInvariant /\ PayloadLastsAsLongAsItsOwner => CallbackFindsPayload
  BY CallbackAssumption DEF CallbackInvariant, TypeOK, CallState,
     PayloadLastsAsLongAsItsOwner, CallbackFindsPayload
<1>2. QED
  BY <1>1, CallbackInvariantHolds, PayloadIsThere, PTL

\* The other side of that: a wrapper whose payload is an inner class stays
\* reachable, with all its cleaners, in every behaviour; the override that
\* would dispose the reference never runs (CallbackAble.kt:24).
THEOREM InnerPayloadIsKeptForEver ==
  Spec => [](\A w \in Capturing : Constructed(w) => Reachable(w))
<1>1. CallbackInvariant => \A w \in Capturing : Constructed(w) => Reachable(w)
  BY CallbackAssumption DEF CallbackInvariant, TypeOK, WrapperState, Constructed, Reachable
<1>2. QED
  BY <1>1, CallbackInvariantHolds, PTL

-----------------------------------------------------------------------------
(* References implement the abstract resource                              *)

\* A step that leaves these references alone shows nothing.
LEMMA SameReferences ==
  ASSUME \A p \in Disciplined : ref'[p] = ref[p]
  PROVE  UNCHANGED ReferencePhase
BY DEF ReferencePhase

\* Disposing a live reference is the abstract release.
LEMMA DisposeReleases ==
  ASSUME CallbackInvariant, NEW p \in Disciplined, ref[p] = "live", Dispose(p)
  PROVE  Reference!Next
<1>1. /\ ref \in [Wrappers \cup Calls -> {"none", "live", "disposed", "corrupt"}]
      /\ ref' = [ref EXCEPT ![p] = "disposed"]
  BY DEF CallbackInvariant, TypeOK, Dispose, Disciplined
<1>2. ReferencePhase[p] \in {"held"}
  BY DEF ReferencePhase
<1>3. ReferencePhase' = [ReferencePhase EXCEPT ![p] = "released"]
  BY <1>1 DEF ReferencePhase, Disciplined
<1>4. QED
  BY <1>2, <1>3 DEF Reference!Next, Reference!Release, Reference!Advance

\* A wrapper's reference is made by its constructor and disposed by the
\* overridden cleaner.
LEMMA WrapperRefines ==
  ASSUME CallbackInvariant, NEW w \in Wrappers, WrapperStep(w)
  PROVE  [Reference!Next]_ReferencePhase
<1> USE DEF CallbackInvariant, TypeOK, WrapperState, Constructed, Disciplined
<1>1. CASE Construct(w)
  <2>1. Reference!Acquire(w)
    BY <1>1 DEF Construct, Reference!Acquire, Reference!Advance, ReferencePhase
  <2>2. QED
    BY <2>1 DEF Reference!Next
<1>2. ASSUME NEW cleaner \in cleaners[w], RunCleaner(w, cleaner)
      PROVE  [Reference!Next]_ReferencePhase
  <2>1. CASE cleaner = "override"
    BY <1>2, <2>1, DisposeReleases DEF RunCleaner
  <2>2. CASE cleaner # "override"
    BY <1>2, <2>2, SameReferences DEF RunCleaner
  <2>3. QED
    BY <2>1, <2>2
<1>3. CASE UNCHANGED ref
  BY <1>3, SameReferences
<1>4. QED
  BY <1>1, <1>2, <1>3 DEF WrapperStep, Drop, Close, CopyInto, DropCopy, EnterC, LeaveC

\* A call's reference is made when it starts and disposed when it returns.
LEMMA CallRefines ==
  ASSUME CallbackInvariant, NEW o \in Calls, CallStep(o)
  PROVE  [Reference!Next]_ReferencePhase
<1> USE CallbackAssumption DEF CallbackInvariant, TypeOK, CallState
<1>1. CASE o \in DisposedInside
  <2>1. \A p \in Disciplined : ref'[p] = ref[p]
    BY <1>1 DEF Disciplined, CallStep, StartCall, EnterCallback, LeaveCallback,
       ReturnOk, ReturnError, Dispose
  <2>2. QED
    BY <2>1, SameReferences
<1>2. CASE o \notin DisposedInside
  <2>1. o \in Disciplined
    BY <1>2 DEF Disciplined
  <2>2. CASE StartCall(o)
    <3>1. ref[o] = "none" /\ ref' = [ref EXCEPT ![o] = "live"]
      BY <2>2 DEF StartCall
    <3>2. Reference!Acquire(o)
      BY <2>1, <3>1 DEF Disciplined, Reference!Acquire, Reference!Advance, ReferencePhase
    <3>3. QED
      BY <2>1, <3>2 DEF Reference!Next
  <2>3. CASE ReturnOk(o) /\ o \in DisposedAfter
    BY <1>2, <2>1, <2>3, DisposeReleases DEF ReturnOk
  <2>4. CASE UNCHANGED ref
    BY <2>4, SameReferences
  <2>5. QED
    BY <1>2, <2>2, <2>3, <2>4
       DEF CallStep, EnterCallback, LeaveCallback, ReturnOk, ReturnError
<1>3. QED
  BY <1>1, <1>2

\* Every StableRef is made once and disposed at most once, but for those that
\* a callback disposes.
THEOREM ReferencesRefineResource == Spec => ReferencesImplementResource
<1>1. Init => Reference!Init
  BY DEF Init, Reference!Init, ReferencePhase, Disciplined
<1>2. CallbackInvariant /\ [Next]_vars => [Reference!Next]_ReferencePhase
  <2> SUFFICES ASSUME CallbackInvariant, [Next]_vars
               PROVE  [Reference!Next]_ReferencePhase
    OBVIOUS
  <2>1. CASE UNCHANGED vars
    BY <2>1, SameReferences DEF vars
  <2>2. CASE Next
    BY <2>2, WrapperRefines, CallRefines DEF Next
  <2>3. QED
    BY <2>1, <2>2
<1>3. QED
  BY <1>1, <1>2, CallbackInvariantHolds, PTL DEF Spec, ReferencesImplementResource, Reference!Spec
=============================================================================
