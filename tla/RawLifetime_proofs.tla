------------------------- MODULE RawLifetime_proofs -------------------------
(***************************************************************************)
(* Proofs about RawLifetime, for every set of handles and threads.         *)
(*                                                                         *)
(* LifetimeInvariant says what each control point knows of its handle and  *)
(* that the steps which change the C object or the memory are taken by one *)
(* actor at a time.  It is preserved action by action; the safety theorems *)
(* and the implementation of OwnedResource follow from it.                 *)
(***************************************************************************)
EXTENDS RawLifetime, TLAPS

-----------------------------------------------------------------------------
(* Construction: the building thread is alone with its handle. *)

\* The default arguments claim a handle nobody has touched.
LEMMA BeginConstructPreserves ==
  ASSUME LifetimeInvariant, NEW h \in Handles, NEW t \in Threads, BeginConstruct(t, h)
  PROVE  LifetimeInvariant'
<1> USE LifetimeAssumption DEF LifetimeInvariant, TypeOK, Actors, At,
   BeginConstruct, Alloc, Goto, Idle
<1>1. TypeOK'
  BY DEF Lives, Steps, ConstructSteps
<1>2. \A g \in Handles : UnbornIsBlank(g)' /\ UnfreedIsIntact(g)'
  BY DEF UnbornIsBlank, UnfreedIsIntact, Born
<1>3. Exclusive'
  BY DEF Exclusive, ExclusiveSteps, Born, ConstructState, OperateState,
     FreeSteps
<1>4. \A b \in Actors : ConstructState(b)'
  BY DEF ConstructState, UnbornIsBlank
<1>5. \A b \in Actors : OperateState(b)'
  BY DEF OperateState, Born, UseSteps, FreeSteps, MoveSteps
<1>6. NoInvalidFree' /\ RegionOutlivesObject'
  BY DEF NoInvalidFree, RegionOutlivesObject
<1>7. QED
  BY <1>1, <1>2, <1>3, <1>4, <1>5, <1>6

\* The wrapper is born owning exactly what its constructor acquired.
LEMMA InitialSucceedsPreserves ==
  ASSUME LifetimeInvariant, NEW h \in Handles, NEW t \in Threads, InitialSucceeds(t, h)
  PROVE  LifetimeInvariant'
<1> USE LifetimeAssumption DEF LifetimeInvariant, TypeOK, Actors, At,
   InitialSucceeds, Attach, Return, Leave, Goto
<1>1. TypeOK'
  BY DEF Lives, Outcomes, CObjectOf
<1>2. \A g \in Handles : UnbornIsBlank(g)' /\ UnfreedIsIntact(g)'
  BY DEF UnbornIsBlank, UnfreedIsIntact, Born, ConstructState, ConstructSteps
<1>3. Exclusive'
  BY DEF Exclusive, ExclusiveSteps, ConstructSteps
<1>4. \A b \in Actors : ConstructState(b)'
  BY DEF ConstructState, Exclusive, ExclusiveSteps, ConstructSteps
<1>5. \A b \in Actors : OperateState(b)'
  BY DEF OperateState, Exclusive, ExclusiveSteps, Born, ConstructSteps,
     UseSteps, FreeSteps, MoveSteps
<1>6. NoInvalidFree' /\ RegionOutlivesObject'
  BY DEF NoInvalidFree, RegionOutlivesObject, ConstructState, CObjectOf,
     ConstructSteps
<1>7. QED
  BY <1>1, <1>2, <1>3, <1>4, <1>5, <1>6

\* A failed block leaves the handle to the same thread.
LEMMA InitialFailsPreserves ==
  ASSUME LifetimeInvariant, NEW h \in Handles, NEW t \in Threads, InitialFails(t, h)
  PROVE  LifetimeInvariant'
<1> USE LifetimeAssumption DEF LifetimeInvariant, TypeOK, Actors, At,
   InitialFails, Goto
<1>1. TypeOK'
  BY DEF Steps, ConstructSteps, CObjectOf
<1>2. \A g \in Handles : UnbornIsBlank(g)' /\ UnfreedIsIntact(g)'
  BY DEF UnbornIsBlank, UnfreedIsIntact, Born, ConstructState, ConstructSteps
<1>3. Exclusive'
  BY DEF Exclusive, ExclusiveSteps, ConstructSteps
<1>4. \A b \in Actors : ConstructState(b)'
  BY DEF ConstructState, Exclusive, ExclusiveSteps, ConstructSteps, CObjectOf
<1>5. \A b \in Actors : OperateState(b)'
  BY DEF OperateState, Exclusive, ExclusiveSteps, Born, ConstructSteps,
     UseSteps, FreeSteps, MoveSteps
<1>6. NoInvalidFree' /\ RegionOutlivesObject'
  BY DEF NoInvalidFree, RegionOutlivesObject, ConstructState, CObjectOf,
     ConstructSteps
<1>7. QED
  BY <1>1, <1>2, <1>3, <1>4, <1>5, <1>6

\* A null object leaves nothing to own.
LEMMA InitialNullPreserves ==
  ASSUME LifetimeInvariant, NEW h \in Handles, NEW t \in Threads, InitialNull(t, h)
  PROVE  LifetimeInvariant'
<1> USE LifetimeAssumption DEF LifetimeInvariant, TypeOK, Actors, At,
   InitialNull, Return, Leave, Goto
<1>1. TypeOK'
  BY DEF Lives, Outcomes
<1>2. \A g \in Handles : UnbornIsBlank(g)' /\ UnfreedIsIntact(g)'
  BY DEF UnbornIsBlank, UnfreedIsIntact, Born
<1>3. Exclusive'
  BY DEF Exclusive, ExclusiveSteps, ConstructSteps
<1>4. \A b \in Actors : ConstructState(b)'
  BY DEF ConstructState, Exclusive, ExclusiveSteps, ConstructSteps
<1>5. \A b \in Actors : OperateState(b)'
  BY DEF OperateState, ConstructState, Born, ConstructSteps, UseSteps,
     FreeSteps, MoveSteps
<1>6. NoInvalidFree' /\ RegionOutlivesObject'
  BY DEF NoInvalidFree, RegionOutlivesObject
<1>7. QED
  BY <1>1, <1>2, <1>3, <1>4, <1>5, <1>6

\* onFailure frees an object that is absent or still owned.
LEMMA FreeOnFailurePreserves ==
  ASSUME LifetimeInvariant, NEW h \in Handles, NEW t \in Threads, FreeOnFailure(t, h)
  PROVE  LifetimeInvariant'
<1> USE LifetimeAssumption DEF LifetimeInvariant, TypeOK, Actors, At,
   FreeOnFailure, CFree, Goto
<1>1. TypeOK'
  BY DEF Steps, ConstructSteps
<1>2. \A g \in Handles : UnbornIsBlank(g)' /\ UnfreedIsIntact(g)'
  BY DEF UnbornIsBlank, UnfreedIsIntact, Born, ConstructState, ConstructSteps
<1>3. Exclusive'
  BY DEF Exclusive, ExclusiveSteps, ConstructSteps
<1>4. \A b \in Actors : ConstructState(b)'
  BY DEF ConstructState, Exclusive, ExclusiveSteps, ConstructSteps
<1>5. \A b \in Actors : OperateState(b)'
  BY DEF OperateState, Exclusive, ExclusiveSteps, Born, ConstructSteps,
     UseSteps, FreeSteps, MoveSteps
<1>6. NoInvalidFree' /\ RegionOutlivesObject'
  BY DEF NoInvalidFree, RegionOutlivesObject, ConstructState
<1>7. QED
  BY <1>1, <1>2, <1>3, <1>4, <1>5, <1>6

\* onFailure frees the memory after the object.
LEMMA MemoryOnFailurePreserves ==
  ASSUME LifetimeInvariant, NEW h \in Handles, NEW t \in Threads, MemoryOnFailure(t, h)
  PROVE  LifetimeInvariant'
<1> USE LifetimeAssumption DEF LifetimeInvariant, TypeOK, Actors, At,
   MemoryOnFailure, FreeMemory, Return, Leave, Goto
<1>1. TypeOK'
  BY DEF Lives, Outcomes
<1>2. \A g \in Handles : UnbornIsBlank(g)' /\ UnfreedIsIntact(g)'
  BY DEF UnbornIsBlank, UnfreedIsIntact, Born
<1>3. Exclusive'
  BY DEF Exclusive, ExclusiveSteps, ConstructSteps
<1>4. \A b \in Actors : ConstructState(b)'
  BY DEF ConstructState, Exclusive, ExclusiveSteps, ConstructSteps
<1>5. \A b \in Actors : OperateState(b)'
  BY DEF OperateState, ConstructState, Born, ConstructSteps, UseSteps,
     FreeSteps, MoveSteps
<1>6. NoInvalidFree' /\ RegionOutlivesObject'
  BY DEF NoInvalidFree, RegionOutlivesObject, ConstructState
<1>7. QED
  BY <1>1, <1>2, <1>3, <1>4, <1>5, <1>6

\* An adopted pointer is owned from the start.
LEMMA AdoptPreserves ==
  ASSUME LifetimeInvariant, NEW h \in Handles, NEW t \in Threads, Adopt(t, h)
  PROVE  LifetimeInvariant'
<1> USE LifetimeAssumption DEF LifetimeInvariant, TypeOK, Actors, At, Adopt,
   Attach, Idle
<1>1. TypeOK'
  BY DEF Lives, Outcomes, CObjectOf
<1>2. \A g \in Handles : UnbornIsBlank(g)' /\ UnfreedIsIntact(g)'
  BY DEF UnbornIsBlank, UnfreedIsIntact, Born
<1>3. Exclusive'
  BY DEF Exclusive
<1>4. \A b \in Actors : ConstructState(b)'
  BY DEF ConstructState, ConstructSteps
<1>5. \A b \in Actors : OperateState(b)'
  BY DEF OperateState, Born, FreeSteps
<1>6. NoInvalidFree' /\ RegionOutlivesObject'
  BY DEF NoInvalidFree, RegionOutlivesObject, UnbornIsBlank, CObjectOf
<1>7. QED
  BY <1>1, <1>2, <1>3, <1>4, <1>5, <1>6

-----------------------------------------------------------------------------
(* Operations through the raw getter leave object and memory alone. *)

\* The raw getter changes control only.
LEMMA GetRawPreserves ==
  ASSUME LifetimeInvariant, NEW h \in Handles, NEW t \in Threads,
         NEW step \in {"checked", "free", "move"}, NEW error \in Outcomes,
         GetRaw(t, h, step, error)
  PROVE  LifetimeInvariant'
<1> USE LifetimeAssumption DEF LifetimeInvariant, TypeOK, Actors, At, GetRaw,
   Return, Leave, Goto, Idle
<1>1. TypeOK'
  BY DEF Steps, UseSteps, FreeSteps, MoveSteps
<1>2. \A g \in Handles : UnbornIsBlank(g)' /\ UnfreedIsIntact(g)'
  BY DEF UnbornIsBlank, UnfreedIsIntact, Born
<1>3. Exclusive'
  BY DEF Exclusive, ExclusiveSteps, ConstructSteps
<1>4. \A b \in Actors : ConstructState(b)'
  BY DEF ConstructState, ConstructSteps
<1>5. \A b \in Actors : OperateState(b)'
  BY DEF OperateState, Born, UseSteps, FreeSteps, MoveSteps
<1>6. NoInvalidFree' /\ RegionOutlivesObject'
  BY DEF NoInvalidFree, RegionOutlivesObject
<1>7. QED
  BY <1>1, <1>2, <1>3, <1>4, <1>5, <1>6

\* Entering a C call changes the arena at most.
LEMMA CallCPreserves ==
  ASSUME LifetimeInvariant, NEW h \in Handles, NEW t \in Threads, CallC(t, h)
  PROVE  LifetimeInvariant'
<1> USE LifetimeAssumption DEF LifetimeInvariant, TypeOK, Actors, At, CallC,
   Alloc, Goto
<1>1. TypeOK'
  BY DEF Steps, UseSteps
<1>2. \A g \in Handles : UnbornIsBlank(g)' /\ UnfreedIsIntact(g)'
  BY DEF UnbornIsBlank, UnfreedIsIntact, Born
<1>3. Exclusive'
  BY DEF Exclusive, ExclusiveSteps, ConstructSteps
<1>4. \A b \in Actors : ConstructState(b)'
  BY DEF ConstructState, ConstructSteps
<1>5. \A b \in Actors : OperateState(b)'
  BY DEF OperateState, Born, UseSteps
<1>6. NoInvalidFree' /\ RegionOutlivesObject'
  BY DEF NoInvalidFree, RegionOutlivesObject
<1>7. QED
  BY <1>1, <1>2, <1>3, <1>4, <1>5, <1>6

\* Leaving a C call changes control only.
LEMMA ReturnFromCPreserves ==
  ASSUME LifetimeInvariant, NEW h \in Handles, NEW t \in Threads, ReturnFromC(t, h)
  PROVE  LifetimeInvariant'
<1> USE LifetimeAssumption DEF LifetimeInvariant, TypeOK, Actors, At,
   ReturnFromC, Return, Leave, Goto
<1>1. TypeOK'
  BY DEF Outcomes
<1>2. \A g \in Handles : UnbornIsBlank(g)' /\ UnfreedIsIntact(g)'
  BY DEF UnbornIsBlank, UnfreedIsIntact, Born
<1>3. Exclusive'
  BY DEF Exclusive, ExclusiveSteps, ConstructSteps
<1>4. \A b \in Actors : ConstructState(b)'
  BY DEF ConstructState, ConstructSteps
<1>5. \A b \in Actors : OperateState(b)'
  BY DEF OperateState, Born, UseSteps, FreeSteps, MoveSteps
<1>6. NoInvalidFree' /\ RegionOutlivesObject'
  BY DEF NoInvalidFree, RegionOutlivesObject
<1>7. QED
  BY <1>1, <1>2, <1>3, <1>4, <1>5, <1>6

\* move sets the flag and releases nothing.
LEMMA MovePreserves ==
  ASSUME LifetimeInvariant, NEW h \in Handles, NEW t \in Threads, Move(t, h)
  PROVE  LifetimeInvariant'
<1> USE LifetimeAssumption DEF LifetimeInvariant, TypeOK, Actors, At, Move,
   Goto
<1>1. TypeOK'
  BY DEF Steps, MoveSteps
<1>2. \A g \in Handles : UnbornIsBlank(g)' /\ UnfreedIsIntact(g)'
  BY DEF UnbornIsBlank, UnfreedIsIntact, Born, OperateState, MoveSteps
<1>3. Exclusive'
  BY DEF Exclusive, ExclusiveSteps, ConstructSteps
<1>4. \A b \in Actors : ConstructState(b)'
  BY DEF ConstructState, OperateState, Born, ConstructSteps, MoveSteps
<1>5. \A b \in Actors : OperateState(b)'
  BY DEF OperateState, Born, MoveSteps
<1>6. NoInvalidFree' /\ RegionOutlivesObject'
  BY DEF NoInvalidFree, RegionOutlivesObject
<1>7. QED
  BY <1>1, <1>2, <1>3, <1>4, <1>5, <1>6

\* The second use of the getter changes control only.
LEMMA AfterMovePreserves ==
  ASSUME LifetimeInvariant, NEW h \in Handles, NEW t \in Threads, AfterMove(t, h)
  PROVE  LifetimeInvariant'
<1> USE LifetimeAssumption DEF LifetimeInvariant, TypeOK, Actors, At,
   AfterMove, Return, Leave, Goto
<1>1. TypeOK'
  BY DEF Outcomes
<1>2. \A g \in Handles : UnbornIsBlank(g)' /\ UnfreedIsIntact(g)'
  BY DEF UnbornIsBlank, UnfreedIsIntact, Born
<1>3. Exclusive'
  BY DEF Exclusive, ExclusiveSteps, ConstructSteps
<1>4. \A b \in Actors : ConstructState(b)'
  BY DEF ConstructState, ConstructSteps
<1>5. \A b \in Actors : OperateState(b)'
  BY DEF OperateState, Born, UseSteps, FreeSteps, MoveSteps
<1>6. NoInvalidFree' /\ RegionOutlivesObject'
  BY DEF NoInvalidFree, RegionOutlivesObject
<1>7. QED
  BY <1>1, <1>2, <1>3, <1>4, <1>5, <1>6

-----------------------------------------------------------------------------
(* Raw.free: the compare-and-set admits one actor to the body. *)

\* One actor wins the flag, and finds object and memory intact.
LEMMA CasFreedPreserves ==
  ASSUME LifetimeInvariant, NEW h \in Handles, NEW a \in Actors, CasFreed(a, h)
  PROVE  LifetimeInvariant'
<1> USE LifetimeAssumption DEF LifetimeInvariant, TypeOK, Actors, At,
   CasFreed, FreeReturns, Leave, Goto
<1>1. TypeOK'
  BY DEF Outcomes, Steps, FreeSteps
<1>2. \A g \in Handles : UnbornIsBlank(g)' /\ UnfreedIsIntact(g)'
  BY DEF UnbornIsBlank, UnfreedIsIntact, Born, OperateState, FreeSteps
<1>3. Exclusive'
  BY DEF Exclusive, ExclusiveSteps, Born, ConstructState, OperateState,
     FreeSteps
<1>4. \A b \in Actors : ConstructState(b)'
  BY DEF ConstructState, OperateState, Born, ConstructSteps, FreeSteps
<1>5. \A b \in Actors : OperateState(b)'
  BY DEF OperateState, UnfreedIsIntact, Born, UseSteps, FreeSteps, MoveSteps
<1>6. NoInvalidFree' /\ RegionOutlivesObject'
  BY DEF NoInvalidFree, RegionOutlivesObject
<1>7. QED
  BY <1>1, <1>2, <1>3, <1>4, <1>5, <1>6

\* The winner frees an object that is still owned.
LEMMA BeforeFreePreserves ==
  ASSUME LifetimeInvariant, NEW h \in Handles, NEW a \in Actors, BeforeFree(a, h)
  PROVE  LifetimeInvariant'
<1> USE LifetimeAssumption DEF LifetimeInvariant, TypeOK, Actors, At,
   BeforeFree, CFree, Goto
<1>1. TypeOK'
  BY DEF Steps, FreeSteps
<1>2. \A g \in Handles : UnbornIsBlank(g)' /\ UnfreedIsIntact(g)'
  BY DEF UnbornIsBlank, UnfreedIsIntact, Born, OperateState
<1>3. Exclusive'
  BY DEF Exclusive, ExclusiveSteps
<1>4. \A b \in Actors : ConstructState(b)'
  BY DEF ConstructState, Exclusive, ExclusiveSteps, ConstructSteps
<1>5. \A b \in Actors : OperateState(b)'
  BY DEF OperateState, Exclusive, ExclusiveSteps, Born, FreeSteps, CObjectOf
<1>6. NoInvalidFree' /\ RegionOutlivesObject'
  BY DEF NoInvalidFree, RegionOutlivesObject, OperateState, CObjectOf
<1>7. QED
  BY <1>1, <1>2, <1>3, <1>4, <1>5, <1>6

\* The winner frees the memory after the object.
LEMMA MemoryFreePreserves ==
  ASSUME LifetimeInvariant, NEW h \in Handles, NEW a \in Actors, MemoryFree(a, h)
  PROVE  LifetimeInvariant'
<1> USE LifetimeAssumption DEF LifetimeInvariant, TypeOK, Actors, At,
   MemoryFree, FreeMemory, FreeReturns, Leave, Goto
<1>1. TypeOK'
  BY DEF Outcomes
<1>2. \A g \in Handles : UnbornIsBlank(g)' /\ UnfreedIsIntact(g)'
  BY DEF UnbornIsBlank, UnfreedIsIntact, Born, OperateState
<1>3. Exclusive'
  BY DEF Exclusive, ExclusiveSteps, ConstructSteps
<1>4. \A b \in Actors : ConstructState(b)'
  BY DEF ConstructState, Exclusive, ExclusiveSteps, ConstructSteps
<1>5. \A b \in Actors : OperateState(b)'
  BY DEF OperateState, Exclusive, ExclusiveSteps, Born, UseSteps, FreeSteps,
     MoveSteps
<1>6. NoInvalidFree' /\ RegionOutlivesObject'
  BY DEF NoInvalidFree, RegionOutlivesObject, OperateState
<1>7. QED
  BY <1>1, <1>2, <1>3, <1>4, <1>5, <1>6

-----------------------------------------------------------------------------
(* Garbage collection changes reachability and the cleaner worker only. *)

\* Becoming garbage changes reachability only.
LEMMA DropPreserves ==
  ASSUME LifetimeInvariant, NEW h \in Handles, Drop(h)
  PROVE  LifetimeInvariant'
<1> USE LifetimeAssumption DEF LifetimeInvariant, TypeOK, Actors, At, Drop
<1>1. TypeOK'
  BY DEF Lives
<1>2. \A g \in Handles : UnbornIsBlank(g)' /\ UnfreedIsIntact(g)'
  BY DEF UnbornIsBlank, UnfreedIsIntact, Born
<1>3. Exclusive'
  BY DEF Exclusive
<1>4. \A b \in Actors : ConstructState(b)'
  BY DEF ConstructState
<1>5. \A b \in Actors : OperateState(b)'
  BY DEF OperateState, Born
<1>6. NoInvalidFree' /\ RegionOutlivesObject'
  BY DEF NoInvalidFree, RegionOutlivesObject
<1>7. QED
  BY <1>1, <1>2, <1>3, <1>4, <1>5, <1>6

\* A cleaner starts Raw.free on a wrapper that was born.
LEMMA RunCleanerPreserves ==
  ASSUME LifetimeInvariant, NEW h \in Handles, RunCleaner(h)
  PROVE  LifetimeInvariant'
<1> USE LifetimeAssumption DEF LifetimeInvariant, TypeOK, Actors, At,
   RunCleaner, Goto, Idle
<1>1. TypeOK'
  BY DEF Steps, FreeSteps
<1>2. \A g \in Handles : UnbornIsBlank(g)' /\ UnfreedIsIntact(g)'
  BY DEF UnbornIsBlank, UnfreedIsIntact, Born
<1>3. Exclusive'
  BY DEF Exclusive, ExclusiveSteps, ConstructSteps
<1>4. \A b \in Actors : ConstructState(b)'
  BY DEF ConstructState, ConstructSteps
<1>5. \A b \in Actors : OperateState(b)'
  BY DEF OperateState, Born
<1>6. NoInvalidFree' /\ RegionOutlivesObject'
  BY DEF NoInvalidFree, RegionOutlivesObject
<1>7. QED
  BY <1>1, <1>2, <1>3, <1>4, <1>5, <1>6

-----------------------------------------------------------------------------
(* The invariant                                                           *)

\* Nothing exists at the start.
LEMMA InitEstablishes == Init => LifetimeInvariant
<1> SUFFICES ASSUME Init PROVE LifetimeInvariant
  OBVIOUS
<1> USE LifetimeAssumption DEF Init
<1>1. TypeOK
  BY DEF TypeOK, Lives, Outcomes
<1>2. \A h \in Handles : UnbornIsBlank(h) /\ UnfreedIsIntact(h)
  BY DEF UnbornIsBlank, UnfreedIsIntact, Born
<1>3. Exclusive /\ \A a \in Actors : ConstructState(a) /\ OperateState(a)
  BY DEF Exclusive, ExclusiveSteps, ConstructState, OperateState,
     ConstructSteps, UseSteps, FreeSteps, MoveSteps
<1>4. NoInvalidFree /\ RegionOutlivesObject
  BY DEF NoInvalidFree, RegionOutlivesObject
<1>5. QED
  BY <1>1, <1>2, <1>3, <1>4 DEF LifetimeInvariant

\* The invariant speaks of the variables only.
LEMMA StutterPreserves == LifetimeInvariant /\ UNCHANGED vars => LifetimeInvariant'
BY DEF LifetimeInvariant, TypeOK, UnbornIsBlank, UnfreedIsIntact, Born, Exclusive, ConstructState,
       OperateState, CObjectOf, NoInvalidFree, RegionOutlivesObject, vars

\* Every step of every actor preserves the invariant.
LEMMA NextPreserves == LifetimeInvariant /\ [Next]_vars => LifetimeInvariant'
<1> SUFFICES ASSUME LifetimeInvariant, [Next]_vars
             PROVE  LifetimeInvariant'
  OBVIOUS
<1>1. ASSUME NEW h \in Handles, NEW t \in Threads, Construct(t, h)
      PROVE  LifetimeInvariant'
  BY <1>1, BeginConstructPreserves, InitialSucceedsPreserves, InitialFailsPreserves, InitialNullPreserves,
     FreeOnFailurePreserves, MemoryOnFailurePreserves, AdoptPreserves DEF Construct
<1>2. ASSUME NEW h \in Handles, NEW t \in Threads, Operate(t, h)
      PROVE  LifetimeInvariant'
  <2>1. CASE BeginUse(t, h)
    BY <2>1, GetRawPreserves DEF BeginUse, Outcomes
  <2>2. CASE BeginClose(t, h)
    BY <2>2, GetRawPreserves DEF BeginClose, Outcomes
  <2>3. CASE BeginConvert(t, h)
    BY <2>3, GetRawPreserves DEF BeginConvert, Outcomes
  <2>4. QED
    BY <1>2, <2>1, <2>2, <2>3, CallCPreserves, ReturnFromCPreserves, MovePreserves, AfterMovePreserves DEF Operate
<1>3. ASSUME NEW h \in Handles, NEW a \in Actors, RawFree(a, h)
      PROVE  LifetimeInvariant'
  BY <1>3, CasFreedPreserves, BeforeFreePreserves, MemoryFreePreserves DEF RawFree
<1>4. ASSUME NEW h \in Handles, Drop(h) \/ RunCleaner(h)
      PROVE  LifetimeInvariant'
  BY <1>4, DropPreserves, RunCleanerPreserves
<1>5. CASE UNCHANGED vars
  BY <1>5, StutterPreserves
<1>6. QED
  BY <1>1, <1>2, <1>3, <1>4, <1>5 DEF Next

\* Every reachable state satisfies the inductive invariant: at each control
\* point of a constructor, an operation or Raw.free the handle is in the
\* state the code relies on.
THEOREM LifetimeIsInvariant == Spec => []LifetimeInvariant
BY InitEstablishes, NextPreserves, PTL DEF Spec

\* The model's variables keep their types.
THEOREM TypeCorrect == Spec => []TypeOK
<1>1. LifetimeInvariant => TypeOK
  BY DEF LifetimeInvariant
<1>2. QED
  BY <1>1, LifetimeIsInvariant, PTL

\* No handle is ever freed twice, however many threads close it while the
\* cleaners run, and no free function sees a pointer it does not own.
THEOREM FreedAtMostOnce == Spec => []NoInvalidFree
<1>1. LifetimeInvariant => NoInvalidFree
  BY DEF LifetimeInvariant
<1>2. QED
  BY <1>1, LifetimeIsInvariant, PTL

\* The memory of a handle is never freed while its C object is held.
THEOREM RegionFreedLast == Spec => []RegionOutlivesObject
<1>1. LifetimeInvariant => RegionOutlivesObject
  BY DEF LifetimeInvariant
<1>2. QED
  BY <1>1, LifetimeIsInvariant, PTL

-----------------------------------------------------------------------------
(* A constructor that throws                                               *)

\* A failed handle is nobody's target, so nothing dirties it again.
LEMMA FailurePreserved ==
  LifetimeInvariant /\ WhatFailureLeaves /\ [Next]_vars => WhatFailureLeaves'
<1> SUFFICES ASSUME LifetimeInvariant, WhatFailureLeaves, [Next]_vars
             PROVE  WhatFailureLeaves'
  OBVIOUS
<1> USE LifetimeAssumption DEF WhatFailureLeaves, LifetimeInvariant, TypeOK, Actors
<1>1. ASSUME NEW h \in Handles, NEW t \in Threads, Construct(t, h)
      PROVE  WhatFailureLeaves'
  <2> USE DEF At, Goto, Return, Leave, Idle, ConstructState, ConstructSteps
  <2>1. CASE BeginConstruct(t, h)
    BY <2>1 DEF BeginConstruct, Alloc
  <2>2. CASE InitialSucceeds(t, h)
    BY <2>2 DEF InitialSucceeds
  <2>3. CASE InitialFails(t, h)
    BY <2>3 DEF InitialFails
  <2>4. CASE InitialNull(t, h)
    BY <2>4 DEF InitialNull
  <2>5. CASE FreeOnFailure(t, h)
    BY <2>5 DEF FreeOnFailure
  <2>6. CASE MemoryOnFailure(t, h)
    BY <2>6 DEF MemoryOnFailure, FreeMemory
  <2>7. CASE Adopt(t, h)
    BY <2>7 DEF Adopt
  <2>8. QED
    BY <1>1, <2>1, <2>2, <2>3, <2>4, <2>5, <2>6, <2>7 DEF Construct
<1>2. ASSUME NEW h \in Handles, NEW t \in Threads, Operate(t, h)
      PROVE  WhatFailureLeaves'
  <2>1. CASE CallC(t, h)
    BY <2>1 DEF CallC, Alloc, At, OperateState, Born, UseSteps
  <2>2. CASE UNCHANGED <<life, cobj, arena, memFreed>>
    BY <2>2
  <2>3. QED
    BY <1>2, <2>1, <2>2 DEF Operate, BeginUse, BeginClose, BeginConvert, GetRaw, ReturnFromC, Move, AfterMove
<1>3. ASSUME NEW h \in Handles, NEW a \in Actors, RawFree(a, h)
      PROVE  WhatFailureLeaves'
  <2>1. life[h] \in {"reachable", "garbage"} /\ life' = life
    BY <1>3 DEF RawFree, CasFreed, BeforeFree, MemoryFree, At, OperateState, Born, FreeSteps
  <2>2. ASSUME NEW g \in Handles, g # h
        PROVE  cobj'[g] = cobj[g] /\ arena'[g] = arena[g] /\ memFreed'[g] = memFreed[g]
    BY <1>3, <2>2 DEF RawFree, CasFreed, BeforeFree, MemoryFree, FreeMemory
  <2>3. QED
    BY <2>1, <2>2
<1>4. ASSUME NEW h \in Handles, Drop(h) \/ RunCleaner(h)
      PROVE  WhatFailureLeaves'
  BY <1>4 DEF Drop, RunCleaner
<1>5. CASE UNCHANGED vars
  BY <1>5 DEF vars
<1>6. QED
  BY <1>1, <1>2, <1>3, <1>4, <1>5 DEF Next

\* A constructor that throws a GitError never leaks the object or the memory
\* it had acquired, whatever the other threads do meanwhile; one that fails on
\* value!! leaves its arena, in every behaviour.
THEOREM FailureLeavesNothing == Spec => []WhatFailureLeaves
<1>1. Init => WhatFailureLeaves
  BY DEF Init, WhatFailureLeaves
<1>2. QED
  BY <1>1, FailurePreserved, LifetimeIsInvariant, PTL DEF Spec

-----------------------------------------------------------------------------
(* Users of a handle                                                       *)

\* A thread that is using a handle keeps it reachable, so that the cleaner
\* worker leaves it alone; a thread that frees it is closing it.
UserInvariant ==
    /\ pc[CleanerWorker] \in FreeSteps => life[target[CleanerWorker]] = "garbage"
    /\ \A t \in Threads :
         /\ pc[t] # "idle" => target[t] \in Handles
         /\ pc[t] \in UseSteps \cup FreeSteps \cup MoveSteps => life[target[t]] = "reachable"
         /\ pc[t] \in FreeSteps => target[t] \in Closeable
         /\ pc[t] \in UseSteps /\ Undisturbed(target[t]) =>
              cobj[target[t]] = CObjectOf(target[t]) /\ ~memFreed[target[t]]

\* The cleaner worker frees garbage only, and the thread one handle at a time.
LEMMA UserPreserved ==
  ASSUME LifetimeInvariant, UserInvariant, [Next]_vars
  PROVE  UserInvariant'
<1> USE LifetimeAssumption DEF Undisturbed, UserInvariant, LifetimeInvariant, TypeOK, Actors
<1>1. ASSUME NEW h \in Handles, NEW t \in Threads, Construct(t, h)
      PROVE  UserInvariant'
  <2> USE DEF At, Goto, Return, Leave, Idle, ConstructState, OperateState,
          ConstructSteps, UseSteps, FreeSteps, MoveSteps
  <2>1. CASE BeginConstruct(t, h)
    BY <2>1 DEF BeginConstruct
  <2>2. CASE InitialSucceeds(t, h)
    BY <2>2 DEF InitialSucceeds
  <2>3. CASE InitialFails(t, h)
    BY <2>3 DEF InitialFails
  <2>4. CASE InitialNull(t, h)
    BY <2>4 DEF InitialNull
  <2>5. CASE FreeOnFailure(t, h)
    BY <2>5 DEF FreeOnFailure
  <2>6. CASE MemoryOnFailure(t, h)
    BY <2>6 DEF MemoryOnFailure, FreeMemory
  <2>7. CASE Adopt(t, h)
    BY <2>7 DEF Adopt
  <2>8. QED
    BY <1>1, <2>1, <2>2, <2>3, <2>4, <2>5, <2>6, <2>7 DEF Construct
<1>2. ASSUME NEW h \in Handles, NEW t \in Threads, Operate(t, h)
      PROVE  UserInvariant'
  <2> USE DEF At, Goto, Return, Leave, Idle, UseSteps, FreeSteps, MoveSteps
  <2>1. CASE BeginUse(t, h)
    <3>1. ~freed[h] => cobj[h] = CObjectOf(h) /\ ~memFreed[h]
      BY <2>1 DEF BeginUse, GetRaw, UnfreedIsIntact, Born
    <3>2. QED
      BY <2>1, <3>1 DEF BeginUse, GetRaw, CObjectOf
  <2>2. CASE BeginClose(t, h)
    BY <2>2 DEF BeginClose, GetRaw, CObjectOf
  <2>3. CASE BeginConvert(t, h)
    BY <2>3 DEF BeginConvert, GetRaw, CObjectOf
  <2>4. CASE CallC(t, h)
    BY <2>4 DEF CallC, CObjectOf
  <2>5. CASE ReturnFromC(t, h) \/ Move(t, h) \/ AfterMove(t, h)
    BY <2>5 DEF ReturnFromC, Move, AfterMove, CObjectOf
  <2>6. QED
    BY <1>2, <2>1, <2>2, <2>3, <2>4, <2>5 DEF Operate
<1>3. ASSUME NEW h \in Handles, NEW a \in Actors, RawFree(a, h)
      PROVE  UserInvariant'
  <2> USE DEF At, Goto, Leave, UseSteps, FreeSteps, MoveSteps
  <2>1. \A t \in Threads : pc[t] \in UseSteps /\ target[t] = h => ~Undisturbed(h)
    BY <1>3 DEF RawFree, CasFreed, BeforeFree, MemoryFree, SoleThread
  <2>2. CASE CasFreed(a, h)
    BY <2>2 DEF CasFreed, FreeReturns, CObjectOf
  <2>3. CASE BeforeFree(a, h)
    BY <2>1, <2>3 DEF BeforeFree, CObjectOf
  <2>4. CASE MemoryFree(a, h)
    BY <2>1, <2>4 DEF MemoryFree, FreeMemory, FreeReturns, CObjectOf
  <2>5. QED
    BY <1>3, <2>2, <2>3, <2>4 DEF RawFree
<1>4. ASSUME NEW h \in Handles, Drop(h)
      PROVE  UserInvariant'
  BY <1>4 DEF Drop, OperateState, UseSteps, FreeSteps, MoveSteps
<1>5. ASSUME NEW h \in Handles, RunCleaner(h)
      PROVE  UserInvariant'
  BY <1>5 DEF RunCleaner, Goto, Idle
<1>6. CASE UNCHANGED vars
  BY <1>6 DEF vars
<1>7. QED
  BY <1>1, <1>2, <1>3, <1>4, <1>5, <1>6 DEF Next

\* While a C call runs, its object (or, for a structure, its memory) is
\* alive, for any number of threads when the class has no close(), and for
\* one application thread, the cleaner worker notwithstanding, when it has.
THEOREM UsersAreSafe == Spec => []NoUseAfterFree
<1>1. Init => UserInvariant
  BY LifetimeAssumption DEF Init, UserInvariant, Actors, UseSteps, FreeSteps, MoveSteps
<1>2. LifetimeInvariant /\ UserInvariant /\ [Next]_vars => UserInvariant'
  BY UserPreserved
<1>3. LifetimeInvariant /\ UserInvariant => NoUseAfterFree
  BY DEF LifetimeInvariant, UserInvariant, NoUseAfterFree, Usable, CObjectOf, UseSteps
<1>4. QED
  BY <1>1, <1>2, <1>3, LifetimeIsInvariant, PTL DEF Spec

\* The memory of a handle is gone and has an arena only where a close() could
\* come between a check and the call it was for.
RevivedWhereClosed == \A h \in Handles : Revived(h) => ~Undisturbed(h)

\* What allocates in a Memory, and what frees one.
LEMMA ArenaSteps ==
  ASSUME [Next]_vars
  PROVE  \/ UNCHANGED <<arena, memFreed>>
         \/ \E g \in Handles, t \in Threads : BeginConstruct(t, g) \/ CallC(t, g)
         \/ \E g \in Handles : FreeMemory(g)
<1>1. ASSUME NEW h \in Handles, NEW t \in Threads, Construct(t, h)
      PROVE  BeginConstruct(t, h) \/ FreeMemory(h) \/ UNCHANGED <<arena, memFreed>>
  BY <1>1 DEF Construct, InitialSucceeds, InitialFails, InitialNull, FreeOnFailure,
     MemoryOnFailure, Adopt
<1>2. ASSUME NEW h \in Handles, NEW t \in Threads, Operate(t, h)
      PROVE  CallC(t, h) \/ UNCHANGED <<arena, memFreed>>
  BY <1>2 DEF Operate, BeginUse, BeginClose, BeginConvert, GetRaw, ReturnFromC, Move, AfterMove
<1>3. ASSUME NEW h \in Handles, NEW a \in Actors, RawFree(a, h)
      PROVE  FreeMemory(h) \/ UNCHANGED <<arena, memFreed>>
  BY <1>3 DEF RawFree, CasFreed, BeforeFree, MemoryFree
<1>4. ASSUME NEW h \in Handles, Drop(h) \/ RunCleaner(h)
      PROVE  UNCHANGED <<arena, memFreed>>
  BY <1>4 DEF Drop, RunCleaner
<1>5. QED
  BY <1>1, <1>2, <1>3, <1>4 DEF Next, vars

\* A C call that allocates finds the memory of an undisturbed handle in place.
LEMMA RevivalPreserved ==
  ASSUME LifetimeInvariant, UserInvariant, RevivedWhereClosed, [Next]_vars
  PROVE  RevivedWhereClosed'
<1> USE LifetimeAssumption DEF Revived, LifetimeInvariant, TypeOK, Actors
<1>1. ASSUME NEW h \in Handles, Revived(h)', Undisturbed(h)
      PROVE  Revived(h)
  <2>1. CASE UNCHANGED <<arena, memFreed>>
    BY <1>1, <2>1
  <2>2. ASSUME NEW g \in Handles, NEW t \in Threads, BeginConstruct(t, g) \/ CallC(t, g)
        PROVE  FALSE
    <3>1. ~memFreed[g] \/ ~Undisturbed(g)
      BY <2>2 DEF BeginConstruct, CallC, At, UnbornIsBlank, UserInvariant, UseSteps
    <3>2. g # h => Revived(h)
      BY <1>1, <2>2 DEF BeginConstruct, CallC, Alloc
    <3>3. QED
      BY <1>1, <2>2, <3>1, <3>2 DEF BeginConstruct, CallC, RevivedWhereClosed
  <2>3. ASSUME NEW g \in Handles, FreeMemory(g) PROVE Revived(h)
    BY <1>1, <2>3 DEF FreeMemory
  <2>4. QED
    BY <2>1, <2>2, <2>3, ArenaSteps
<1>2. QED
  BY <1>1 DEF RevivedWhereClosed, Undisturbed

\* Memory.alloc brings an arena back only when a close() overtook its user,
\* and no later free clears that arena.
THEOREM RevivedArenasAreLost == Spec => RevivedArenaIsLost
<1>1. Init => UserInvariant /\ RevivedWhereClosed
  BY LifetimeAssumption
     DEF Init, UserInvariant, RevivedWhereClosed, Revived, Actors, UseSteps, FreeSteps, MoveSteps
<1>2. LifetimeInvariant /\ UserInvariant /\ RevivedWhereClosed /\ [Next]_vars
        => UserInvariant' /\ RevivedWhereClosed'
  BY UserPreserved, RevivalPreserved
<1>3. LifetimeInvariant /\ RevivedWhereClosed /\ [Next]_vars
        => [\A h \in Handles : Revived(h) => ~Undisturbed(h) /\ Revived(h)']_vars
  <2> SUFFICES ASSUME LifetimeInvariant, RevivedWhereClosed, [Next]_vars,
                      NEW h \in Handles, Revived(h)
               PROVE  ~Undisturbed(h) /\ Revived(h)'
    OBVIOUS
  <2> USE DEF LifetimeInvariant, TypeOK, Revived
  <2>1. ~Undisturbed(h)
    BY DEF RevivedWhereClosed
  <2>2. ASSUME UNCHANGED <<arena, memFreed>> PROVE Revived(h)'
    BY <2>2
  <2>3. ASSUME NEW g \in Handles, NEW t \in Threads, BeginConstruct(t, g) \/ CallC(t, g)
        PROVE  Revived(h)'
    BY <2>3 DEF BeginConstruct, CallC, Alloc
  <2>4. ASSUME NEW g \in Handles, FreeMemory(g) PROVE Revived(h)'
    BY <2>4 DEF FreeMemory
  <2>5. Revived(h)'
    BY <2>2, <2>3, <2>4, ArenaSteps
  <2>6. QED
    BY <2>1, <2>5
<1>4. QED
  BY <1>1, <1>2, <1>3, LifetimeIsInvariant, PTL DEF Spec, RevivedArenaIsLost

-----------------------------------------------------------------------------
(* The handles implement the abstract resource                             *)

\* When one handle's phase moves on and the others keep theirs, the abstract
\* resource advances.
LEMMA OneAdvances ==
  ASSUME NEW h \in Handles, NEW from, NEW to,
         PhaseOf(h) \in from, PhaseOf(h)' = to,
         \A g \in Handles : g # h => PhaseOf(g)' = PhaseOf(g)
  PROVE  Resource!Advance(h, from, to)
BY DEF ResourcePhase, Resource!Advance

\* When no phase changes, the abstract resource stutters.
LEMMA NoneAdvances ==
  ASSUME \A g \in Handles : PhaseOf(g)' = PhaseOf(g)
  PROVE  UNCHANGED ResourcePhase
BY DEF ResourcePhase

\* Construction opens the region, acquires the object and, if the
\* constructor throws, releases the one and gives the other back.
LEMMA ConstructRefines ==
  ASSUME LifetimeInvariant, NEW h \in Handles, NEW t \in Threads, Construct(t, h)
  PROVE  [Resource!Next]_ResourcePhase
<1> USE LifetimeAssumption DEF LifetimeInvariant, TypeOK, Actors, At, ConstructState, ConstructSteps
<1>1. CASE BeginConstruct(t, h)
  <2>1. /\ PhaseOf(h) \in {"absent"} /\ PhaseOf(h)' = "open"
        /\ \A g \in Handles : g # h => PhaseOf(g)' = PhaseOf(g)
    BY <1>1 DEF BeginConstruct, UnbornIsBlank, PhaseOf
  <2>2. QED
    BY <2>1, OneAdvances DEF Resource!Next, Resource!Open
<1>2. CASE InitialSucceeds(t, h)
  <2>1. \A g \in Handles : g # h => PhaseOf(g)' = PhaseOf(g)
    BY <1>2 DEF InitialSucceeds, PhaseOf
  <2>2. CASE h \in Owning
    <3>1. PhaseOf(h) \in {"absent", "open"} /\ PhaseOf(h)' = "held"
      BY <1>2, <2>2 DEF InitialSucceeds, CObjectOf, PhaseOf
    <3>2. QED
      BY <2>1, <3>1, OneAdvances DEF Resource!Next, Resource!Acquire
  <2>3. CASE h \notin Owning
    <3>1. PhaseOf(h)' = PhaseOf(h)
      BY <1>2, <2>3 DEF InitialSucceeds, CObjectOf, PhaseOf
    <3>2. QED
      BY <2>1, <3>1, NoneAdvances
  <2>4. QED
    BY <2>2, <2>3
<1>3. CASE InitialFails(t, h)
  <2>1. \A g \in Handles : g # h => PhaseOf(g)' = PhaseOf(g)
    BY <1>3 DEF InitialFails, PhaseOf
  <2>2. CASE cobj'[h] = "owned"
    <3>1. PhaseOf(h) \in {"absent", "open"} /\ PhaseOf(h)' = "held"
      BY <1>3, <2>2 DEF InitialFails, PhaseOf
    <3>2. QED
      BY <2>1, <3>1, OneAdvances DEF Resource!Next, Resource!Acquire
  <2>3. CASE cobj'[h] = "none"
    <3>1. PhaseOf(h)' = PhaseOf(h)
      BY <1>3, <2>3 DEF InitialFails, PhaseOf
    <3>2. QED
      BY <2>1, <3>1, NoneAdvances
  <2>4. QED
    BY <1>3, <2>2, <2>3 DEF InitialFails, CObjectOf
<1>4. CASE InitialNull(t, h)
  <2>1. \A g \in Handles : PhaseOf(g)' = PhaseOf(g)
    BY <1>4 DEF InitialNull, PhaseOf
  <2>2. QED
    BY <2>1, NoneAdvances
<1>5. CASE FreeOnFailure(t, h)
  <2>1. \A g \in Handles : g # h => PhaseOf(g)' = PhaseOf(g)
    BY <1>5 DEF FreeOnFailure, PhaseOf
  <2>2. CASE cobj[h] = "owned"
    <3>1. PhaseOf(h) \in {"held"} /\ PhaseOf(h)' = "released"
      BY <1>5, <2>2 DEF FreeOnFailure, CFree, PhaseOf
    <3>2. QED
      BY <2>1, <3>1, OneAdvances DEF Resource!Next, Resource!Release
  <2>3. CASE cobj[h] = "none"
    <3>1. PhaseOf(h)' = PhaseOf(h)
      BY <1>5, <2>3 DEF FreeOnFailure, CFree, PhaseOf
    <3>2. QED
      BY <2>1, <3>1, NoneAdvances
  <2>4. QED
    BY <1>5, <2>2, <2>3 DEF FreeOnFailure
<1>6. CASE MemoryOnFailure(t, h)
  <2>1. /\ PhaseOf(h) \in {"open", "released"} /\ PhaseOf(h)' = "reclaimed"
        /\ \A g \in Handles : g # h => PhaseOf(g)' = PhaseOf(g)
    BY <1>6 DEF MemoryOnFailure, FreeMemory, PhaseOf
  <2>2. QED
    BY <2>1, OneAdvances DEF Resource!Next, Resource!Reclaim
<1>7. CASE Adopt(t, h)
  <2>1. \A g \in Handles : g # h => PhaseOf(g)' = PhaseOf(g)
    BY <1>7 DEF Adopt, PhaseOf
  <2>2. CASE h \in Owning
    <3>1. PhaseOf(h) \in {"absent", "open"} /\ PhaseOf(h)' = "held"
      BY <1>7, <2>2 DEF Adopt, CObjectOf, UnbornIsBlank, PhaseOf
    <3>2. QED
      BY <2>1, <3>1, OneAdvances DEF Resource!Next, Resource!Acquire
  <2>3. CASE h \notin Owning
    <3>1. PhaseOf(h) \in {"absent"} /\ PhaseOf(h)' = "open"
      BY <1>7, <2>3 DEF Adopt, CObjectOf, UnbornIsBlank, PhaseOf
    <3>2. QED
      BY <2>1, <3>1, OneAdvances DEF Resource!Next, Resource!Open
  <2>4. QED
    BY <2>2, <2>3
<1>8. QED
  BY <1>1, <1>2, <1>3, <1>4, <1>5, <1>6, <1>7 DEF Construct

\* Raw.free releases the object and then gives the region back.
LEMMA RawFreeRefines ==
  ASSUME LifetimeInvariant, NEW h \in Handles, NEW a \in Actors, RawFree(a, h)
  PROVE  [Resource!Next]_ResourcePhase
<1> USE DEF LifetimeInvariant, TypeOK, At, OperateState, Born, FreeSteps
<1>1. CASE CasFreed(a, h)
  <2>1. \A g \in Handles : PhaseOf(g)' = PhaseOf(g)
    BY <1>1 DEF CasFreed, PhaseOf
  <2>2. QED
    BY <2>1, NoneAdvances
<1>2. CASE BeforeFree(a, h)
  <2>1. \A g \in Handles : g # h => PhaseOf(g)' = PhaseOf(g)
    BY <1>2 DEF BeforeFree, PhaseOf
  <2>2. CASE h \in Owning
    <3>1. PhaseOf(h) \in {"held"} /\ PhaseOf(h)' = "released"
      BY <1>2, <2>2 DEF BeforeFree, CFree, CObjectOf, PhaseOf
    <3>2. QED
      BY <2>1, <3>1, OneAdvances DEF Resource!Next, Resource!Release
  <2>3. CASE h \notin Owning
    <3>1. PhaseOf(h)' = PhaseOf(h)
      BY <1>2, <2>3 DEF BeforeFree, CFree, CObjectOf, PhaseOf
    <3>2. QED
      BY <2>1, <3>1, NoneAdvances
  <2>4. QED
    BY <2>2, <2>3
<1>3. CASE MemoryFree(a, h)
  <2>1. /\ PhaseOf(h) \in {"open", "released"} /\ PhaseOf(h)' = "reclaimed"
        /\ \A g \in Handles : g # h => PhaseOf(g)' = PhaseOf(g)
    BY <1>3 DEF MemoryFree, FreeMemory, PhaseOf
  <2>2. QED
    BY <2>1, OneAdvances DEF Resource!Next, Resource!Reclaim
<1>4. QED
  BY <1>1, <1>2, <1>3 DEF RawFree

\* Operations and garbage collection are invisible to the C library.
LEMMA OthersRefine ==
  ASSUME LifetimeInvariant, NEW h \in Handles,
         (\E t \in Threads : Operate(t, h)) \/ Drop(h) \/ RunCleaner(h)
  PROVE  UNCHANGED ResourcePhase
<1>1. UNCHANGED <<cobj, memFreed>>
  BY DEF Operate, BeginUse, CallC, ReturnFromC, BeginClose, BeginConvert, Move, AfterMove, GetRaw,
     Drop, RunCleaner
<1>2. \A g \in Handles : life'[g] = "unborn" <=> life[g] = "unborn"
  BY DEF LifetimeInvariant, TypeOK, Operate, BeginUse, CallC, ReturnFromC, BeginClose, BeginConvert,
     Move, AfterMove, GetRaw, Drop, RunCleaner
<1>3. \A g \in Handles : PhaseOf(g)' = PhaseOf(g)
  BY <1>1, <1>2 DEF PhaseOf
<1>4. QED
  BY <1>3, NoneAdvances

\* Every step of the handles is one step of the abstract resource or none.
LEMMA NextRefines ==
  LifetimeInvariant /\ [Next]_vars => [Resource!Next]_ResourcePhase
<1> SUFFICES ASSUME LifetimeInvariant, [Next]_vars
             PROVE  [Resource!Next]_ResourcePhase
  OBVIOUS
<1>1. CASE UNCHANGED vars
  BY <1>1 DEF vars, ResourcePhase, PhaseOf
<1>2. CASE Next
  BY <1>2, ConstructRefines, RawFreeRefines, OthersRefine DEF Next
<1>3. QED
  BY <1>1, <1>2

\* The wrappers implement the abstract resource: each C object is acquired
\* at most once and released at most once, after its acquisition, and the
\* memory region goes last, on every path through the code.
THEOREM HandlesImplementResource == Spec => ImplementsResource
<1>1. Init => Resource!Init
  BY DEF Init, Resource!Init, ResourcePhase, PhaseOf
<1>2. QED
  BY <1>1, NextRefines, LifetimeIsInvariant, PTL DEF Spec, ImplementsResource, Resource!Spec

-----------------------------------------------------------------------------
(* Who releases what is held                                               *)

\* Another actor's step leaves an actor that is freeing where it is.
LEMMA ConstructKeepsReleasers ==
  ASSUME LifetimeInvariant, ReleaseInvariant,
         NEW h \in Handles, NEW t \in Threads, Construct(t, h)
  PROVE  ReleaseInvariant'
<1> USE LifetimeAssumption
        DEF LifetimeInvariant, TypeOK, Actors, At, Goto, Leave, Return, Idle,
            ConstructState, ConstructSteps, Born, Attach
<1>1. \A a \in Actors, g \in Handles : Freeing(a, g)' <=> Freeing(a, g)
  BY DEF Freeing, Construct, BeginConstruct, InitialSucceeds, InitialFails, InitialNull,
     FreeOnFailure, MemoryOnFailure, Adopt
<1>2. ASSUME NEW g \in Handles, g # h
      PROVE  HasReleaser(g)' /\ MovedIsKept(g)'
  <2>1. /\ life'[g] = life[g] /\ freed'[g] = freed[g] /\ memFreed'[g] = memFreed[g]
        /\ cobj'[g] = cobj[g] /\ moved' = moved /\ cleaners'[g] = cleaners[g]
        /\ At(CleanerWorker, g, "free")' <=> At(CleanerWorker, g, "free")
    BY <1>2 DEF Construct, BeginConstruct, InitialSucceeds, InitialFails, InitialNull,
       FreeOnFailure, MemoryOnFailure, Adopt, FreeMemory
  <2>2. QED
    BY <1>1, <2>1 DEF ReleaseInvariant, HasReleaser, MovedIsKept
<1>3. HasReleaser(h)' /\ MovedIsKept(h)'
  <2>1. h \notin moved' /\ ~Born(h)
    BY DEF ReleaseInvariant, MovedIsKept, Construct, BeginConstruct, InitialSucceeds,
       InitialFails, InitialNull, FreeOnFailure, MemoryOnFailure, Adopt
  <2>2. CASE InitialSucceeds(t, h) \/ Adopt(t, h)
    <3>1. cleaners'[h] # {}
      <4>1. PICK attached \in {{"base"}, {"base", "override"}} :
                cleaners' = [cleaners EXCEPT ![h] = attached]
        BY <2>2 DEF InitialSucceeds, Adopt
      <4>2. "base" \in attached
        OBVIOUS
      <4>3. QED
        BY <4>1, <4>2
    <3>2. ~freed'[h]
      BY <2>2 DEF InitialSucceeds, Adopt, UnbornIsBlank
    <3>3. QED
      BY <2>1, <3>1, <3>2 DEF HasReleaser, MovedIsKept
  <2>3. CASE ~Born(h)'
    BY <2>1, <2>3 DEF HasReleaser, MovedIsKept
  <2>4. QED
    BY <2>2, <2>3 DEF Construct, BeginConstruct, InitialFails, InitialNull,
       FreeOnFailure, MemoryOnFailure
<1>4. \A u \in Threads : ConversionFindsFlag(u)'
  BY DEF ReleaseInvariant, ConversionFindsFlag, Construct, BeginConstruct, InitialSucceeds,
     InitialFails, InitialNull, FreeOnFailure, MemoryOnFailure, Adopt
<1>5. QED
  BY <1>2, <1>3, <1>4 DEF ReleaseInvariant

\* move() takes the wrapper from those who would release it; nothing else
\* that uses a wrapper touches them.
LEMMA OperateKeepsReleasers ==
  ASSUME LifetimeInvariant, ReleaseInvariant,
         NEW h \in Handles, NEW t \in Threads, Operate(t, h)
  PROVE  ReleaseInvariant'
<1> USE LifetimeAssumption
        DEF LifetimeInvariant, TypeOK, Actors, At, Goto, Leave, Return, Idle, GetRaw,
            Operate, BeginUse, CallC, ReturnFromC, BeginClose, BeginConvert, Move, AfterMove
<1>1. \A a \in Actors, g \in Handles : Freeing(a, g)' <=> Freeing(a, g)
  BY DEF Freeing
<1>2. UNCHANGED <<life, cobj, memFreed, cleaners>>
  OBVIOUS
<1>3. \A g \in Handles : At(CleanerWorker, g, "free")' <=> At(CleanerWorker, g, "free")
  OBVIOUS
<1>4. CASE Move(t, h)
  <2>1. Born(h)
    BY <1>4 DEF OperateState, MoveSteps
  <2>2. freed' = [freed EXCEPT ![h] = TRUE] /\ moved' = IF freed[h] THEN moved ELSE moved \cup {h}
    BY <1>4
  <2>3. ASSUME ~freed[h]
        PROVE  cobj[h] = CObjectOf(h) /\ ~memFreed[h] /\ \A a \in Actors : ~Freeing(a, h)
    BY <2>1, <2>3 DEF UnfreedIsIntact, OperateState, Freeing
  <2>4. \A g \in Handles : HasReleaser(g)'
    BY <1>1, <1>2, <1>3, <2>1, <2>2 DEF ReleaseInvariant, HasReleaser, Born
  <2>5. \A g \in Handles : MovedIsKept(g)'
    BY <1>1, <1>2, <2>1, <2>2, <2>3 DEF ReleaseInvariant, MovedIsKept, Born
  <2>6. \A u \in Threads : ConversionFindsFlag(u)'
    BY <1>4 DEF ReleaseInvariant, ConversionFindsFlag
  <2>7. QED
    BY <2>4, <2>5, <2>6 DEF ReleaseInvariant
<1>5. CASE UNCHANGED <<freed, moved>>
  <2>1. \A g \in Handles : HasReleaser(g)' /\ MovedIsKept(g)'
    BY <1>1, <1>2, <1>3, <1>5 DEF ReleaseInvariant, HasReleaser, MovedIsKept, Born
  <2>2. \A u \in Threads : ConversionFindsFlag(u)'
    BY <1>5 DEF ReleaseInvariant, ConversionFindsFlag
  <2>3. QED
    BY <2>1, <2>2 DEF ReleaseInvariant
<1>6. QED
  BY <1>4, <1>5

\* The winner of the compareAndSet frees; the losers leave it to the winner,
\* or to nobody when the winner was move().
LEMMA RawFreeKeepsReleasers ==
  ASSUME LifetimeInvariant, ReleaseInvariant,
         NEW h \in Handles, NEW a \in Actors, RawFree(a, h)
  PROVE  ReleaseInvariant'
<1> USE LifetimeAssumption
        DEF LifetimeInvariant, TypeOK, Actors, At, Goto, Leave, FreeReturns
<1>1. Born(h) /\ life' = life /\ moved' = moved /\ cleaners' = cleaners
  BY DEF RawFree, CasFreed, BeforeFree, MemoryFree, OperateState, FreeSteps
<1>2. ASSUME NEW g \in Handles, g # h
      PROVE  HasReleaser(g)' /\ MovedIsKept(g)'
  <2>1. freed'[g] = freed[g] /\ memFreed'[g] = memFreed[g] /\ cobj'[g] = cobj[g]
    BY <1>2 DEF RawFree, CasFreed, BeforeFree, MemoryFree, FreeMemory
  <2>2. /\ \A b \in Actors : Freeing(b, g)' <=> Freeing(b, g)
        /\ At(CleanerWorker, g, "free")' <=> At(CleanerWorker, g, "free")
    BY <1>2 DEF RawFree, CasFreed, BeforeFree, MemoryFree, Freeing
  <2>3. QED
    BY <1>1, <2>1, <2>2 DEF ReleaseInvariant, HasReleaser, MovedIsKept, Born
<1>3. HasReleaser(h)' /\ MovedIsKept(h)'
  <2>1. CASE CasFreed(a, h) /\ ~freed[h]
    <3>1. Freeing(a, h)' /\ freed'[h]
      BY <2>1 DEF CasFreed, Freeing
    <3>2. h \notin moved
      BY <2>1 DEF ReleaseInvariant, MovedIsKept
    <3>3. QED
      BY <1>1, <3>1, <3>2 DEF HasReleaser, MovedIsKept
  <2>2. CASE CasFreed(a, h) /\ freed[h]
    <3>1. UNCHANGED <<memFreed, cobj>> /\ freed'[h]
      BY <2>2 DEF CasFreed
    <3>2. \A b \in Actors : Freeing(b, h)' <=> Freeing(b, h)
      BY <2>2 DEF CasFreed, Freeing
    <3>3. QED
      BY <1>1, <2>2, <3>1, <3>2 DEF ReleaseInvariant, HasReleaser, MovedIsKept, Born
  <2>3. CASE BeforeFree(a, h)
    <3>1. Freeing(a, h) /\ Freeing(a, h)' /\ freed'[h]
      BY <2>3 DEF BeforeFree, Freeing, OperateState
    <3>2. h \notin moved
      BY <3>1 DEF ReleaseInvariant, MovedIsKept
    <3>3. QED
      BY <1>1, <3>1, <3>2 DEF HasReleaser, MovedIsKept
  <2>4. CASE MemoryFree(a, h)
    <3>1. Freeing(a, h) /\ freed'[h] /\ memFreed'[h]
      BY <2>4 DEF MemoryFree, FreeMemory, Freeing, OperateState
    <3>2. h \notin moved
      BY <3>1 DEF ReleaseInvariant, MovedIsKept
    <3>3. QED
      BY <1>1, <3>1, <3>2 DEF HasReleaser, MovedIsKept
  <2>5. QED
    BY <2>1, <2>2, <2>3, <2>4 DEF RawFree
<1>4. \A t \in Threads : ConversionFindsFlag(t)'
  <2>1. \A g \in Handles : freed[g] => freed'[g]
    BY DEF RawFree, CasFreed, BeforeFree, MemoryFree
  <2>2. \A t \in Threads : pc'[t] = "afterMove" => pc[t] = "afterMove" /\ target'[t] = target[t]
    BY DEF RawFree, CasFreed, BeforeFree, MemoryFree
  <2>3. \A t \in Threads : pc[t] = "afterMove" => target[t] \in Handles
    BY DEF OperateState, MoveSteps
  <2>4. QED
    BY <2>1, <2>2, <2>3 DEF ReleaseInvariant, ConversionFindsFlag
<1>5. QED
  BY <1>2, <1>3, <1>4 DEF ReleaseInvariant

\* Dropping a wrapper changes nobody's work, and a cleaner that was taken
\* from the queue is being run.
LEMMA CollectionKeepsReleasers ==
  ASSUME LifetimeInvariant, ReleaseInvariant,
         NEW h \in Handles, Drop(h) \/ RunCleaner(h)
  PROVE  ReleaseInvariant'
<1> USE LifetimeAssumption DEF LifetimeInvariant, TypeOK, Actors, At, Goto, Idle
<1>1. UNCHANGED <<freed, moved, cobj, memFreed>>
  BY DEF Drop, RunCleaner
<1>2. \A g \in Handles : Born(g)' <=> Born(g)
  BY DEF Drop, RunCleaner, Born
<1>3. \A a \in Actors, g \in Handles : Freeing(a, g)' <=> Freeing(a, g)
  BY DEF Drop, RunCleaner, Freeing
<1>4. \A g \in Handles :
         cleaners[g] # {} \/ At(CleanerWorker, g, "free") =>
             cleaners'[g] # {} \/ At(CleanerWorker, g, "free")'
  BY DEF Drop, RunCleaner
<1>5. \A g \in Handles : HasReleaser(g)' /\ MovedIsKept(g)'
  BY <1>1, <1>2, <1>3, <1>4 DEF ReleaseInvariant, HasReleaser, MovedIsKept
<1>6. \A t \in Threads : ConversionFindsFlag(t)'
  BY <1>1 DEF ReleaseInvariant, ConversionFindsFlag, Drop, RunCleaner
<1>7. QED
  BY <1>5, <1>6 DEF ReleaseInvariant

\* Nothing a wrapper holds is ever without somebody to release it, for any
\* wrappers and threads; what move() took is the exception, and for ever.
THEOREM NothingIsForgotten == Spec => []ReleaseInvariant
<1>1. Init => ReleaseInvariant
  BY LifetimeAssumption
     DEF Init, ReleaseInvariant, HasReleaser, MovedIsKept, ConversionFindsFlag, Born, Actors
<1>2. LifetimeInvariant /\ ReleaseInvariant /\ [Next]_vars => ReleaseInvariant'
  <2> SUFFICES ASSUME LifetimeInvariant, ReleaseInvariant, [Next]_vars
               PROVE  ReleaseInvariant'
    OBVIOUS
  <2>1. CASE UNCHANGED vars
    BY <2>1 DEF vars, ReleaseInvariant, HasReleaser, MovedIsKept, ConversionFindsFlag, Born,
       Freeing, At
  <2>2. CASE Next
    BY <2>2, ConstructKeepsReleasers, OperateKeepsReleasers, RawFreeKeepsReleasers,
       CollectionKeepsReleasers DEF Next
  <2>3. QED
    BY <2>1, <2>2
<1>3. QED
  BY <1>1, <1>2, LifetimeIsInvariant, PTL DEF Spec

\* Everything an owning wrapper that move() was called on held is lost: its
\* object stays owned and its memory allocated in every behaviour.
THEOREM MovedObjectsAreLost ==
  Spec => [](\A h \in moved : cobj[h] = CObjectOf(h) /\ ~memFreed[h])
<1>1. LifetimeInvariant /\ ReleaseInvariant
        => \A h \in moved : cobj[h] = CObjectOf(h) /\ ~memFreed[h]
  BY DEF LifetimeInvariant, TypeOK, ReleaseInvariant, MovedIsKept
<1>2. QED
  BY <1>1, LifetimeIsInvariant, NothingIsForgotten, PTL

\* No conversion succeeds: asObject(), peelToXxx() and asHostKey() end with
\* the error of the raw getter, whoever else uses the object
\* (RawWrapperBase.kt:11).
THEOREM ConversionsAlwaysThrow ==
  Spec => [][\A t \in Threads, h \in Handles :
                AfterMove(t, h) => outcome'[t] = "freedError"]_vars
<1>1. LifetimeInvariant /\ ReleaseInvariant /\ [Next]_vars
        => [\A t \in Threads, h \in Handles :
               AfterMove(t, h) => outcome'[t] = "freedError"]_vars
  BY DEF LifetimeInvariant, TypeOK, ReleaseInvariant, ConversionFindsFlag, AfterMove, At, Return
<1>2. QED
  BY <1>1, LifetimeIsInvariant, NothingIsForgotten, PTL DEF Spec
=============================================================================
